SPECIFICATION FairSpec
CONSTANTS
    watch = watch  remind = remind
    gateway = gateway  cli = cli  user = user
    Jobs = {watch, remind}
    Recurring = {watch}
    Workdir = {watch}
    Times <- OnceOnly
    Procs = {gateway, cli}
    Editors = {user}
    Nobody = Nobody
    MaxEdits = 1
    MaxCrashes = 1
    Stuck = {watch}
INVARIANTS TypeOK RunAlone AtMostOnce
PROPERTIES OneShotServed NeverForgotten
CHECK_DEADLOCK FALSE
