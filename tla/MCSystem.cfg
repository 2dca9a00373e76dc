\* The bounds stop each worker's environment.
CONSTANTS
    Numbers = {1, 2}
    Types = {"SYSCALL", "PATH"}
    MaxLines = 5
    MaxCuts = 1
    Pids = {1, 3, 4}
    Programs = {"sh", "syslog-ng"}
    Logger = "syslog-ng"
    MaxEvents = 4
    MaxQueue = 2
    Places = {1, 2, 3}
    Kinds <- MCKinds
    Watched <- MCWatched
    MaxChanges = 3
    MaxPasses = 1
SPECIFICATION Spec
INVARIANTS NotMixed WholeEvents NamesWhatRan RightVerdict
CHECK_DEADLOCK FALSE
