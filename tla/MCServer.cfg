SPECIFICATION Spec
CONSTANTS
    Setups <- MCSetups
    Localids = {"a", "b"}
    SetSize = 2
    MaxSets = 2
    MaxAccidents <- MCMaxAccidents
    NumClients = 2
    Scripts <- MCScripts
INVARIANTS
    OneSemaphoreEach
    EntryOfItsOwn
    CommandsFindWorkers
    UsableFirst
    RunSignal
    ServedOnce
    QueuedInOrder
PROPERTIES
    StartupEnds
    EveryClientServed
CHECK_DEADLOCK FALSE
