SPECIFICATION ComponentsSpec
CONSTANTS
    PoolSize = 2
    Prepare = 1
    ThreadNum = 2
    MaxChunks = 2
    Size = 2
    MaxBlocks = 3
    Value = {1, 2}
    Capacity = 4
    MaxBlock = 3
    Event = {"e1", "e2"}
    Type = {"t1", "t2"}
    Callback = {"c1", "c2"}
    MaxCallbacks = 4
    MaxDepth = 2
    Weekdays <- MCWeekdays
    Lists <- MCLists
    LastDay = 5
    Files <- MCFiles
    Dates <- MCDates
    Years = {1900, 2000, 2018, 2023, 2024}
    Len1 = 2
    Len2 = 2
    MaxRecords = 5
    Texts <- MCTexts
    MaxTime = 4
    MaxCmds = 2
    Program = {"p1", "p2", "p3"}
    Stranger = {"s"}
    Pid = {1, 2, 3}
    Cmdline <- MCCmdline
    Days <- MCDays
    Configs <- MCConfigs
    Writer = {"w1", "w2"}
    MaxWrites = 2
    Tables <- MCTables
INVARIANTS
    ComponentsTypeOK
    MirrorsList
    MemoryOnce
    HeardInOrder
    CheckpointRestores
    DaysTrue
    NothingLost
    AnswersBelong
    OneInstance
    MergeTrue
    TableSurvives
CHECK_DEADLOCK FALSE
