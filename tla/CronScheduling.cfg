SPECIFICATION CronSpec
CONSTANTS
    d = d
    w = w
    fixed = fixed
    interval = interval
    Daemon <- OneDaemon
    InProcess <- OneServer
    Job <- TwoJobs
    Fixed <- FixedJobs
    Due <- Timetable
    LastMinute = 3
    StaleMinutes = 2
    MaxStarts = 2
    MaxManual = 1
    Nobody = Nobody
    Ghost = Ghost
    NoEntry = NoEntry
    MinutesPerHour = 4
    HoursPerDay = 3
    HorizonDays = 14
    Schedule <- SomeSchedules
    LastTick = 100
    MaxGap = 30
INVARIANTS
    CaughtUp
    LockedMinutesNotReplayed
    TypeOK
    OneRunPerMinute
    NextRunIsNextDispatch
    CatchUpIsExact
PROPERTIES
    DispatchesOnce
