SPECIFICATION FairSpec
CONSTANTS
    Pids = {p1, p2}
    Replies = {r1, r2}
    Kills = {k1}
    Agents = {a}
    Runs = {w}
    None = None
    TaskKey = TaskKey
    HostTaskId = HostTaskId
    Scenarios = {{"queue", r1, k1}, {r1, r2, k1}, {r1, a, w}, {k1, a, w}}
CHECK_DEADLOCK FALSE
INVARIANTS
    TypeOK
    StoppedHasNoSession
PROPERTIES
    GoalWaitsForItsWork
    RunningSettles
