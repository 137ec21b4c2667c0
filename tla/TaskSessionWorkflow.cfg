SPECIFICATION Spec
CONSTANTS
    Pids = {p1}
    Replies = {}
    Kills = {}
    Agents = {}
    Runs = {w}
    None = None
    TaskKey = TaskKey
    HostTaskId = HostTaskId
    Scenarios = {{w}}
CHECK_DEADLOCK FALSE
PROPERTIES
    NextResultEndsTheTurn
