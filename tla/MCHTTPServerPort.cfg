SPECIFICATION Spec
CONSTANTS
    r1 = r1
    r2 = r2
    file = file
    Requests = {r1, r2}
    Names = {file}
    Name <- MCName
    Size <- MCSize
    Kinds = {"upload", "stream", "options", "file", "info"}
    Ports = {1505, 8080}
    DefaultPort = 1505
    DefaultMax = 2
    UserConfigs <- MCUserConfigs
    EnvPorts = {None, 8080}
    Starts = 2
    Absent = Absent
    Torn = Torn
    None = None
INVARIANTS
    PortIsHonoured
CHECK_DEADLOCK FALSE
