\* One call per rotation, two keys in turn.
SPECIFICATION Spec
CONSTANTS
    N = 2
    Requests = {r1}
    Modes = {"round_robin"}
    CallsPerRotation = 1
    Timeout = 1
    Reports <- MCReports
    BanCodes = {"other"}
    Affinities <- MCAffinities
INVARIANT RotatesInTime
