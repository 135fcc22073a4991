SPECIFICATION Spec
CONSTANTS
    N = 2
    Requests = {r1}
    Modes = {"round_robin", "random", "fill_first"}
    CallsPerRotation = 2
    Timeout = 1
    Reports <- MCReports
    BanCodes = {"other"}
    Affinities <- MCAffinities

PROPERTIES FitBeforeTired RefusesOnlyWithoutKey
