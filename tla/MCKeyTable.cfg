SPECIFICATION TableSpec
CONSTANTS
    ApiKeys = {k1, k2}
    Callers = {r1}
    Operations = {"append", "override", "status", "delete", "import", "config"}
    NoImport = NoImport
    MaxKeys = 2
PROPERTIES
    StaysPartition
    StatusFollowsKey
