SPECIFICATION TableSpec
CONSTANTS
    ApiKeys = {k1, k2}
    Callers = {r1}
    Operations = {"append", "delete"}
    NoImport = NoImport
    MaxKeys = 3
PROPERTIES
    BanHitsCaller
