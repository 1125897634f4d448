SPECIFICATION Spec
CONSTANTS
    r1 = r1
    r2 = r2
    Rows = {r1, r2}
    Results <- SmallResults
    Items = {i1, i2}
    Backends = {"odbc"}
PROPERTIES
    StoresReliable
