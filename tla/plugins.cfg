SPECIFICATION FairSpec
CONSTANTS
    ODBC = ODBC
    CHAT = CHAT
    SYSTEM = SYSTEM
    TIME = TIME
    Names = {ODBC, CHAT, SYSTEM, TIME}
    Files = {ODBC, CHAT, SYSTEM}
    Slots = {30, 113, 198}
    Slot <- RealSlots
    Found <- AllHooks
    StartClock = 0
    GiveUpAfter = 10
    None = None
INVARIANT TypeOK
PROPERTIES
    SafeOnceActive
    ImplementsMap
    GetsActive
CHECK_DEADLOCK FALSE
