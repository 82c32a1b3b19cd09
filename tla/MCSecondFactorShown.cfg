SPECIFICATION Spec
CONSTANTS
    Requests = {r1}
    TempTokens = {t1}
    MaxSetups = 2
    CodesPerSetup = 1
INVARIANTS ShownIsStored
