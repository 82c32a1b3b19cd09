SPECIFICATION HistorySpec
CONSTANTS
    Procs = {p1}
    Sessions = {s1}
    Nil = Nil
    MaxDeletes = 0
SYMMETRY Symm
PROPERTY RefreshTokenRotates
