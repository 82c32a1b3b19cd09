SPECIFICATION AdmissionSpec
CONSTANTS
    Requests = {r1, r2}
    Keys = {k1}
    Limit = 1
    Window = 2
    FreeAuths = 0
    ProAuths = 1
INVARIANTS LimitsSound RevokedKeyRefused
PROPERTIES AdmissionProgress
