SPECIFICATION Spec
CONSTANTS
    Callers = {p1, p2}
    FreshFor = 1
    ReadTimeout = 1
    N = 3
    Jobs = {s1}
    Limit = 2
    Verifiers = {v1, v2}
    MaxRequests = 2
    Interval = 1
    Timeout = 1
    MaxCount = 5
    BaseDigits = {0, 7}
    l1 = l1
    l2 = l2
    Logins = {l1, l2}
    Ip <- MCIp
    Batch = 2
    VLimit = 1
    Window = 2
    Span = 2
    MaxTime = 3
    MaxFaults = 1
    Events = {e1}
    Hooks = {h1, h2}
    Viewers = {w1}
    Routines = {g1, g2}
    Lifetime = 2
    Buffer = 1
    LastTick = 4
    MaxLogins = 2
INVARIANTS InfoSound SyncSound BreakerSound DigitsSound MarksSound FanoutSound ClientSound
PROPERTIES SuspensionSticks NoFalseRejection AlarmExplained BreakerRecovers SyncEnds
