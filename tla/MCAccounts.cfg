SPECIFICATION AccountsSpec
CONSTANTS
    Requests = {r1, r2}
    Passwords = {pw1, pw2}
    Companies = {c1}
    None = None
    MaxTokens = 3
    Procs = {r1, r2}
    Sessions = {s1, s2}
    Nil = Nil
    MaxDeletes = 1
SYMMETRY Symm
INVARIANTS SessionImpliesVerified PasswordSticks ResetTokenUsedOnce SessionsSound
