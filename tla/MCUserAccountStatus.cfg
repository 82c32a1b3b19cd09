SPECIFICATION Spec
CONSTANTS
    Requests = {r1}
    Passwords = {pw1, pw2}
    Companies = {c1}
    None = None
    MaxTokens = 2
SYMMETRY Symm
INVARIANT StatusDocumented
