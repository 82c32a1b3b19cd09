SPECIFICATION KillSpec
CONSTANTS
    Streams = {s1, s2, s3}
    Triggers = {k1}
    Nil = Nil
INVARIANT AllTerminated
