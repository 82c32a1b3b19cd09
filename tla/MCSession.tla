----------------------------- MODULE MCSession ------------------------------
(* Small instances of Session, with the history of the refresh tokens that *)
(* RefreshToken has answered.                                              *)
EXTENDS Session, TLC

VARIABLE accepted   \* history: sessions whose refresh token was accepted

Symm == Permutations(Procs) \cup Permutations(Sessions)

historyVars == <<sessionVars, accepted>>

\* The GET of the session answers a RefreshToken call.
RefreshAnswered(p) == op[p] = "refresh" /\ GetSession(p)

HistoryInit == SessionInit /\ accepted = {}

HistoryNext ==
    /\ SessionNext
    /\ accepted' = accepted \cup {sess[p] : p \in {q \in Procs : RefreshAnswered(q)}}

HistorySpec == HistoryInit /\ [][HistoryNext]_historyVars

\* "Token refresh - Opaque refresh token rotation": a refresh token is
\* exchanged at most once.
RefreshTokenRotates ==
    [][\A p \in Procs : RefreshAnswered(p) => sess[p] \notin accepted]_historyVars

=============================================================================
