--------------------------- MODULE MCAuthSession ----------------------------
(***************************************************************************)
(* Two tabs of a browser.  In the first two calls run at once, one of them *)
(* may be a login, the other a logout; in the second the session is        *)
(* restored and ended.                                                     *)
(***************************************************************************)
EXTENDS AuthSession, TLC
CONSTANTS t1, t2, c1, c2, c3
MCTabOf == [c \in Call |-> IF c = c3 THEN t2 ELSE t1]
MCMayBe == [c \in Call |-> CASE c = c1 -> {"protected", "login", "restore"}
                             [] c = c2 -> {"protected", "logout"}
                             [] c = c3 -> {"restore", "logout"}]
=============================================================================
