--------------------------- MODULE MCTokenRefresh ---------------------------
(***************************************************************************)
(* Constants for model-checking TokenRefresh: two API calls, one of which  *)
(* may wait for the other, a login, and a login with a wrong password,     *)
(* which is answered 401 like a call without a token.                      *)
(***************************************************************************)
EXTENDS TokenRefresh

CONSTANTS a1, a2, good, bad

Callers   == {a1, a2, good, bad}
GoodOnes  == {good}
BadOnes   == {bad}
=============================================================================
