------------------------------ MODULE MCSessions ------------------------------
(***************************************************************************)
(* Constants for model-checking Sessions.  A limit of 2 sessions stands    *)
(* for MAX_SESSIONS = 5: what matters is that it is reached, exceeded and  *)
(* brought back.                                                           *)
(***************************************************************************)
EXTENDS Sessions, TLC

CONSTANTS r1, r2

TwoRequests == {r1, r2}

AllOperations     == {"login", "refresh", "logout", "logout_all", "revoke",
                      "change_password", "set_active", "expire"}
RefreshOperations == {"login", "refresh", "logout_all"}

Symmetry == Permutations(TwoRequests)
=============================================================================
