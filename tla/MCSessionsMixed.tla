--------------------------- MODULE MCSessionsMixed ---------------------------
(***************************************************************************)
(* Model-checking Sessions in three worlds, one of which is chosen at the  *)
(* start: every operation, one handler after the other; the operations of  *)
(* several steps, in flight together; and of these only logins and         *)
(* logout_all, since refreshes add sessions without looking at the limit.  *)
(***************************************************************************)
EXTENDS MCSessions

VARIABLE world

MixedInit == Init /\ world \in {"alone", "together", "logins"}

Busy(phases) == {r \in Requests : pc[r] \in phases}

\* The operations of one step keep pc.  Where all of them are in use, one session
\* less is opened.
MixedNext ==
    /\ Next /\ UNCHANGED world
    /\ \/ world = "alone" /\ nextId' < MaxIds
            /\ Cardinality(Busy(Phase \ {"idle"})') <= 1
       \/ world = "together" /\ pc' # pc
       \/ world = "logins" /\ pc' # pc
            /\ Busy({"refresh_session", "password_read"})' = {}

MixedSpec == MixedInit /\ [][MixedNext]_<<vars, world>>

\* Logins in flight together exceed the limit by the handlers in flight at
\* most: the next login sees the excess and evicts it too (service.rs:101-120).
LoginsCapped == world = "logins" => LoginCap

\* One handler at a time, no active session goes back to a password that has
\* been changed since (service.rs:328-339).
AloneUnderCurrentPassword == world = "alone" => ActiveUnderCurrentPassword

\* One handler at a time, logout_all leaves no session of the user active
\* (service.rs:290-297).
AloneAllTerminated ==
    [][\A r \in Requests : world = "alone" /\ LogoutAllCommit(r) => Active' = {}]_<<vars, world>>

\* One handler at a time, a login evicts the sessions used longest ago: none
\* that stays active is older than one it evicts (service.rs:109-115).
AloneOldestEvicted ==
    [][\A s \in Active \ Active', t \in Active \cap Active' :
          world = "alone" /\ session'[s].why = "evicted" => s < t]_<<vars, world>>
=============================================================================
