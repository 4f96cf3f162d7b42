----------------------------- MODULE MCReminders -----------------------------
(***************************************************************************)
(* Constants for model-checking Reminders with the hub, and three worlds,  *)
(* one of which is chosen at the start: the hub alone, with two            *)
(* connections of one user and a connector that reports events; one        *)
(* reminder and one connection, which sends no ping; two reminders, of     *)
(* which a job that takes one at a time leaves the other for its next run, *)
(* and nobody connected.                                                   *)
(***************************************************************************)
EXTENDS Reminders

CONSTANTS m1, m2, event, c1, c2, u1, org, hello, connector

VARIABLE world

OneReminder  == {m1}
TwoReminders == {m1, m2}
AllMessages  == {m1, m2, event}
OneEvent     == {event}
TwoConns     == {c1, c2}
OneRoom      == {org}
AllSenders   == {Job, SendNow, connector}
OneConnector == {connector}
SameUser     == [c \in Conns |-> u1]

Silent == handler'[c2] = "none" /\ ~cast'[connector].on

HubWorld       == HubStep /\ UNCHANGED remVars
OneOfEachWorld == Next /\ Silent /\ status'[m2] = "absent" /\ ~Ping(c1)
RowsWorld      == Next /\ Silent /\ handler'[c1] = "none"

WorldsInit == Init /\ world \in {"hub", "one of each", "rows"}
WorldsNext ==
    /\ \/ world = "hub" /\ HubWorld
       \/ world = "one of each" /\ OneOfEachWorld
       \/ world = "rows" /\ RowsWorld
    /\ UNCHANGED world

\* Nothing fires reminders in the world of the hub.
WorldsFairness ==
    /\ HubFairness
    /\ WF_vars(world # "hub" /\ JobStep) /\ WF_vars(SendNowTell) /\ WF_vars(SendNowDone)

WorldsSpec == WorldsInit /\ [][WorldsNext]_<<vars, world>> /\ WorldsFairness
=============================================================================
