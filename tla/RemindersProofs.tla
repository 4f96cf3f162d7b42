---------------------------- MODULE RemindersProofs ----------------------------
(***************************************************************************)
(* Theorems about Reminders, for any connections, rooms, reminders and     *)
(* faults.  HubInv is inductive for the hub alone, whoever broadcasts;     *)
(* JobInv says what the job's transaction knows of the rows it carries     *)
(* while handlers change them, and gives the two safety properties.        *)
(***************************************************************************)
EXTENDS Reminders, TLAPS

-----------------------------------------------------------------------------
(* The hub.                                                                *)

\* What the safety of the hub rests on: a task is not started twice, and what a
\* broadcast is about to remove cannot take messages any more.
HubInv ==
    /\ HubTypeOK
    /\ NoGhosts
    /\ OnlyDeadPruned
    /\ \A c \in Conns : handler[c] = "none" => outbound[c] = "none"
    /\ \A s \in Senders : cast[s].dead \cap Receiving = {}

\* Nobody is connected at the start.
LEMMA HubStarts == HubInit => HubInv
  BY DEF HubInit, HubInv, HubTypeOK, NoGhosts, OnlyDeadPruned, Task, Peer, NoCast, Receiving

\* A task may start to broadcast to a room at any time.
LEMMA CastStarts ==
    ASSUME NEW s \in Senders, NEW room \in Rooms, NEW message \in Messages,
           CastStart(s, room, message)
    PROVE  /\ HubTypeOK => HubTypeOK'
           /\ HubInv => HubInv'
<1>1. HubTypeOK => HubTypeOK'
  BY DEF HubTypeOK, CastStart, Cast
<1>2. HubInv => \A t \in Senders : cast'[t].dead \cap Receiving' = {}
  BY DEF HubInv, HubTypeOK, CastStart, Receiving
<1> QED
  BY <1>1, <1>2 DEF HubInv, CastStart, NoGhosts, OnlyDeadPruned

\* The variables of the hub keep their types.
LEMMA HubTypes == HubTypeOK /\ HubStep => HubTypeOK'
<1> SUFFICES ASSUME HubTypeOK, HubStep PROVE HubTypeOK'
  OBVIOUS
<1> USE DEF HubTypeOK
<1>1. ASSUME NEW c \in Conns, Connect(c) PROVE HubTypeOK'
  <2>1. queue' \in [Conns -> Seq(Messages \cup {Hello})]
    BY <1>1 DEF Connect, Told
  <2> QED  BY <1>1, <2>1 DEF Connect, Task
<1>2. ASSUME NEW c \in Conns, Unregister(c) PROVE HubTypeOK'
  BY <1>2 DEF Unregister
<1>3. ASSUME NEW c \in Conns, NEW room \in Rooms, JoinRoom(c, room) \/ LeaveRoom(c, room)
      PROVE  HubTypeOK'
  BY <1>3 DEF JoinRoom, LeaveRoom
<1>4. ASSUME NEW c \in Conns, Ping(c) PROVE HubTypeOK'
  <2>1. queue' \in [Conns -> Seq(Messages \cup {Hello})]
    BY <1>4 DEF Ping, Told
  <2> QED  BY <1>4, <2>1 DEF Ping
<1>5. ASSUME NEW c \in Conns, InboundEnds(c) PROVE HubTypeOK'
  BY <1>5 DEF InboundEnds, Task
<1>6. ASSUME NEW c \in Conns, OutboundSends(c) PROVE HubTypeOK'
  <2>1. Head(queue[c]) \in Messages \cup {Hello} /\ Tail(queue[c]) \in Seq(Messages \cup {Hello})
    BY <1>6 DEF OutboundSends
  <2>2. queue' \in [Conns -> Seq(Messages \cup {Hello})]
    BY <1>6, <2>1 DEF OutboundSends
  <2>3. got' \in [Conns -> SUBSET Messages]
    BY <1>6 DEF OutboundSends
  <2> QED  BY <1>6, <2>2, <2>3 DEF OutboundSends, Peer
<1>7. ASSUME NEW c \in Conns, OutboundFails(c) PROVE HubTypeOK'
  BY <1>7 DEF OutboundFails, Task
<1>8. ASSUME NEW c \in Conns, OutboundEnds(c) PROVE HubTypeOK'
  BY <1>8 DEF OutboundEnds, Task
<1>9. ASSUME NEW c \in Conns, Leaves(c) PROVE HubTypeOK'
  BY <1>9 DEF Leaves, Peer
<1>10. ASSUME NEW c \in Conns, NEW s \in Senders, CastVisit(s, c) PROVE HubTypeOK'
  <2>1. cast[s] \in Cast
    BY <1>10 DEF CastVisit, NoCast
  <2>2. cast' \in [Senders -> Cast \cup {NoCast}]
    <3> DEFINE D == IF c \in clients /\ cast[s].room \in rooms[c]
                    THEN cast[s].dead \cup ({c} \ Receiving) ELSE cast[s].dead
    <3>1. D \in SUBSET Conns /\ cast[s].todo \ {c} \in SUBSET Conns
      BY <2>1 DEF Cast
    <3>2. cast' = [cast EXCEPT ![s].todo = cast[s].todo \ {c}, ![s].dead = D]
      BY <1>10 DEF CastVisit
    <3> HIDE DEF D
    <3>3. cast' = [cast EXCEPT ![s] = [cast[s] EXCEPT !.todo = cast[s].todo \ {c}, !.dead = D]]
      BY <3>2
    <3>4. [cast[s] EXCEPT !.todo = cast[s].todo \ {c}, !.dead = D] \in Cast
      BY <2>1, <3>1 DEF Cast
    <3> QED  BY <3>3, <3>4
  <2>3. Append(queue[c], cast[s].message) \in Seq(Messages \cup {Hello})
    <3>1. cast[s].message \in Messages
      BY <2>1 DEF Cast
    <3> QED  BY <3>1
  <2>4. queue' \in [Conns -> Seq(Messages \cup {Hello})]
    BY <1>10, <2>3 DEF CastVisit
  <2> QED  BY <1>10, <2>2, <2>4 DEF CastVisit
<1>11. ASSUME NEW s \in Senders, CastEnd(s) PROVE HubTypeOK'
  BY <1>11 DEF CastEnd
<1>12. ASSUME NEW s \in Announcers, NEW room \in Rooms, NEW m \in News, Incoming(s, room, m)
       PROVE  HubTypeOK'
  BY <1>12, CastStarts, HubAssumption DEF Incoming
<1> QED
  BY <1>1, <1>2, <1>3, <1>4, <1>5, <1>6, <1>7, <1>8, <1>9, <1>10, <1>11, <1>12 DEF HubStep

\* No step of the hub brings a connection back or drops one it could serve.
LEMMA HubSteps == HubInv /\ HubStep => HubInv'
<1> SUFFICES ASSUME HubInv, HubStep PROVE HubInv'
  OBVIOUS
<1>0. HubTypeOK'
  BY HubTypes DEF HubInv
<1> USE DEF HubInv, HubTypeOK, NoGhosts, OnlyDeadPruned, Receiving
<1>1. ASSUME NEW c \in Conns, Connect(c) PROVE HubInv'
  BY <1>0, <1>1 DEF Connect
<1>2. ASSUME NEW c \in Conns, Unregister(c) PROVE HubInv'
  BY <1>0, <1>2 DEF Unregister
<1>3. ASSUME NEW c \in Conns, NEW room \in Rooms, JoinRoom(c, room) \/ LeaveRoom(c, room)
      PROVE  HubInv'
  BY <1>0, <1>3 DEF JoinRoom, LeaveRoom
<1>4. ASSUME NEW c \in Conns, Ping(c) PROVE HubInv'
  BY <1>0, <1>4 DEF Ping
<1>5. ASSUME NEW c \in Conns, InboundEnds(c) PROVE HubInv'
  BY <1>0, <1>5 DEF InboundEnds
<1>6. ASSUME NEW c \in Conns, OutboundSends(c) PROVE HubInv'
  BY <1>0, <1>6 DEF OutboundSends
<1>7. ASSUME NEW c \in Conns, OutboundFails(c) \/ OutboundEnds(c) PROVE HubInv'
  BY <1>0, <1>7 DEF OutboundFails, OutboundEnds
<1>8. ASSUME NEW c \in Conns, Leaves(c) PROVE HubInv'
  BY <1>0, <1>8 DEF Leaves
<1>9. ASSUME NEW c \in Conns, NEW s \in Senders, CastVisit(s, c) PROVE HubInv'
  <2>1. cast[s] \in Cast
    BY <1>9 DEF CastVisit, NoCast
  <2>2. \A t \in Senders : cast'[t].dead \cap Receiving' = {}
    BY <1>9, <2>1 DEF CastVisit, Cast
  <2> QED  BY <1>0, <1>9, <2>2 DEF CastVisit
<1>10. ASSUME NEW s \in Senders, CastEnd(s) PROVE HubInv'
  BY <1>0, <1>10 DEF CastEnd, NoCast
<1>11. ASSUME NEW s \in Announcers, NEW room \in Rooms, NEW m \in News, Incoming(s, room, m)
       PROVE  HubInv'
  <2>1. s \in Senders /\ m \in Messages
    BY HubAssumption
  <2>2. CastStart(s, room, m)
    BY <1>11 DEF Incoming
  <2>3. HubInv => HubInv'
    BY <2>1, <2>2, CastStarts
  <2> QED BY <2>3 DEF HubInv, HubTypeOK, NoGhosts, OnlyDeadPruned, Receiving
<1> QED
  BY <1>1, <1>2, <1>3, <1>4, <1>5, <1>6, <1>7, <1>8, <1>9, <1>10, <1>11 DEF HubStep

-----------------------------------------------------------------------------
(* The reminders.                                                          *)

RemTypes ==
    /\ status \in [Reminder -> Status]
    /\ due \in [Reminder -> BOOLEAN]
    /\ job \in JobState /\ now \in NowState
    /\ fired \in [Reminder -> Nat]
    /\ told \in SUBSET Reminder /\ lost \in SUBSET Reminder
    /\ faults \in 0..MaxFaults
    /\ job.locked \subseteq Exists
    /\ job.current \in job.batch \cup {NoReminder}
    /\ ~job.on => job = JobIdle
    /\ now.at # "idle" => now.reminder \in Reminder

\* The reminders that the job has still to broadcast, in this execution or in a
\* later one.
Unfired == (job.batch \cup {r \in Reminder : /\ status[r] \in {"absent", "pending"}
                                           /\ r \notin job.locked}) \ {job.current}

\* A row that is still to be broadcast was broadcast once per fault at most, and
\* the rows the job has dealt with were broadcast.
JobInv ==
    /\ FiredPerFault
    /\ \A r \in job.batch : status[r] # "absent"
    /\ \A r \in Unfired : fired[r] <= faults
    /\ \A r \in job.locked \cup ({job.current} \cap Reminder) : fired[r] > 0

RemInv == RemTypes /\ JobInv /\ SentWasAnnounced

Inv == HubInv /\ RemInv

LEMMA Starts == Init => Inv
<1> SUFFICES ASSUME Init PROVE Inv
  OBVIOUS
<1>1. HubInv
  BY HubStarts DEF Init
<1>2. RemTypes
  BY RemindersAssumption DEF Init, RemTypes, Status, JobState, NowState, JobIdle, NowIdle, Exists
<1>3. JobInv /\ SentWasAnnounced
  BY RemindersAssumption
     DEF Init, JobInv, FiredPerFault, Unfired, SentWasAnnounced, JobIdle, NowIdle
<1> QED  BY <1>1, <1>2, <1>3 DEF Inv, RemInv

\* Steps of the hub alone.
LEMMA RemindersUnchanged == RemInv /\ UNCHANGED remVars => RemInv'
  BY DEF RemInv, RemTypes, JobInv, FiredPerFault, Unfired, SentWasAnnounced, remVars, Exists

\* create, cancel, delete and the passing of time.
LEMMA RowSteps ==
    ASSUME RemInv, NEW r \in Reminder,
           Create(r) \/ Cancel(r) \/ Delete(r) \/ ComesDue(r)
    PROVE  RemInv'
<1> USE DEF RemInv, RemTypes, Status, Exists, Unlocked
<1>1. RemTypes'
  BY DEF Create, Cancel, Delete, ComesDue
<1>2. JobInv'
  <2>1. \A q \in Reminder : status'[q] = "absent" => status[q] = "absent"
    BY DEF Create, Cancel, Delete, ComesDue
  <2>2. \A q \in Unfired' : q \in Unfired
    BY DEF Unfired, Create, Cancel, Delete, ComesDue
  <2>3. UNCHANGED <<job, fired, faults>>
    BY DEF Create, Cancel, Delete, ComesDue
  <2> QED  BY <2>1, <2>2, <2>3 DEF JobInv, FiredPerFault, JobState
<1>3. SentWasAnnounced'
  BY DEF SentWasAnnounced, Create, Cancel, Delete, ComesDue
<1> QED  BY <1>1, <1>2, <1>3

\* send_now.
LEMMA SendNowSteps ==
    ASSUME RemInv,
           \/ \E r \in Reminder : SendNowRead(r)
           \/ SendNowCommit \/ SendNowTell \/ SendNowDone \/ SendNowDropped
    PROVE  RemInv'
<1> USE DEF RemInv, RemTypes, Status, Exists, Unlocked, NowState, NowIdle
<1>1. CASE \E r \in Reminder : SendNowRead(r)
  BY <1>1 DEF SendNowRead, JobInv, FiredPerFault, Unfired, SentWasAnnounced
<1>2. CASE SendNowCommit
  <2>1. RemTypes'
    BY <1>2 DEF SendNowCommit
  <2>2. JobInv'
    BY <1>2 DEF SendNowCommit, JobInv, FiredPerFault, Unfired
  <2>3. SentWasAnnounced'
    BY <1>2 DEF SendNowCommit, SentWasAnnounced
  <2> QED  BY <2>1, <2>2, <2>3
<1>3. CASE SendNowTell
  BY <1>3 DEF SendNowTell, JobInv, FiredPerFault, Unfired, SentWasAnnounced
<1>4. CASE SendNowDone
  BY <1>4 DEF SendNowDone, JobInv, FiredPerFault, Unfired, SentWasAnnounced
<1>5. CASE SendNowDropped
  BY <1>5 DEF SendNowDropped, JobInv, FiredPerFault, Unfired, SentWasAnnounced
<1> QED  BY <1>1, <1>2, <1>3, <1>4, <1>5

\* The job, its failures and restarts of the service.
LEMMA JobSteps ==
    ASSUME RemInv, JobStep \/ JobFails \/ Restart
    PROVE  RemInv'
<1> USE RemindersAssumption DEF RemInv, RemTypes, JobState, JobIdle
<1>0. CASE JobSelect /\ job' = JobIdle
  <2>1. UNCHANGED remVars
    BY <1>0 DEF JobSelect, remVars
  <2> QED  BY <2>1, RemindersUnchanged
<1>1. CASE JobSelect /\ job' # JobIdle
  <2> PICK S \in SUBSET Due : job' = [JobIdle EXCEPT !.on = TRUE, !.batch = S]
    BY <1>1 DEF JobSelect
  <2>1. job' = [on |-> TRUE, batch |-> S, current |-> NoReminder, locked |-> {}]
    OBVIOUS
  <2>2. job = JobIdle
    BY <1>1 DEF JobSelect
  <2>3. RemTypes'
    BY <1>1, <2>1 DEF JobSelect, Due, Exists
  <2>4. JobInv'
    BY <1>1, <2>1, <2>2 DEF JobSelect, Due, Exists, JobInv, FiredPerFault, Unfired
  <2>5. SentWasAnnounced'
    BY <1>1 DEF JobSelect, SentWasAnnounced
  <2> QED  BY <2>3, <2>4, <2>5
<1>2. ASSUME NEW r \in Reminder, JobFire(r) PROVE RemInv'
  <2>1. RemTypes'
    BY <1>2 DEF JobFire, Exists
  <2>2. JobInv'
    <3>1. r \in Unfired
      BY <1>2 DEF JobFire, Unfired
    <3>2. job' = [job EXCEPT !.current = r] /\ fired' = [fired EXCEPT ![r] = @ + 1]
          /\ UNCHANGED <<status, faults>>
      BY <1>2 DEF JobFire
    <3>3. FiredPerFault'
      BY <3>1, <3>2 DEF JobInv, FiredPerFault
    <3>4. \A q \in Unfired' : q \in Unfired /\ q # r
      BY <1>2, <3>2 DEF JobFire, Unfired
    <3>5. \A q \in Unfired' : fired'[q] <= faults'
      BY <3>2, <3>4 DEF JobInv, Unfired
    <3>6. \A q \in job'.locked \cup ({job'.current} \cap Reminder) : fired'[q] > 0
      BY <3>2 DEF JobInv
    <3>7. \A q \in job'.batch : status'[q] # "absent"
      BY <3>2 DEF JobInv
    <3> QED  BY <3>3, <3>5, <3>6, <3>7 DEF JobInv
  <2>3. SentWasAnnounced'
    BY <1>2 DEF JobFire, SentWasAnnounced
  <2> QED  BY <2>1, <2>2, <2>3
<1>3. CASE JobUpdate
  <2> DEFINE c == job.current
  <2>0. /\ c \in Reminder
        /\ job'.on = job.on /\ job'.batch = job.batch \ {c} /\ job'.current = NoReminder
        /\ job'.locked = job.locked \cup ({c} \cap Exists)
        /\ job' \in JobState
        /\ UNCHANGED <<status, due, now, fired, told, lost, faults>>
    BY <1>3 DEF JobUpdate, Exists
  <2>1. RemTypes'
    <3>1. job.on
      BY <2>0
    <3>2. job'.locked \subseteq Exists'
      BY <2>0 DEF Exists
    <3>3. job'.current \in job'.batch \cup {NoReminder}
      BY <2>0
    <3> QED  BY <2>0, <3>1, <3>2, <3>3
  <2>2. JobInv'
    <3>1. \A r \in Unfired' : r \in Unfired
      BY <2>0 DEF JobInv, Unfired, Exists, Status
    <3>2. \A r \in job'.locked : fired'[r] > 0
      BY <2>0 DEF JobInv, Exists
    <3> QED  BY <2>0, <3>1, <3>2 DEF JobInv, FiredPerFault
  <2>3. SentWasAnnounced'
    BY <1>3 DEF JobUpdate, SentWasAnnounced
  <2> QED  BY <2>1, <2>2, <2>3
<1>4. CASE JobCommit
  <2>1. RemTypes'
    BY <1>4 DEF JobCommit, Exists, Status
  <2>2. JobInv'
    BY <1>4 DEF JobCommit, JobInv, FiredPerFault, Unfired
  <2>3. SentWasAnnounced'
    BY <1>4 DEF JobCommit, JobInv, SentWasAnnounced
  <2> QED  BY <2>1, <2>2, <2>3
<1>5. CASE JobFails
  <2>1. RemTypes'
    BY <1>5 DEF JobFails, Exists
  <2>2. JobInv'
    BY <1>5 DEF JobFails, JobInv, FiredPerFault, Unfired
  <2>3. SentWasAnnounced'
    BY <1>5 DEF JobFails, SentWasAnnounced
  <2> QED  BY <2>1, <2>2, <2>3
<1>6. CASE Restart
  <2>1. RemTypes'
    BY <1>6 DEF Restart, Exists, NowState, NowIdle
  <2>2. JobInv'
    BY <1>6 DEF Restart, JobInv, FiredPerFault, Unfired
  <2>3. SentWasAnnounced'
    BY <1>6 DEF Restart, SentWasAnnounced, NowState
  <2> QED  BY <2>1, <2>2, <2>3
<1> QED  BY <1>0, <1>1, <1>2, <1>3, <1>4, <1>5, <1>6 DEF JobStep

\* A restart leaves every connection gone.
LEMMA HubRestarts == HubInv /\ Restart => HubInv'
  BY DEF HubInv, HubTypeOK, Restart, NoGhosts, OnlyDeadPruned, Receiving, Task, NoCast

\* What leaves the hub alone.
LEMMA HubUnchanged == HubInv /\ UNCHANGED hubVars => HubInv'
  BY DEF HubInv, HubTypeOK, hubVars, NoGhosts, OnlyDeadPruned, Receiving

\* The hub by itself, whatever its announcers report, knows no connection whose
\* handler has ended and keeps every one that it can serve (hub.rs:63-73).
THEOREM HubByItself == HubSpec => [](NoGhosts /\ OnlyDeadPruned)
<1>1. HubInv /\ [HubStep]_hubVars => HubInv'
  BY HubSteps, HubUnchanged
<1>2. HubInv => NoGhosts /\ OnlyDeadPruned
  BY DEF HubInv
<1> QED  BY HubStarts, <1>1, <1>2, PTL DEF HubSpec

LEMMA Steps == Inv /\ [Next]_vars => Inv'
<1> SUFFICES ASSUME Inv, [Next]_vars PROVE Inv'
  OBVIOUS
<1> USE DEF Inv
<1>1. CASE HubStep /\ UNCHANGED remVars
  BY <1>1, HubSteps, RemindersUnchanged
<1>2. ASSUME NEW r \in Reminder, Create(r) \/ Cancel(r) \/ Delete(r) \/ ComesDue(r)
      PROVE  Inv'
  <2>1. UNCHANGED hubVars
    BY <1>2 DEF Create, Cancel, Delete, ComesDue
  <2> QED  BY <1>2, <2>1, HubUnchanged, RowSteps
<1>3. CASE (\E r \in Reminder : SendNowRead(r)) \/ SendNowCommit \/ SendNowDone \/ SendNowDropped
  <2>1. UNCHANGED hubVars
    BY <1>3 DEF SendNowRead, SendNowCommit, SendNowDone, SendNowDropped
  <2> QED  BY <1>3, <2>1, HubUnchanged, SendNowSteps
<1>4. CASE SendNowTell
  <2>1. HubInv'
    BY <1>4, CastStarts, RemindersAssumption DEF SendNowTell, RemInv, RemTypes
  <2> QED  BY <1>4, <2>1, SendNowSteps
<1>5. CASE JobSelect \/ JobUpdate \/ JobCommit \/ JobFails
  <2>1. UNCHANGED hubVars
    BY <1>5 DEF JobSelect, JobUpdate, JobCommit, JobFails
  <2> QED  BY <1>5, <2>1, HubUnchanged, JobSteps DEF JobStep
<1>6. ASSUME NEW r \in Reminder, JobFire(r) PROVE Inv'
  <2>1. HubInv'
    BY <1>6, CastStarts, RemindersAssumption DEF JobFire
  <2> QED  BY <1>6, <2>1, JobSteps DEF JobStep
<1>7. CASE Restart
  BY <1>7, HubRestarts, JobSteps
<1>8. CASE UNCHANGED vars
  <2>1. UNCHANGED hubVars /\ UNCHANGED remVars
    BY <1>8 DEF vars, hubVars, remVars
  <2> QED  BY <2>1, HubUnchanged, RemindersUnchanged
<1> QED
  BY <1>1, <1>2, <1>3, <1>4, <1>5, <1>6, <1>7, <1>8 DEF Next, JobStep

-----------------------------------------------------------------------------
(* The theorems.                                                           *)

\* Inv holds in every reachable state.
LEMMA Always == Spec => []Inv
  BY Starts, Steps, PTL DEF Spec

\* The variables keep their types; the job holds rows that exist
\* (main.rs:184-213).
THEOREM TypeCorrect == Spec => []TypeOK
<1>1. Inv => TypeOK
  BY DEF Inv, HubInv, RemInv, RemTypes, TypeOK
<1> QED  BY <1>1, Always, PTL

\* No connection comes back to the hub after its handler has ended, however its
\* detached tasks go on (websocket.rs:133-138).
THEOREM NoConnectionComesBack == Spec => []NoGhosts
<1>1. Inv => NoGhosts
  BY DEF Inv, HubInv
<1> QED  BY <1>1, Always, PTL

\* Broadcasts prune only connections whose receiver is gone (hub.rs:63-73).
THEOREM ServedStayRegistered == Spec => []OnlyDeadPruned
<1>1. Inv => OnlyDeadPruned
  BY DEF Inv, HubInv
<1> QED  BY <1>1, Always, PTL

\* The job fires a reminder once, and once more per failed execution or restart
\* (main.rs:183-216).
THEOREM FiresOncePerFault == Spec => []FiredPerFault
<1>1. Inv => FiredPerFault
  BY DEF Inv, RemInv, JobInv
<1> QED  BY <1>1, Always, PTL

\* No reminder is "sent" that nobody announced, but for a send_now that ended
\* right after its commit (main.rs:193-216, handlers.rs:136-139).
THEOREM SentIsAnnounced == Spec => []SentWasAnnounced
<1>1. Inv => SentWasAnnounced
  BY DEF Inv, RemInv
<1> QED  BY <1>1, Always, PTL
=============================================================================
