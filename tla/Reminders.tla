------------------------------- MODULE Reminders -------------------------------
(***************************************************************************)
(* The reminders of one organization in rust-core: the handlers of         *)
(* reminders/handlers.rs, the job of main.rs that fires due reminders, and *)
(* the WebSocket hub through which both announce them.                     *)
(*                                                                         *)
(* The job is one transaction: it selects the due reminders, and for each  *)
(* of them broadcasts first and updates the row by its id afterwards; the  *)
(* rows stay locked until the commit, which a fault may prevent.  create,  *)
(* cancel and delete change one row and hold its lock alone, each is one   *)
(* step.  send_now reads, updates and commits, and then broadcasts.        *)
(***************************************************************************)
EXTENDS WsHub

CONSTANTS
    Reminder,     \* rows that may come to exist
    Stored,       \* those that are there, pending, when the service first starts
    Room,         \* "org:<id>" of their organization
    Job, SendNow, \* the senders: the job, and one send_now request at a time
    NoReminder,
    Limit,        \* LIMIT of the job's SELECT (50 in the code)
    MaxFaults,    \* bound on failed executions of the job and restarts
    RowsDecode    \* does sqlx decode reminders.status (an enum) into a String

ASSUME RemindersAssumption ==
    /\ Reminder \subseteq Messages /\ Stored \subseteq Reminder /\ NoReminder \notin Reminder
    /\ Job \in Senders /\ SendNow \in Senders /\ Job # SendNow /\ Room \in Rooms
    /\ Limit \in Nat \ {0} /\ MaxFaults \in Nat /\ RowsDecode \in BOOLEAN
    /\ IsFiniteSet(Reminder)

VARIABLES
    status,    \* committed status of each row; "absent" before, "deleted" after
    due,       \* has scheduled_at passed
    job,       \* the job's transaction
    now,       \* the send_now request
    fired,     \* how often the job has broadcast each reminder
    told,      \* the reminders some send_now has broadcast
    lost,      \* those whose send_now ended between its commit and the broadcast
    faults     \* failed executions of the job, and restarts

remVars == <<status, due, job, now, fired, told, lost, faults>>
vars    == <<hubVars, remVars>>

Status == {"absent", "pending", "sent", "cancelled", "deleted"}
Exists == {r \in Reminder : status[r] \in {"pending", "sent", "cancelled"}}

\* batch: the rows selected and not yet dealt with; current: the one that was
\* broadcast last; locked: the rows updated.
JobState == [on : BOOLEAN, batch : SUBSET Reminder, current : Reminder \cup {NoReminder},
             locked : SUBSET Reminder]
JobIdle  == [on |-> FALSE, batch |-> {}, current |-> NoReminder, locked |-> {}]

NowState == [at : {"idle", "read", "committed", "telling"}, reminder : Reminder \cup {NoReminder}]
NowIdle  == [at |-> "idle", reminder |-> NoReminder]

Init ==
    /\ HubInit
    /\ status = [r \in Reminder |-> IF r \in Stored THEN "pending" ELSE "absent"]
    /\ due = [r \in Reminder |-> FALSE]
    /\ job = JobIdle
    /\ now = NowIdle
    /\ fired = [r \in Reminder |-> 0]
    /\ told = {} /\ lost = {}
    /\ faults = 0

Unlocked(r) == r \notin job.locked

(* create, cancel, delete *)

\* RETURNING * reads the row back; when that fails, so does the request.
Create(r) ==
    /\ RowsDecode /\ status[r] = "absent"
    /\ status' = [status EXCEPT ![r] = "pending"]
    /\ UNCHANGED <<hubVars, due, job, now, fired, told, lost, faults>>

Cancel(r) ==
    /\ status[r] = "pending" /\ Unlocked(r)
    /\ status' = [status EXCEPT ![r] = "cancelled"]
    /\ UNCHANGED <<hubVars, due, job, now, fired, told, lost, faults>>

Delete(r) ==
    /\ status[r] = "pending" /\ Unlocked(r)
    /\ status' = [status EXCEPT ![r] = "deleted"]
    /\ UNCHANGED <<hubVars, due, job, now, fired, told, lost, faults>>

\* Time: scheduled_at passes.
ComesDue(r) ==
    /\ r \in Exists /\ ~due[r]
    /\ due' = [due EXCEPT ![r] = TRUE]
    /\ UNCHANGED <<hubVars, status, job, now, fired, told, lost, faults>>

(* send_now *)

SendNowRead(r) ==
    /\ RowsDecode /\ now.at = "idle" /\ r \in Exists
    /\ \A c \in Conns : Len(queue[c]) < MaxQueue
    /\ now' = [at |-> "read", reminder |-> r]
    /\ UNCHANGED <<hubVars, status, due, job, fired, told, lost, faults>>

\* The UPDATE tests no status, and nothing tests that it found a row.
SendNowCommit ==
    /\ now.at = "read" /\ Unlocked(now.reminder)
    /\ status' = [status EXCEPT ![now.reminder] = IF @ = "deleted" THEN @ ELSE "sent"]
    /\ now' = [now EXCEPT !.at = "committed"]
    /\ UNCHANGED <<hubVars, due, job, fired, told, lost, faults>>

SendNowTell ==
    /\ now.at = "committed"
    /\ CastStart(SendNow, Room, now.reminder)
    /\ told' = told \cup {now.reminder}
    /\ now' = [now EXCEPT !.at = "telling"]
    /\ UNCHANGED <<status, due, job, fired, lost, faults>>

SendNowDone ==
    /\ now.at = "telling" /\ ~cast[SendNow].on
    /\ now' = NowIdle
    /\ UNCHANGED <<hubVars, status, due, job, fired, told, lost, faults>>

\* The client hangs up or a statement fails; at the commit the transaction may
\* have been committed all the same.
SendNowDropped ==
    /\ now.at \in {"read", "committed"}
    /\ lost' = IF now.at = "committed" THEN lost \cup {now.reminder} ELSE lost
    /\ now' = NowIdle
    /\ UNCHANGED <<hubVars, status, due, job, fired, told, faults>>

(* process_due_reminders *)

\* Variant: the SELECT without its status condition.
DueInAnyStatus == {r \in Exists : due[r]}

Due == {r \in Exists : status[r] = "pending" /\ due[r]}

\* Any Limit of the due rows: there is no ORDER BY.  A row that cannot be decoded
\* fails the execution, which is over before it has begun.
JobSelect ==
    /\ ~job.on
    /\ \E S \in SUBSET Due :
         /\ Cardinality(S) = IF Cardinality(Due) > Limit THEN Limit ELSE Cardinality(Due)
         /\ job' = IF RowsDecode \/ S = {} THEN [JobIdle EXCEPT !.on = TRUE, !.batch = S]
                                           ELSE JobIdle
    /\ UNCHANGED <<hubVars, status, due, now, fired, told, lost, faults>>

JobFire(r) ==
    /\ r \in job.batch /\ job.current = NoReminder
    /\ CastStart(Job, Room, r)
    /\ job' = [job EXCEPT !.current = r]
    /\ fired' = [fired EXCEPT ![r] = @ + 1]
    /\ UNCHANGED <<status, due, now, told, lost, faults>>

\* Variant: the row is inserted again if it is gone.
JobUpdateAnyRow ==
    /\ job.current # NoReminder /\ ~cast[Job].on
    /\ job' = [job EXCEPT !.batch = @ \ {job.current}, !.current = NoReminder,
                          !.locked = @ \cup {job.current}]
    /\ UNCHANGED <<hubVars, status, due, now, fired, told, lost, faults>>

\* UPDATE ... WHERE id = $1, when the broadcast has returned: it locks the row
\* if there still is one, whatever its status.
JobUpdate ==
    /\ job.current # NoReminder /\ ~cast[Job].on
    /\ job' = [job EXCEPT !.batch = @ \ {job.current}, !.current = NoReminder,
                          !.locked = @ \cup ({job.current} \cap Exists)]
    /\ UNCHANGED <<hubVars, status, due, now, fired, told, lost, faults>>

\* Variant: the status is committed before the loop has broadcast.
JobCommitEarly ==
    /\ job.on /\ job.current = NoReminder
    /\ status' = [r \in Reminder |-> IF r \in (job.locked \cup job.batch) \cap Exists
                                     THEN "sent" ELSE status[r]]
    /\ job' = JobIdle
    /\ UNCHANGED <<hubVars, due, now, fired, told, lost, faults>>

JobCommit ==
    /\ job.on /\ job.batch = {}
    /\ status' = [r \in Reminder |-> IF r \in job.locked THEN "sent" ELSE status[r]]
    /\ job' = JobIdle
    /\ UNCHANGED <<hubVars, due, now, fired, told, lost, faults>>

\* A statement or the commit fails: rolled back, and tried again at the next tick.
JobFails ==
    /\ job.on /\ ~cast[Job].on /\ faults < MaxFaults
    /\ job' = JobIdle
    /\ faults' = faults + 1
    /\ UNCHANGED <<hubVars, status, due, now, fired, told, lost>>

(* The process is restarted: committed rows remain, and what clients got. *)
Restart ==
    /\ faults < MaxFaults
    /\ faults' = faults + 1
    /\ job' = JobIdle /\ now' = NowIdle
    /\ lost' = IF now.at = "committed" THEN lost \cup {now.reminder} ELSE lost
    /\ clients' = {}
    /\ queue' = [c \in Conns |-> <<>>]
    /\ handler' = [c \in Conns |-> IF handler[c] = "none" THEN "none" ELSE "ended"]
    /\ inbound' = [c \in Conns |-> IF inbound[c] = "none" THEN "none" ELSE "ended"]
    /\ outbound' = [c \in Conns |-> IF outbound[c] = "none" THEN "none" ELSE "ended"]
    /\ cast' = [s \in Senders |-> NoCast]
    /\ UNCHANGED <<rooms, peer, got, status, due, fired, told>>

JobStep == JobSelect \/ (\E r \in Reminder : JobFire(r)) \/ JobUpdate \/ JobCommit

Next ==
    \/ HubStep /\ UNCHANGED remVars
    \/ \E r \in Reminder :
         Create(r) \/ Cancel(r) \/ Delete(r) \/ ComesDue(r) \/ SendNowRead(r)
    \/ SendNowCommit \/ SendNowTell \/ SendNowDone \/ SendNowDropped
    \/ JobStep \/ JobFails
    \/ Restart

Spec == Init /\ [][Next]_vars

\* tokio runs what can run, and TCP gives up on what is never acknowledged.
HubFairness ==
    /\ \A c \in Conns :
         /\ WF_vars(Unregister(c) /\ UNCHANGED remVars)
         /\ WF_vars(InboundEnds(c) /\ UNCHANGED remVars)
         /\ WF_vars(OutboundStep(c) /\ UNCHANGED remVars)
    /\ \A s \in Senders : WF_vars(CastStep(s) /\ UNCHANGED remVars)

\* Also the handlers go on, and the interval starts the job again for ever.
Fairness == /\ HubFairness
            /\ WF_vars(JobStep) /\ WF_vars(SendNowTell) /\ WF_vars(SendNowDone)

FairSpec == Spec /\ Fairness

-----------------------------------------------------------------------------
(* Properties.                                                             *)

\* Types; and the job, between two statements, holds rows that exist, whatever
\* was deleted since its SELECT (main.rs:184-213).
TypeOK ==
    /\ HubTypeOK
    /\ status \in [Reminder -> Status]
    /\ due \in [Reminder -> BOOLEAN]
    /\ job \in JobState /\ now \in NowState
    /\ fired \in [Reminder -> Nat]
    /\ told \in SUBSET Reminder /\ lost \in SUBSET Reminder
    /\ faults \in 0..MaxFaults
    /\ job.locked \subseteq Exists
    /\ job.current \in job.batch \cup {NoReminder}
    /\ ~job.on => job = JobIdle

\* A reminder is fired again only because an execution of the job failed or the
\* service was restarted: neither its handlers nor a second execution of the
\* job bring a fired reminder back (main.rs:183-216).
FiredPerFault ==
    \A r \in Reminder : fired[r] <= faults + 1

\* A reminder that is "sent" was announced, by the job before it committed or
\* by send_now after it; only a send_now that ends right after its commit can
\* leave one unannounced (main.rs:193-216, handlers.rs:136-139).
SentWasAnnounced ==
    \A r \in Reminder : status[r] = "sent" =>
        \/ fired[r] > 0 \/ r \in told \/ r \in lost
        \/ now = [at |-> "committed", reminder |-> r]

\* "Background: fire pending reminders every minute" (main.rs:75): a pending
\* reminder that is due does not stay pending, although executions of the job fail
\* and the service is restarted.
DueIsSettled ==
    \A r \in Reminder : (status[r] = "pending" /\ due[r]) ~> status[r] # "pending"
=============================================================================
