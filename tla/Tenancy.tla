-------------------------------- MODULE Tenancy --------------------------------
(***************************************************************************)
(* What happens to a request of rust-core between its authentication and   *)
(* its answer: a connection of the pool, a transaction with the settings   *)
(* that row level security reads (state.rs, tenancy.rs,                    *)
(* 0003_rls_tenant.sql), and the statements of the handler.                *)
(*                                                                         *)
(* A handler is the sequence of statements it executes; any of them may    *)
(* end it with an error, which drops the transaction.  A row is named by   *)
(* its table and by what the table's UNIQUE constraint is about, so there  *)
(* is one department and one client of interest per organization.  Of the  *)
(* columns only those are kept that a property or a policy reads.          *)
(***************************************************************************)
EXTENDS Integers, Sequences, FiniteSets

CONSTANTS
    Requests,   \* each is served once
    Conns,      \* connections of the pool (20 in the code)
    Orgs,       \* organizations; their clients and departments are named after them
    Numbers,    \* contract numbers
    Emails,     \* of users and of administrators of organizations
    Users,      \* profiles: [skip |-> rls_skip(), org |-> rls_org_id()]
    Stored,     \* departments and clients that may exist at the start
    Nobody, None, Unset

ASSUME TenancyAssumption ==
    /\ IsFiniteSet(Requests) /\ IsFiniteSet(Numbers)
    /\ Nobody \notin Requests /\ Nobody \notin Conns
    /\ None \notin Orgs /\ Unset \notin Orgs \cup {None, Nobody} \cup Requests
    /\ Stored \subseteq {"departments", "clients"} \X Orgs
    /\ Users \subseteq [skip : BOOLEAN, org : Orgs \cup {None}]

VARIABLES
    db,        \* the rows, with what open transactions have written
    undo,      \* the rows each connection's transaction wrote, as they were before
    shared,    \* the rows it keeps from being deleted (FOR KEY SHARE)
    settings,  \* app.skip_tenant_rls and app.current_org_id on each connection
    idle,      \* connections in the pool
    at,        \* how far each request is
    user,      \* Extension(user): its profile
    conn,      \* its connection
    todo,      \* the statements it still has to execute
    strays     \* requests that read or wrote a row of another organization

vars == <<db, undo, shared, settings, idle, at, user, conn, todo, strays>>

Keys == ({"organizations", "departments", "clients", "attendance"} \X Orgs)
        \cup ({"contracts"} \X Numbers) \cup ({"org_admins", "users"} \X Emails)

\* total: of a client, in units of one contract; byHand: whether an update set
\* it; by: the request that wrote the row last.
Row    == [org : Orgs \cup {None}, client : Orgs \cup {None}, total : Nat,
           byHand : BOOLEAN, by : Requests \cup {Nobody}]
Absent == [org |-> None, client |-> None, total |-> 0, byHand |-> FALSE, by |-> Unset]
NewRow(org, client) ==
    [org |-> org, client |-> client, total |-> 0, byHand |-> FALSE, by |-> Nobody]

\* The rows a row refers to.  users.org_id is no foreign key.
Parents(key, row) ==
    (IF key[1] \in {"organizations", "users"} THEN {} ELSE {<<"organizations", row.org>>})
    \cup (IF row.client = None THEN {} ELSE {<<"clients", row.client>>})

-----------------------------------------------------------------------------
(* The statements of the handlers.  Insert, Upsert, Change and Remove name one
   row; Change and Remove are NotFound if no row qualifies, Adjust is not. *)

Select(table)    == [do |-> "select", key |-> <<table, None>>, row |-> Absent, how |-> ""]
Exists(key)      == [do |-> "exists", key |-> key, row |-> Absent, how |-> ""]
Free(key)        == [do |-> "free", key |-> key, row |-> Absent, how |-> ""]
Insert(key, row) == [do |-> "insert", key |-> key, row |-> row, how |-> ""]
Upsert(key, row) == [do |-> "upsert", key |-> key, row |-> row, how |-> ""]
Change(key, how) == [do |-> "change", key |-> key, row |-> Absent, how |-> how]
Adjust(key, how) == [do |-> "adjust", key |-> key, row |-> Absent, how |-> how]
Remove(key)      == [do |-> "remove", key |-> key, row |-> Absent, how |-> ""]

Org(o)    == <<"organizations", o>>
Dept(o)   == <<"departments", o>>
Client(o) == <<"clients", o>>
AdminOf(e) == <<"org_admins", e>>
UserOf(e)  == <<"users", e>>
Contract(n) == <<"contracts", n>>
Attended(o) == <<"attendance", o>>

(* organizations.  The inn is optional, and tested when it is there. *)
OrgList      == {<<Select("organizations")>>}
OrgGet       == {<<Exists(Org(o))>> : o \in Orgs}
OrgCreate    == {<<Free(Org(o)), Insert(Org(o), NewRow(o, None))>> : o \in Orgs}
                \cup {<<Insert(Org(o), NewRow(o, None))>> : o \in Orgs}
OrgUpdate    == {<<Change(Org(o), "edit")>> : o \in Orgs}
OrgDelete    == {<<Remove(Org(o))>> : o \in Orgs}
OrgChildren  == {<<Select("organizations")>>}
OrgStats     == {<<Select("organizations")>>}
AdminList    == {<<Select("org_admins")>>}
AdminCreate  == {<<Exists(Org(o)), Free(AdminOf(e)), Insert(AdminOf(e), NewRow(o, None))>> :
                   o \in Orgs, e \in Emails}
AdminDelete  == {<<Remove(AdminOf(e))>> : e \in Emails}
AdminUpdate  == {<<Change(AdminOf(e), "edit")>> : e \in Emails}

(* departments *)
DeptList     == {<<Select("departments")>>}
DeptGet      == {<<Exists(Dept(o))>> : o \in Orgs}
DeptCreate   == {<<Insert(Dept(o), NewRow(o, None))>> : o \in Orgs}
DeptUpdate   == {<<Change(Dept(o), "edit")>> : o \in Orgs}
DeptDelete   == {<<Remove(Dept(o))>> : o \in Orgs}
DeptClients  == {<<Select("clients")>>}

(* clients; debtors, duplicates and stats are reads too. *)
ClientList   == {<<Select("clients"), Select("clients")>>}
ClientGet    == {<<Exists(Client(o))>> : o \in Orgs}
ClientCreate == {<<Exists(Org(o)), Free(Client(o)), Insert(Client(o), NewRow(o, None))>> :
                   o \in Orgs}
ClientUpdate == {<<Change(Client(o), how)>> : o \in Orgs, how \in {"edit", "by_hand"}}
ClientDelete == {<<Remove(Client(o))>> : o \in Orgs}
ClientStats  == {<<Select("clients")>>}
Debtors      == {<<Select("clients")>>}
Duplicates   == {<<Select("clients")>>}

(* contracts: create adds the amount to the total of the client, if it sees it.
   That cancel refuses a contract that is not active is a Fault here. *)
ContractList   == {<<Select("contracts")>>}
ContractGet    == {<<Exists(Contract(n))>> : n \in Numbers}
ContractCreate == {<<Free(Contract(n)), Insert(Contract(n), NewRow(o, c)),
                     Adjust(Client(c), "count")>> : n \in Numbers, o \in Orgs, c \in Orgs}
ContractUpdate == {<<Change(Contract(n), "edit")>> : n \in Numbers}
ContractCancel == {<<Change(Contract(n), "edit")>> : n \in Numbers}

(* attendance *)
AttendanceList   == {<<Select("attendance")>>}
AttendanceRecord == {<<Upsert(Attended(c), NewRow(o, c))>> : o \in Orgs, c \in Orgs}
\* The entries in the order of the request, all under its one organization.
AttendanceBulk   == {[i \in DOMAIN s |-> Upsert(Attended(s[i]), NewRow(o, s[i]))] :
                       o \in Orgs, s \in {<<c, d>> : c \in Orgs, d \in Orgs} \cup {<< >>}}
ClientAttendance == {<<Select("attendance")>>}
AttendanceStats  == {<<Select("attendance")>>}

(* users *)
UserList   == {<<Select("users"), Select("users")>>}
UserGet    == {<<Exists(UserOf(e))>> : e \in Emails}
UserCreate == {<<Free(UserOf(e)), Insert(UserOf(e), NewRow(o, None))>> :
                 e \in Emails, o \in Orgs \cup {None}}
UserUpdate == {<<Change(UserOf(e), "edit")>> : e \in Emails}
SetActive  == {<<Change(UserOf(e), "edit")>> : e \in Emails}
UserDelete == {<<Remove(UserOf(e))>> : e \in Emails}
UserStats  == {<<Select("users")>>}

Handlers ==
    OrgList \cup OrgGet \cup OrgCreate \cup OrgUpdate \cup OrgDelete \cup OrgChildren
    \cup OrgStats \cup AdminList \cup AdminCreate \cup AdminDelete \cup AdminUpdate
    \cup DeptList \cup DeptGet \cup DeptCreate \cup DeptUpdate \cup DeptDelete \cup DeptClients
    \cup ClientList \cup ClientGet \cup ClientCreate \cup ClientUpdate \cup ClientDelete
    \cup ClientStats \cup Debtors \cup Duplicates
    \cup ContractList \cup ContractGet \cup ContractCreate \cup ContractUpdate
    \cup ContractCancel
    \cup AttendanceList \cup AttendanceRecord \cup AttendanceBulk \cup ClientAttendance
    \cup AttendanceStats
    \cup UserList \cup UserGet \cup UserCreate \cup UserUpdate \cup SetActive
    \cup UserDelete \cup UserStats

-----------------------------------------------------------------------------
Closed == [skip |-> "unset", org |-> Unset]

Init ==
    /\ \E S \in SUBSET Stored :
         db = [k \in Keys |-> IF k[1] = "organizations" \/ k \in S
                              THEN NewRow(k[2], None) ELSE Absent]
    /\ undo = [k \in Conns |-> << >>]
    /\ shared = [k \in Conns |-> {}]
    /\ settings = [k \in Conns |-> Closed]
    /\ idle = Conns
    /\ at = [r \in Requests |-> "new"]
    /\ user = [r \in Requests |-> Nobody]
    /\ conn = [r \in Requests |-> Nobody]
    /\ todo = [r \in Requests |-> << >>]
    /\ strays = {}

(* The transaction of a request and its connection. *)

Ended == {"answered", "failed", "dropped"}

\* begin: the connection is taken out of the pool.
Take(r, k, next) ==
    /\ k \in idle
    /\ idle' = idle \ {k}
    /\ conn' = [conn EXCEPT ![r] = k]
    /\ at' = [at EXCEPT ![r] = next]

\* Commit or rollback: locks and settings end with it, and the connection goes
\* back to the pool.
Release(r, next) ==
    /\ idle' = idle \cup {conn[r]}
    /\ undo' = [undo EXCEPT ![conn[r]] = << >>]
    /\ shared' = [shared EXCEPT ![conn[r]] = {}]
    /\ settings' = [settings EXCEPT ![conn[r]] = Closed]
    /\ conn' = [conn EXCEPT ![r] = Nobody]
    /\ todo' = [todo EXCEPT ![r] = << >>]
    /\ at' = [at EXCEPT ![r] = next]

Restored(k) == [key \in Keys |-> IF key \in DOMAIN undo[k] THEN undo[k][key] ELSE db[key]]

\* Variant: the statements run on the pool, each committed by itself.
AbortLate(r, next) == Release(r, next) /\ db' = db

\* An error returned with `?` drops the transaction.
Abort(r, next) == Release(r, next) /\ db' = Restored(conn[r])

(* require_auth: the user is read in a transaction of its own, in which RLS is
   skipped. *)

Skipping == [skip |-> "true", org |-> None]

AuthBegin(r) ==
    /\ at[r] = "new"
    /\ \E k \in Conns : /\ Take(r, k, "auth")
                        /\ settings' = [settings EXCEPT ![k] = Skipping]
    /\ UNCHANGED <<db, undo, shared, user, todo, strays>>

\* Variant: the transaction stays open while the handler runs.
AuthDoneKeeping(r) ==
    /\ at[r] = "auth"
    /\ \E u \in Users : user' = [user EXCEPT ![r] = u]
    /\ at' = [at EXCEPT ![r] = "authenticated"]
    /\ UNCHANGED <<db, undo, shared, settings, idle, conn, todo, strays>>

AuthDone(r) ==
    /\ at[r] = "auth"
    /\ \E u \in Users : user' = [user EXCEPT ![r] = u]
    /\ Release(r, "authenticated")
    /\ UNCHANGED <<db, strays>>

(* begin_tenant_transaction *)

Begin(r) ==
    /\ at[r] = "authenticated"
    /\ \E k \in Conns : Take(r, k, "begun")
    /\ UNCHANGED <<db, undo, shared, settings, user, todo, strays>>

SetSkip(r) ==
    /\ at[r] = "begun"
    /\ settings' = [settings EXCEPT ![conn[r]].skip = IF user[r].skip THEN "true" ELSE "false"]
    /\ at' = [at EXCEPT ![r] = "skip_set"]
    /\ UNCHANGED <<db, undo, shared, idle, user, conn, todo, strays>>

\* An organization of None is the empty string, which the policies read as NULL.
SetOrg(r) ==
    /\ at[r] = "skip_set"
    /\ settings' = [settings EXCEPT ![conn[r]].org = user[r].org]
    /\ at' = [at EXCEPT ![r] = "ready"]
    /\ UNCHANGED <<db, undo, shared, idle, user, conn, todo, strays>>

(* Row level security, and what statements see of each other: external. *)

\* Variant: a table without its policy.
Everything(k, key, row) == row # Absent

\* USING and WITH CHECK.  A user without an organization is everybody's, and so is
\* a super_admin, who is kept here as one without.
Sees(k, key, row) ==
    /\ row # Absent
    /\ \/ settings[k].skip = "true"
       \/ row.org \in Orgs /\ row.org = settings[k].org
       \/ key[1] = "users" /\ row.org = None

\* READ COMMITTED: what others have written and not committed is not seen.
Others(k) == Conns \ {k}
Seen(k, key) ==
    IF \E j \in Others(k) : key \in DOMAIN undo[j]
    THEN undo[CHOOSE j \in Others(k) : key \in DOMAIN undo[j]][key]
    ELSE db[key]

\* ON DELETE CASCADE, from an organization over its clients, of the rows k sees;
\* those that others insert below one pin it.
Taken(k, key) ==
    LET Below(S) == {l \in Keys : Seen(k, l) # Absent /\ Parents(l, Seen(k, l)) \cap S # {}}
    IN  {key} \cup Below({key}) \cup Below(Below({key}))

Written(k, S) == {j \in Others(k) : S \cap DOMAIN undo[j] # {}}
Deleted(k, S) == {j \in Others(k) : \E key \in S \cap DOMAIN undo[j] :
                                      undo[j][key] # Absent /\ db[key] = Absent}
Pinned(k, S)  == {j \in Others(k) : S \cap shared[j] # {}}

\* The connections a statement on k waits for.
Blockers(k, st) ==
    CASE st.do \in {"insert", "upsert"} ->
           Written(k, {st.key}) \cup Deleted(k, Parents(st.key, st.row))
      [] st.do \in {"change", "adjust"} ->
           IF Sees(k, st.key, Seen(k, st.key)) THEN Written(k, {st.key}) ELSE {}
      [] st.do = "remove" ->
           IF Sees(k, st.key, Seen(k, st.key))
           THEN Written(k, Taken(k, st.key)) \cup Pinned(k, Taken(k, st.key)) ELSE {}
      [] OTHER -> {}

(* The effect of a statement that waits for nobody. *)

\* The rows a statement reads or writes by itself, before any cascade.
Touched(k, st) ==
    LET keys == IF st.do = "select" THEN {key \in Keys : key[1] = st.key[1]} ELSE {st.key}
        new  == IF st.do \in {"insert", "upsert"} THEN {st.row} ELSE {}
    IN  {Seen(k, key) : key \in {l \in keys : Sees(k, l, Seen(k, l))}}
        \cup {row \in new : Sees(k, st.key, row)}

Refuses(k, st) ==
    LET there == Sees(k, st.key, Seen(k, st.key))
        inserts == /\ Seen(k, st.key) = Absent /\ Sees(k, st.key, st.row)
                   /\ \A p \in Parents(st.key, st.row) : Seen(k, p) # Absent
    IN  \/ st.do \in {"exists", "change", "remove"} /\ ~there
        \/ st.do = "free" /\ there
        \/ st.do = "insert" /\ ~inserts
        \/ st.do = "upsert" /\ ~inserts /\ ~there

\* Variant: total_amount - $1.
ChangedSubtracting(row, how) ==
    CASE how = "count"   -> [row EXCEPT !.total = @ - 1]
      [] how = "by_hand" -> [row EXCEPT !.byHand = TRUE]
      [] OTHER -> row

\* Variant: SET total_amount = $1.
ChangedSetting(row, how) ==
    CASE how = "count"   -> [row EXCEPT !.total = 1]
      [] how = "by_hand" -> [row EXCEPT !.byHand = TRUE]
      [] OTHER -> row

Changed(row, how) ==
    CASE how = "count"   -> [row EXCEPT !.total = @ + 1]
      [] how = "by_hand" -> [row EXCEPT !.byHand = TRUE]
      [] OTHER -> row

\* The new versions of the rows it writes.
Writes(r, k, st) ==
    LET old    == Seen(k, st.key)
        w(row) == [key \in {st.key} |-> [row EXCEPT !.by = r]]
    IN  CASE st.do \in {"insert", "upsert"} /\ old = Absent -> w(st.row)
          [] st.do \in {"change", "adjust", "upsert"} /\ Sees(k, st.key, old) ->
               w(Changed(old, st.how))
          [] st.do = "remove" -> [key \in Taken(k, st.key) |-> Absent]
          [] OTHER -> << >>

Foreign(r, row) == ~user[r].skip /\ row.org \notin {user[r].org, None}

\* The next statement of r is executed, or ends the handler with an error.
Execute(r, st, rest) ==
    LET k == conn[r]
        new == Writes(r, k, st)
    IN  /\ Blockers(k, st) = {}
        /\ strays' = IF \E row \in Touched(k, st) : Foreign(r, row) THEN strays \cup {r} ELSE strays
        /\ IF Refuses(k, st) THEN Abort(r, "failed")
           ELSE /\ db' = [key \in Keys |-> IF key \in DOMAIN new THEN new[key] ELSE db[key]]
                /\ undo' = [undo EXCEPT ![k] =
                              [key \in DOMAIN @ \cup DOMAIN new |->
                                 IF key \in DOMAIN @ THEN @[key] ELSE db[key]]]
                /\ shared' = [shared EXCEPT ![k] =
                                IF st.do \in {"insert", "upsert"}
                                THEN @ \cup Parents(st.key, st.row) ELSE @]
                /\ todo' = [todo EXCEPT ![r] = rest]
                /\ at' = [at EXCEPT ![r] = "running"]
                /\ UNCHANGED <<settings, idle, conn>>
        /\ UNCHANGED user

\* A handler starts with its first statement; an empty bulk has none.
Start(r) ==
    /\ at[r] = "ready"
    /\ \E h \in Handlers :
         IF h = << >>
         THEN /\ at' = [at EXCEPT ![r] = "running"]
              /\ UNCHANGED <<db, undo, shared, settings, idle, user, conn, todo, strays>>
         ELSE Execute(r, Head(h), Tail(h))

Continue(r) ==
    /\ at[r] = "running" /\ todo[r] # << >>
    /\ Execute(r, Head(todo[r]), Tail(todo[r]))

Commit(r) ==
    /\ at[r] = "running" /\ todo[r] = << >>
    /\ Release(r, "answered")
    /\ UNCHANGED <<db, user, strays>>

(* Faults. *)

\* A statement fails, or PostgreSQL ends a transaction that waits in a circle.
Fault(r) ==
    /\ conn[r] # Nobody
    /\ Abort(r, "failed")
    /\ UNCHANGED <<user, strays>>

\* The client hangs up, and the handler is dropped where it waits; a commit
\* under way may have been made.
Drop(r) ==
    /\ conn[r] # Nobody
    /\ \/ Abort(r, "dropped")
       \/ at[r] = "running" /\ todo[r] = << >> /\ Release(r, "dropped") /\ UNCHANGED db
    /\ UNCHANGED <<user, strays>>

\* Without a connection: no valid token, an invalid body, or the client hangs up.
TurnedAway(r) ==
    /\ at[r] \in {"new", "authenticated"}
    /\ \E end \in {"failed", "dropped"} : at' = [at EXCEPT ![r] = end]
    /\ UNCHANGED <<db, undo, shared, settings, idle, user, conn, todo, strays>>

\* The requests that wait for each other.
Deadlocked(r) ==
    \E S \in SUBSET {q \in Requests : at[q] = "running" /\ todo[q] # << >>} :
        /\ r \in S
        /\ \A q \in S : \E p \in S : conn[p] \in Blockers(conn[q], Head(todo[q]))

Victim(r) == Deadlocked(r) /\ Fault(r)

Serve(r) ==
    \/ AuthBegin(r) \/ AuthDone(r) \/ Begin(r) \/ SetSkip(r) \/ SetOrg(r)
    \/ Start(r) \/ Continue(r) \/ Commit(r)

Next == \E r \in Requests : Serve(r) \/ Fault(r) \/ Drop(r) \/ TurnedAway(r)

Spec == Init /\ [][Next]_vars

\* tokio runs what can run, the pool serves those that wait in turn, and
\* PostgreSQL ends a deadlock.
Fairness == \A r \in Requests : WF_vars(Serve(r) \/ Victim(r))

FairSpec == Spec /\ Fairness

-----------------------------------------------------------------------------
(* Properties.                                                             *)

TypeOK ==
    /\ db \in [Keys -> Row \cup {Absent}]
    /\ \A k \in Conns : \A key \in DOMAIN undo[k] :
         key \in Keys /\ undo[k][key] \in Row \cup {Absent}
    /\ shared \in [Conns -> SUBSET Keys]
    /\ settings \in [Conns -> [skip : {"unset", "true", "false"},
                               org : Orgs \cup {None, Unset}]]
    /\ idle \in SUBSET Conns
    /\ user \in [Requests -> Users \cup {Nobody}]
    /\ conn \in [Requests -> Conns \cup {Nobody}]
    /\ strays \in SUBSET Requests

\* A request reads, changes and creates only rows of its user's organization,
\* whatever connection it gets and whoever had it before, unless the user is
\* one that sees everything (state.rs:112-132, tenancy.rs:15-33).
OwnTenant == strays = {}

\* A request that was answered with an error leaves no row behind that it wrote,
\* however many statements it had executed (attendance/handlers.rs:105-121,
\* contracts/handlers.rs:66-120).
Committed(key) ==
    IF \E k \in Conns : key \in DOMAIN undo[k]
    THEN undo[CHOOSE k \in Conns : key \in DOMAIN undo[k]][key] ELSE db[key]
FailedLeavesNoTrace ==
    \A r \in Requests, key \in Keys : at[r] = "failed" => Committed(key).by # r

\* The committed contracts of organization o with its own client.
Counted(row, o) == row.client = o /\ row.org = o
Counts(o) == {n \in Numbers : Counted(Committed(Contract(n)), o)}

\* The total of a client holds every contract of its organization with it, also
\* when contracts are made together or fail half-way, until somebody sets the
\* total (contracts/handlers.rs:92-120).
ContractsCounted ==
    \A o \in Orgs :
        LET client == Committed(Client(o))
        IN  client # Absent /\ ~client.byHand => Cardinality(Counts(o)) <= client.total

\* Every request ends: nobody waits for ever for a connection of the pool or
\* for a row (state.rs:68-75).
EveryRequestEnds == <>(\A r \in Requests : at[r] \in Ended)
=============================================================================
