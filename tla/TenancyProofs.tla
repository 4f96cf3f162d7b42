----------------------------- MODULE TenancyProofs -----------------------------
(***************************************************************************)
(* Theorems about Tenancy, for any requests, connections, organizations    *)
(* and handlers.  Whose connection is whose, and what is set on it (Inv),  *)
(* is all that the separation of organizations rests on: no fact about the *)
(* rows or the statements is needed.  What a failed request leaves behind  *)
(* is about who has written which row (RowInv), and that contracts are     *)
(* counted about what every open transaction will commit, at whatever      *)
(* statement its handler is (ContractInv).                                 *)
(***************************************************************************)
EXTENDS Tenancy, FiniteSetTheorems, TLAPS

Phases == {"new", "auth", "authenticated", "begun", "skip_set", "ready", "running"} \cup Ended

Holding == {"auth", "begun", "skip_set", "ready", "running"}

SettingsOK ==
    settings \in [Conns -> [skip : {"unset", "true", "false"}, org : Orgs \cup {None, Unset}]]

\* A connection is in the pool or belongs to one request.
PoolInv ==
    /\ idle \in SUBSET Conns
    /\ conn \in [Requests -> Conns \cup {Nobody}]
    /\ \A r \in Requests : conn[r] \notin idle
    /\ \A r, q \in Requests : conn[r] # Nobody /\ conn[q] = conn[r] => q = r

\* A request has a connection exactly during its two transactions.
PhaseInv ==
    /\ at \in [Requests -> Phases]
    /\ \A r \in Requests : at[r] \in Holding <=> conn[r] # Nobody

\* From its second transaction on a request runs under its own user's settings.
OwnSettings ==
    /\ SettingsOK
    /\ user \in [Requests -> Users \cup {Nobody}]
    /\ \A r \in Requests :
         /\ at[r] \in {"authenticated", "begun", "skip_set", "ready", "running"} =>
              user[r] \in Users
         /\ at[r] \in {"skip_set", "ready", "running"} =>
              settings[conn[r]].skip = IF user[r].skip THEN "true" ELSE "false"
         /\ at[r] \in {"ready", "running"} => settings[conn[r]].org = user[r].org

Inv == PoolInv /\ PhaseInv /\ OwnSettings

LEMMA Starts == Init => Inv
  BY TenancyAssumption
     DEF Init, Inv, PoolInv, PhaseInv, OwnSettings, SettingsOK, Phases, Holding, Ended, Closed

\* begin and the two set_config statements.
LEMMA Takes ==
    ASSUME Inv, NEW r \in Requests, NEW k \in Conns, NEW next \in {"auth", "begun"},
           Take(r, k, next), UNCHANGED user,
           settings' = settings \/ settings' = [settings EXCEPT ![k] = Skipping],
           at[r] = IF next = "auth" THEN "new" ELSE "authenticated"
    PROVE  Inv'
<1> USE TenancyAssumption DEF Take
<1>1. PoolInv'
  BY DEF Inv, PoolInv
<1>2. PhaseInv'
  BY DEF Inv, PoolInv, PhaseInv, Phases, Holding
<1>3. SettingsOK' /\ \A j \in Conns \ {k} : settings'[j] = settings[j]
  BY DEF Inv, OwnSettings, SettingsOK, Skipping
<1>4. ASSUME NEW q \in Requests, at'[q] \in {"skip_set", "ready", "running"}
      PROVE  at'[q] = at[q] /\ conn'[q] = conn[q] /\ settings'[conn[q]] = settings[conn[q]]
  BY <1>3, <1>4 DEF Inv, PoolInv, PhaseInv, Phases, Holding
<1>5. ASSUME NEW q \in Requests, at'[q] \in {"authenticated", "begun"}
      PROVE  user'[q] \in Users
  BY <1>5 DEF Inv, PhaseInv, OwnSettings
<1>6. OwnSettings'
  BY <1>3, <1>4, <1>5 DEF Inv, OwnSettings
<1> QED  BY <1>1, <1>2, <1>6 DEF Inv

LEMMA Sets == ASSUME Inv, NEW r \in Requests, SetSkip(r) \/ SetOrg(r) PROVE Inv'
<1> USE TenancyAssumption
<1>0. conn[r] \in Conns /\ user[r] \in Users /\ user[r].org \in Orgs \cup {None}
  BY DEF Inv, PoolInv, PhaseInv, OwnSettings, Holding, SetSkip, SetOrg
<1>1. PoolInv'
  BY DEF Inv, PoolInv, SetSkip, SetOrg
<1>2. PhaseInv'
  BY DEF Inv, PhaseInv, Phases, Holding, SetSkip, SetOrg
<1>3. CASE SetSkip(r)
  <2>1. SettingsOK'
    BY <1>0, <1>3 DEF SetSkip, Inv, OwnSettings, SettingsOK
  <2>2. ASSUME NEW q \in Requests, at'[q] \in {"skip_set", "ready", "running"}
        PROVE  settings'[conn'[q]].skip = IF user'[q].skip THEN "true" ELSE "false"
    BY <1>0, <1>3, <2>2 DEF SetSkip, Inv, PoolInv, PhaseInv, Holding, OwnSettings, SettingsOK
  <2>3. ASSUME NEW q \in Requests, at'[q] \in {"ready", "running"}
        PROVE  settings'[conn'[q]].org = user'[q].org
    BY <1>0, <1>3, <2>3 DEF SetSkip, Inv, PoolInv, PhaseInv, Holding, OwnSettings, SettingsOK
  <2> QED
    BY <1>0, <1>1, <1>2, <1>3, <2>1, <2>2, <2>3 DEF SetSkip, Inv, PhaseInv, OwnSettings
<1>4. CASE SetOrg(r)
  <2>1. SettingsOK'
    BY <1>0, <1>4 DEF SetOrg, Inv, OwnSettings, SettingsOK
  <2>2. ASSUME NEW q \in Requests, at'[q] \in {"skip_set", "ready", "running"}
        PROVE  settings'[conn'[q]].skip = IF user'[q].skip THEN "true" ELSE "false"
    BY <1>0, <1>4, <2>2 DEF SetOrg, Inv, PoolInv, PhaseInv, Holding, OwnSettings, SettingsOK
  <2>3. ASSUME NEW q \in Requests, at'[q] \in {"ready", "running"}
        PROVE  settings'[conn'[q]].org = user'[q].org
    BY <1>0, <1>4, <2>3 DEF SetOrg, Inv, PoolInv, PhaseInv, Holding, OwnSettings, SettingsOK
  <2> QED
    BY <1>0, <1>1, <1>2, <1>4, <2>1, <2>2, <2>3 DEF SetOrg, Inv, PhaseInv, OwnSettings
<1> QED  BY <1>3, <1>4

\* However a transaction ends, its settings end with it.
LEMMA Releases ==
    ASSUME Inv, NEW r \in Requests, conn[r] # Nobody,
           NEW next \in {"authenticated"} \cup Ended, Release(r, next),
           user' \in [Requests -> Users \cup {Nobody}],
           \A q \in Requests : q # r => user'[q] = user[q],
           next = "authenticated" => user'[r] \in Users
    PROVE  Inv'
<1> USE TenancyAssumption DEF Release
<1>0. conn[r] \in Conns
  BY DEF Inv, PoolInv
<1>1. PoolInv'
  BY <1>0 DEF Inv, PoolInv
<1>2. PhaseInv'
  BY DEF Inv, PoolInv, PhaseInv, Phases, Holding, Ended
<1>3. SettingsOK'
  BY <1>0 DEF Inv, OwnSettings, SettingsOK, Closed
<1>4. ASSUME NEW q \in Requests, q # r
      PROVE  /\ at'[q] = at[q] /\ conn'[q] = conn[q] /\ user'[q] = user[q]
             /\ conn[q] # Nobody => settings'[conn'[q]] = settings[conn[q]]
  BY <1>0, <1>4 DEF Inv, PoolInv, PhaseInv, OwnSettings, SettingsOK
<1>5. at'[r] = next
  BY DEF Inv, PhaseInv
<1>6. ASSUME NEW q \in Requests
      PROVE  /\ at'[q] \in {"authenticated", "begun", "skip_set", "ready", "running"}
                  => user'[q] \in Users
             /\ at'[q] \in {"skip_set", "ready", "running"} =>
                  settings'[conn'[q]].skip = IF user'[q].skip THEN "true" ELSE "false"
             /\ at'[q] \in {"ready", "running"} => settings'[conn'[q]].org = user'[q].org
  <2>1. CASE q = r
    BY <1>5, <2>1 DEF Ended
  <2>2. CASE q # r
    <3>1. at[q] \in {"skip_set", "ready", "running"} => conn[q] # Nobody
      BY DEF Inv, PhaseInv, Holding
    <3> QED  BY <1>4, <2>2, <3>1 DEF Inv, OwnSettings
  <2> QED  BY <2>1, <2>2
<1>7. OwnSettings'
  BY <1>3, <1>6 DEF OwnSettings
<1> QED  BY <1>1, <1>2, <1>7 DEF Inv

\* A statement, or the end of the handler.
LEMMA Executes ==
    ASSUME Inv, NEW r \in Requests, at[r] \in {"ready", "running"},
           NEW st, NEW rest, Execute(r, st, rest)
    PROVE  Inv'
<1>1. CASE Refuses(conn[r], st)
  <2>1. Release(r, "failed") /\ UNCHANGED user
    BY <1>1 DEF Execute, Abort
  <2>2. conn[r] # Nobody
    BY DEF Inv, PhaseInv, Holding
  <2> QED
    BY <2>1, <2>2, Releases DEF Inv, OwnSettings, Ended
<1>2. CASE ~Refuses(conn[r], st)
  <2>1. at' = [at EXCEPT ![r] = "running"] /\ UNCHANGED <<settings, idle, conn, user>>
    BY <1>2 DEF Execute
  <2> QED
    BY <2>1 DEF Inv, PoolInv, PhaseInv, OwnSettings, SettingsOK, Phases, Holding
<1> QED  BY <1>1, <1>2

LEMMA Steps == Inv /\ [Next]_vars => Inv'
<1> SUFFICES ASSUME Inv, [Next]_vars PROVE Inv'
  OBVIOUS
<1>1. ASSUME NEW r \in Requests, AuthBegin(r) \/ Begin(r) PROVE Inv'
  BY <1>1, Takes DEF AuthBegin, Begin
<1>2. ASSUME NEW r \in Requests, AuthDone(r) PROVE Inv'
  <2>1. conn[r] # Nobody
    BY <1>2 DEF AuthDone, Inv, PhaseInv, Holding
  <2>2. /\ user' \in [Requests -> Users \cup {Nobody}]
        /\ \A q \in Requests : q # r => user'[q] = user[q]
        /\ user'[r] \in Users
    BY <1>2 DEF AuthDone, Inv, OwnSettings
  <2> QED  BY <1>2, <2>1, <2>2, Releases DEF AuthDone
<1>3. ASSUME NEW r \in Requests, SetSkip(r) \/ SetOrg(r) PROVE Inv'
  BY <1>3, Sets
<1>4. ASSUME NEW r \in Requests, Start(r) \/ Continue(r) PROVE Inv'
  <2>1. CASE \E st, rest : Execute(r, st, rest)
    BY <1>4, <2>1, Executes DEF Start, Continue
  <2>2. CASE /\ at[r] = "ready" /\ at' = [at EXCEPT ![r] = "running"]
             /\ UNCHANGED <<settings, idle, conn, user>>
    BY <2>2 DEF Inv, PoolInv, PhaseInv, OwnSettings, SettingsOK, Phases, Holding
  <2> QED  BY <1>4, <2>1, <2>2 DEF Start, Continue
<1>5. ASSUME NEW r \in Requests, Commit(r) \/ Fault(r) \/ Drop(r) PROVE Inv'
  <2>1. conn[r] # Nobody
    BY <1>5 DEF Commit, Fault, Drop, Inv, PhaseInv, Holding
  <2>2. /\ Release(r, "answered") \/ Release(r, "failed") \/ Release(r, "dropped")
        /\ UNCHANGED user
    BY <1>5 DEF Commit, Fault, Drop, Abort
  <2> QED  BY <2>1, <2>2, Releases DEF Inv, OwnSettings, Ended
<1>6. ASSUME NEW r \in Requests, TurnedAway(r) PROVE Inv'
  BY <1>6 DEF TurnedAway, Inv, PoolInv, PhaseInv, OwnSettings, SettingsOK, Phases, Holding, Ended
<1>7. CASE UNCHANGED vars
  BY <1>7 DEF vars, Inv, PoolInv, PhaseInv, OwnSettings, SettingsOK
<1> QED
  BY <1>1, <1>2, <1>3, <1>4, <1>5, <1>6, <1>7 DEF Next, Serve

-----------------------------------------------------------------------------

\* What the policies show under the settings of a request is its own.
LEMMA SeesItsOwn ==
    ASSUME Inv, NEW r \in Requests, at[r] \in {"ready", "running"}, NEW key, NEW row,
           Sees(conn[r], key, row)
    PROVE  ~Foreign(r, row)
<1>1. /\ settings[conn[r]].skip = IF user[r].skip THEN "true" ELSE "false"
      /\ settings[conn[r]].org = user[r].org
  BY DEF Inv, OwnSettings
<1> QED  BY <1>1 DEF Sees, Foreign

\* No statement touches a row of another organization.
LEMMA NoStray ==
    ASSUME Inv, OwnTenant, NEW r \in Requests, at[r] \in {"ready", "running"},
           NEW st, NEW rest, Execute(r, st, rest)
    PROVE  OwnTenant'
<1>1. \A row \in Touched(conn[r], st) : \E key : Sees(conn[r], key, row)
  BY DEF Touched
<1>2. \A row \in Touched(conn[r], st) : ~Foreign(r, row)
  BY <1>1, SeesItsOwn
<1> QED  BY <1>2 DEF Execute, OwnTenant

\* A request reads, changes and creates only rows of its user's organization,
\* whatever connections it gets and whoever had them before (state.rs:112-132,
\* tenancy.rs:15-33).
THEOREM TenantsAreSeparate == Spec => []OwnTenant
<1>1. Init => Inv /\ OwnTenant
  BY Starts DEF Init, OwnTenant
<1>2. Inv /\ OwnTenant /\ [Next]_vars => Inv' /\ OwnTenant'
  <2> SUFFICES ASSUME Inv, OwnTenant, [Next]_vars PROVE OwnTenant'
    BY Steps
  <2>1. ASSUME NEW r \in Requests, Start(r) \/ Continue(r) PROVE OwnTenant'
    <3>1. CASE \E st, rest : Execute(r, st, rest)
      BY <2>1, <3>1, NoStray DEF Start, Continue
    <3>2. CASE UNCHANGED strays
      BY <3>2 DEF OwnTenant
    <3> QED  BY <2>1, <3>1, <3>2 DEF Start, Continue
  <2>2. CASE UNCHANGED strays
    BY <2>2 DEF OwnTenant
  <2> QED
    BY <2>1, <2>2 DEF Next, Serve, AuthBegin, AuthDone, Begin, SetSkip, SetOrg, Commit,
                      Fault, Drop, TurnedAway, vars
<1> QED  BY <1>1, <1>2, PTL DEF Spec

\* A connection is in the pool or serves one request: two requests never share
\* a transaction (state.rs:61-75).
THEOREM ConnectionsAreNotShared == Spec => []PoolInv
<1>1. Init => Inv
  BY Starts
<1>2. Inv /\ [Next]_vars => Inv'
  BY Steps
<1>3. Inv => PoolInv
  BY DEF Inv
<1> QED  BY <1>1, <1>2, <1>3, PTL DEF Spec

-----------------------------------------------------------------------------
(* The statements of the handlers are statements: they name rows that may  *)
(* exist, and so do the rows they write.                                   *)

Tables == {"organizations", "org_admins", "departments", "clients", "contracts",
           "attendance", "users"}

\* The statements a handler may consist of: those that write name a row of
\* their table, and a new row refers to rows that may exist.
Statement ==
    {st \in [do : {"select", "exists", "free", "insert", "upsert", "change", "adjust", "remove"},
             key : Keys \cup (Tables \X {None}), row : Row \cup {Absent},
             how : {"", "edit", "by_hand", "count"}] :
       /\ st.do # "select" => st.key \in Keys
       /\ st.do \in {"insert", "upsert"} =>
            st.row \in Row /\ Parents(st.key, st.row) \subseteq Keys}

\* The names of rows name rows that may exist.
LEMMA KeysTyped ==
    /\ \A o \in Orgs : /\ Org(o) \in Keys /\ Dept(o) \in Keys /\ Client(o) \in Keys
                       /\ Attended(o) \in Keys
    /\ \A n \in Numbers : Contract(n) \in Keys
    /\ \A e \in Emails : AdminOf(e) \in Keys /\ UserOf(e) \in Keys
  BY DEF Keys, Org, Dept, Client, Attended, Contract, AdminOf, UserOf

\* Statements that write no new row.
LEMMA PlainTyped ==
    /\ \A t \in Tables : Select(t) \in Statement
    /\ \A key \in Keys : /\ Exists(key) \in Statement /\ Free(key) \in Statement
                         /\ Remove(key) \in Statement
                         /\ \A how \in {"edit", "by_hand", "count"} :
                              Change(key, how) \in Statement /\ Adjust(key, how) \in Statement
  BY DEF Statement, Select, Exists, Free, Remove, Change, Adjust

\* Statements that write a row of an organization, or of one of its clients.
LEMMA NewTyped ==
    ASSUME NEW key \in Keys, NEW o \in Orgs \cup {None}, o = None => key[1] = "users",
           NEW c \in Orgs \cup {None}
    PROVE  Insert(key, NewRow(o, c)) \in Statement /\ Upsert(key, NewRow(o, c)) \in Statement
<1>1. NewRow(o, c) \in Row
  BY DEF NewRow, Row
<1>2. Parents(key, NewRow(o, c)) \subseteq Keys
  BY TenancyAssumption DEF NewRow, Parents, Keys
<1> QED  BY <1>1, <1>2 DEF Insert, Upsert, Statement

\* The same, without the users' rows that belong to no organization.
LEMMA RowsTyped ==
    \A key \in Keys, o \in Orgs, c \in Orgs \cup {None} :
      Insert(key, NewRow(o, c)) \in Statement /\ Upsert(key, NewRow(o, c)) \in Statement
  BY NewTyped, TenancyAssumption

\* Handlers are short sequences.
LEMMA ShortSequences ==
    ASSUME NEW S
    PROVE  /\ \A a \in S : <<a>> \in Seq(S)
           /\ \A a, b \in S : <<a, b>> \in Seq(S)
           /\ \A a, b, c \in S : <<a, b, c>> \in Seq(S)
  OBVIOUS

\* The handlers of organizations/handlers.rs,
LEMMA OrganizationsTyped ==
    OrgList \cup OrgGet \cup OrgCreate \cup OrgUpdate \cup OrgDelete \cup OrgChildren
      \cup OrgStats \cup AdminList \cup AdminCreate \cup AdminDelete \cup AdminUpdate
    \subseteq Seq(Statement)
<1>1. OrgList \cup OrgChildren \cup OrgStats \cup AdminList \subseteq Seq(Statement)
  BY ShortSequences, PlainTyped DEF OrgList, OrgChildren, OrgStats, AdminList, Tables
<1>2. OrgGet \cup OrgUpdate \cup OrgDelete \subseteq Seq(Statement)
  BY ShortSequences, PlainTyped, KeysTyped DEF OrgGet, OrgUpdate, OrgDelete
<1>3. OrgCreate \subseteq Seq(Statement)
  <2>1. \A o \in Orgs : Free(Org(o)) \in Statement /\ Insert(Org(o), NewRow(o, None)) \in Statement
    BY PlainTyped, KeysTyped, RowsTyped
  <2> QED  BY <2>1, ShortSequences DEF OrgCreate
<1>4. AdminDelete \cup AdminUpdate \subseteq Seq(Statement)
  BY ShortSequences, PlainTyped, KeysTyped DEF AdminDelete, AdminUpdate
<1>5. AdminCreate \subseteq Seq(Statement)
  <2>1. \A o \in Orgs, e \in Emails :
          /\ Exists(Org(o)) \in Statement /\ Free(AdminOf(e)) \in Statement
          /\ Insert(AdminOf(e), NewRow(o, None)) \in Statement
    BY PlainTyped, KeysTyped, RowsTyped
  <2>2. \A o \in Orgs, e \in Emails :
          <<Exists(Org(o)), Free(AdminOf(e)), Insert(AdminOf(e), NewRow(o, None))>>
            \in Seq(Statement)
    BY <2>1
  <2>3. ASSUME NEW h \in AdminCreate
        PROVE  \E o \in Orgs, e \in Emails :
                 h = <<Exists(Org(o)), Free(AdminOf(e)), Insert(AdminOf(e), NewRow(o, None))>>
    BY DEF AdminCreate
  <2> QED  BY <2>2, <2>3
<1> QED  BY <1>1, <1>2, <1>3, <1>4, <1>5

\* of departments and clients,
LEMMA ClientsTyped ==
    DeptList \cup DeptGet \cup DeptCreate \cup DeptUpdate \cup DeptDelete \cup DeptClients
      \cup ClientList \cup ClientGet \cup ClientCreate \cup ClientUpdate \cup ClientDelete
      \cup ClientStats \cup Debtors \cup Duplicates
    \subseteq Seq(Statement)
<1>1. DeptList \cup DeptClients \cup ClientList \cup ClientStats \cup Debtors \cup Duplicates
        \subseteq Seq(Statement)
  BY ShortSequences, PlainTyped
     DEF DeptList, DeptClients, ClientList, ClientStats, Debtors, Duplicates, Tables
<1>2. DeptGet \cup DeptUpdate \cup DeptDelete \subseteq Seq(Statement)
  BY ShortSequences, PlainTyped, KeysTyped DEF DeptGet, DeptUpdate, DeptDelete
<1>3. ClientGet \cup ClientUpdate \cup ClientDelete \subseteq Seq(Statement)
  <2>1. \A o \in Orgs : /\ Exists(Client(o)) \in Statement /\ Remove(Client(o)) \in Statement
                        /\ \A how \in {"edit", "by_hand"} : Change(Client(o), how) \in Statement
    BY PlainTyped, KeysTyped
  <2>2. ASSUME NEW h \in ClientUpdate
        PROVE  \E o \in Orgs, how \in {"edit", "by_hand"} : h = <<Change(Client(o), how)>>
    BY DEF ClientUpdate
  <2>3. ClientUpdate \subseteq Seq(Statement)
    BY <2>1, <2>2, ShortSequences
  <2> QED  BY <2>1, <2>3, ShortSequences DEF ClientGet, ClientDelete
<1>4. DeptCreate \cup ClientCreate \subseteq Seq(Statement)
  <2>1. \A o \in Orgs :
          /\ Insert(Dept(o), NewRow(o, None)) \in Statement
          /\ Exists(Org(o)) \in Statement /\ Free(Client(o)) \in Statement
          /\ Insert(Client(o), NewRow(o, None)) \in Statement
    BY PlainTyped, KeysTyped, RowsTyped
  <2>2. \A o \in Orgs :
          /\ <<Insert(Dept(o), NewRow(o, None))>> \in Seq(Statement)
          /\ <<Exists(Org(o)), Free(Client(o)), Insert(Client(o), NewRow(o, None))>>
               \in Seq(Statement)
    BY <2>1
  <2> QED  BY <2>2 DEF DeptCreate, ClientCreate
<1> QED  BY <1>1, <1>2, <1>3, <1>4

\* of contracts and attendance,
LEMMA ContractsTyped ==
    ContractList \cup ContractGet \cup ContractCreate \cup ContractUpdate \cup ContractCancel
      \cup AttendanceList \cup AttendanceRecord \cup AttendanceBulk \cup ClientAttendance
      \cup AttendanceStats
    \subseteq Seq(Statement)
<1>1. ContractList \cup AttendanceList \cup ClientAttendance \cup AttendanceStats
        \subseteq Seq(Statement)
  BY ShortSequences, PlainTyped
     DEF ContractList, AttendanceList, ClientAttendance, AttendanceStats, Tables
<1>2. ContractGet \cup ContractUpdate \cup ContractCancel \subseteq Seq(Statement)
  BY ShortSequences, PlainTyped, KeysTyped DEF ContractGet, ContractUpdate, ContractCancel
<1>3. ContractCreate \cup AttendanceRecord \subseteq Seq(Statement)
  <2>1. \A n \in Numbers, o, c \in Orgs :
          /\ Free(Contract(n)) \in Statement
          /\ Insert(Contract(n), NewRow(o, c)) \in Statement
          /\ Adjust(Client(c), "count") \in Statement
          /\ Upsert(Attended(c), NewRow(o, c)) \in Statement
    BY PlainTyped, KeysTyped, RowsTyped
  <2>2. ContractCreate \subseteq Seq(Statement)
    <3>1. \A n \in Numbers, o, c \in Orgs :
            <<Free(Contract(n)), Insert(Contract(n), NewRow(o, c)), Adjust(Client(c), "count")>>
              \in Seq(Statement)
      BY <2>1
    <3> SUFFICES ASSUME NEW h \in ContractCreate PROVE h \in Seq(Statement)
      OBVIOUS
    <3>2. PICK n \in Numbers, o \in Orgs, c \in Orgs :
            h = <<Free(Contract(n)), Insert(Contract(n), NewRow(o, c)), Adjust(Client(c), "count")>>
      BY DEF ContractCreate
    <3>3. <<Free(Contract(n)), Insert(Contract(n), NewRow(o, c)), Adjust(Client(c), "count")>>
            \in Seq(Statement)
      BY <3>1
    <3> QED  BY <3>2, <3>3, Zenon
  <2>3. AttendanceRecord \subseteq Seq(Statement)
    <3>1. \A o, c \in Orgs : Upsert(Attended(c), NewRow(o, c)) \in Statement
      BY KeysTyped, RowsTyped
    <3> QED  BY <3>1, ShortSequences DEF AttendanceRecord
  <2> QED  BY <2>2, <2>3
<1>4. AttendanceBulk \subseteq Seq(Statement)
  <2>1. \A o, c \in Orgs : Upsert(Attended(c), NewRow(o, c)) \in Statement
    BY KeysTyped, RowsTyped
  <2>2. \A o, c, d \in Orgs :
          [i \in DOMAIN <<c, d>> |-> Upsert(Attended(<<c, d>>[i]), NewRow(o, <<c, d>>[i]))]
            \in Seq(Statement)
    BY <2>1
  <2>3. \A o \in Orgs : [i \in DOMAIN << >> |-> Upsert(Attended(<< >>[i]), NewRow(o, << >>[i]))]
           \in Seq(Statement)
    OBVIOUS
  <2> QED  BY <2>2, <2>3 DEF AttendanceBulk
<1> QED  BY <1>1, <1>2, <1>3, <1>4

\* and of users.
LEMMA UsersTyped ==
    UserList \cup UserGet \cup UserCreate \cup UserUpdate \cup SetActive
      \cup UserDelete \cup UserStats
    \subseteq Seq(Statement)
<1>1. UserList \cup UserStats \subseteq Seq(Statement)
  BY ShortSequences, PlainTyped DEF UserList, UserStats, Tables
<1>2. UserGet \cup UserUpdate \cup SetActive \cup UserDelete \subseteq Seq(Statement)
  BY ShortSequences, PlainTyped, KeysTyped DEF UserGet, UserUpdate, SetActive, UserDelete
<1>3. UserCreate \subseteq Seq(Statement)
  <2>1. \A e \in Emails : UserOf(e)[1] = "users"
    BY DEF UserOf
  <2>2. \A e \in Emails, o \in Orgs \cup {None} : Insert(UserOf(e), NewRow(o, None)) \in Statement
    BY <2>1, KeysTyped, NewTyped
  <2>3. \A e \in Emails : Free(UserOf(e)) \in Statement
    BY PlainTyped, KeysTyped
  <2>4. \A e \in Emails, o \in Orgs \cup {None} :
          <<Free(UserOf(e)), Insert(UserOf(e), NewRow(o, None))>> \in Seq(Statement)
    BY <2>2, <2>3
  <2> QED  BY <2>4 DEF UserCreate
<1> QED  BY <1>1, <1>2, <1>3

\* Every handler consists of statements.
LEMMA HandlersTyped == Handlers \subseteq Seq(Statement)
  BY OrganizationsTyped, ClientsTyped, ContractsTyped, UsersTyped DEF Handlers

-----------------------------------------------------------------------------
(* Rows: their types, and who wrote what.                                  *)

RowTypes ==
    /\ db \in [Keys -> Row \cup {Absent}]
    /\ DOMAIN undo = Conns
    /\ \A k \in Conns : \A key \in DOMAIN undo[k] :
         key \in Keys /\ undo[k][key] \in Row \cup {Absent}
    /\ shared \in [Conns -> SUBSET Keys]
    /\ todo \in [Requests -> Seq(Statement)]
    /\ strays \in SUBSET Requests

\* No row is written by two open transactions: the second would have waited.
Disjoint ==
    \A j, k \in Conns : j # k => DOMAIN undo[j] \cap DOMAIN undo[k] = {}

\* Only a request that executes statements has written rows,
OpenRuns ==
    \A k \in Conns : DOMAIN undo[k] # {} => \E r \in Requests : conn[r] = k /\ at[r] = "running"

\* and what it has written carries its name or is gone.
OwnWrites ==
    \A k \in Conns : \A key \in DOMAIN undo[k], r \in Requests : db[key].by = r => conn[r] = k

\* What is committed was written by requests that have committed.
Accepted ==
    \A key \in Keys, r \in Requests :
      Committed(key).by = r => at[r] \in {"answered", "dropped"}

RowInv == RowTypes /\ Disjoint /\ OpenRuns /\ OwnWrites /\ Accepted

\* A row has one committed version.
LEMMA CommittedIs ==
    /\ Disjoint => \A k \in Conns : \A key \in DOMAIN undo[k] : Committed(key) = undo[k][key]
    /\ \A key : (\A k \in Conns : key \notin DOMAIN undo[k]) => Committed(key) = db[key]
  BY DEF Disjoint, Committed

\* Initially nothing is open, and no request has written what is stored.
LEMMA RowsStart == Init => RowInv
<1> SUFFICES ASSUME Init PROVE RowInv
  OBVIOUS
<1>1. \A k \in Conns : DOMAIN undo[k] = {}
  BY DEF Init
<1>2. \A k, c : NewRow(k, c).by = Nobody /\ Absent.by = Unset
  BY DEF NewRow, Absent
<1>3. RowTypes
  <2>1. db \in [Keys -> Row \cup {Absent}]
    <3>1. PICK S \in SUBSET Stored :
            db = [k \in Keys |-> IF k[1] = "organizations" \/ k \in S
                                 THEN NewRow(k[2], None) ELSE Absent]
      BY DEF Init
    <3>2. \A o \in Orgs : NewRow(o, None) \in Row
      BY DEF NewRow, Row
    <3>3. \A k \in Keys : k[1] = "organizations" \/ k \in S => k[2] \in Orgs
      BY TenancyAssumption DEF Keys
    <3> QED  BY <3>1, <3>2, <3>3
  <2> QED  BY <1>1, <2>1 DEF Init, RowTypes
<1>4. Disjoint /\ OpenRuns /\ OwnWrites
  BY <1>1 DEF Disjoint, OpenRuns, OwnWrites
<1>5. Accepted
  <2>1. \A key \in Keys : db[key].by \in {Nobody, Unset}
    BY <1>2 DEF Init
  <2> QED  BY <1>1, <2>1, CommittedIs, TenancyAssumption DEF Accepted
<1> QED  BY <1>3, <1>4, <1>5 DEF RowInv

\* Steps that touch no row and end no request that has executed statements.
LEMMA RowsUntouched ==
    ASSUME RowInv, UNCHANGED <<db, undo, shared, strays>>,
           todo' \in [Requests -> Seq(Statement)],
           NEW r \in Requests, at[r] \notin {"running", "answered", "dropped"},
           \A q \in Requests : q # r => at'[q] = at[q] /\ conn'[q] = conn[q],
           conn'[r] = conn[r] \/ conn[r] \notin Conns
    PROVE  RowInv'
<1>1. RowTypes'
  BY DEF RowInv, RowTypes
<1>2. Disjoint'
  BY DEF RowInv, Disjoint
<1>3. OpenRuns'
  BY DEF RowInv, OpenRuns
<1>4. OwnWrites'
  BY DEF RowInv, OwnWrites
<1>5. Accepted'
  BY DEF RowInv, Accepted, Committed
<1> QED  BY <1>1, <1>2, <1>3, <1>4, <1>5 DEF RowInv

\* A transaction that ends and keeps what it has written.
LEMMA RowsKept ==
    ASSUME Inv, RowInv, NEW r \in Requests, conn[r] # Nobody, NEW next, Release(r, next),
           UNCHANGED <<db, strays>>,
           next \in {"answered", "dropped"} \/ at[r] # "running",
           at[r] \notin {"answered", "dropped"}
    PROVE  RowInv'
<1> USE DEF Release
<1>0. conn[r] \in Conns /\ \A q \in Requests : q # r => conn[q] # conn[r]
  BY DEF Inv, PoolInv
<1>1. /\ DOMAIN undo' = Conns /\ DOMAIN undo'[conn[r]] = {}
      /\ \A k \in Conns : k # conn[r] => undo'[k] = undo[k]
  BY <1>0 DEF RowInv, RowTypes
<1>2. at[r] # "running" => DOMAIN undo[conn[r]] = {}
  BY <1>0 DEF RowInv, OpenRuns
<1>3. /\ \A q \in Requests : q # r => at'[q] = at[q] /\ conn'[q] = conn[q]
      /\ at'[r] = next
  BY DEF Inv, PhaseInv, PoolInv
<1>4. RowTypes'
  BY <1>0, <1>1 DEF RowInv, RowTypes
<1>5. Disjoint'
  BY <1>0, <1>1 DEF RowInv, Disjoint
<1>6. OpenRuns' /\ OwnWrites'
  BY <1>0, <1>1, <1>3 DEF RowInv, OpenRuns, OwnWrites
<1>7. ASSUME NEW key \in Keys, NEW q \in Requests, Committed(key)'.by = q
      PROVE  at'[q] \in {"answered", "dropped"}
  <2>1. CASE key \in DOMAIN undo[conn[r]]
    <3>1. \A k \in Conns : key \notin DOMAIN undo'[k]
      BY <1>0, <1>1, <2>1 DEF RowInv, Disjoint
    <3>2. Committed(key)' = db[key]
      BY <3>1 DEF Committed
    <3> QED  BY <1>0, <1>2, <1>3, <1>7, <2>1, <3>2 DEF RowInv, OwnWrites
  <2>2. CASE key \notin DOMAIN undo[conn[r]]
    <3>1. Committed(key)' = Committed(key)
      <4>1. CASE \E k \in Conns : key \in DOMAIN undo[k]
        <5>1. PICK k \in Conns : key \in DOMAIN undo[k]
          BY <4>1
        <5>2. undo'[k] = undo[k]
          BY <1>1, <2>2, <5>1
        <5>3. Committed(key) = undo[k][key]
          BY <5>1, CommittedIs DEF RowInv
        <5>4. Committed(key)' = undo'[k][key]
          BY <1>5, <5>1, <5>2 DEF Disjoint, Committed
        <5> QED  BY <5>2, <5>3, <5>4
      <4>2. CASE \A k \in Conns : key \notin DOMAIN undo[k]
        BY <1>1, <4>2 DEF Committed
      <4> QED  BY <4>1, <4>2
    <3> QED  BY <1>3, <1>7, <3>1 DEF RowInv, Accepted
  <2> QED  BY <2>1, <2>2
<1>8. Accepted'
  BY <1>7 DEF Accepted
<1> QED  BY <1>4, <1>5, <1>6, <1>8 DEF RowInv

\* What a statement that was not refused does, on connection k.
Effect(k, new) ==
    /\ k \in Conns /\ DOMAIN new \subseteq Keys
    /\ \A key \in DOMAIN new, j \in Conns : j # k => key \notin DOMAIN undo[j]
    /\ \A key \in Keys : db'[key] = IF key \in DOMAIN new THEN new[key] ELSE db[key]
    /\ \A j \in Conns : j # k => undo'[j] = undo[j]
    /\ DOMAIN undo'[k] = DOMAIN undo[k] \cup DOMAIN new
    /\ \A key \in DOMAIN undo'[k] :
         undo'[k][key] = IF key \in DOMAIN undo[k] THEN undo[k][key] ELSE db[key]

\* It leaves what is committed as it was.
LEMMA EffectCommits ==
    ASSUME RowInv, Disjoint', NEW k, NEW new, Effect(k, new), NEW key \in Keys
    PROVE  Committed(key)' = Committed(key)
<1> USE DEF Effect
<1>1. CASE \E j \in Conns : key \in DOMAIN undo[j]
  <2>1. PICK j \in Conns : key \in DOMAIN undo[j]
    BY <1>1
  <2>2. key \in DOMAIN undo'[j] /\ undo'[j][key] = undo[j][key]
    BY <2>1
  <2>3. Committed(key) = undo[j][key]
    BY <2>1, CommittedIs DEF RowInv
  <2>4. Committed(key)' = undo'[j][key]
    BY <2>2 DEF Disjoint, Committed
  <2> QED  BY <2>2, <2>3, <2>4
<1>2. CASE /\ \A j \in Conns : key \notin DOMAIN undo[j]
           /\ key \in DOMAIN new
  <2>1. key \in DOMAIN undo'[k] /\ undo'[k][key] = db[key]
    BY <1>2
  <2>2. Committed(key)' = undo'[k][key]
    BY <2>1 DEF Disjoint, Committed
  <2> QED  BY <1>2, <2>1, <2>2, CommittedIs
<1>3. CASE /\ \A j \in Conns : key \notin DOMAIN undo[j]
           /\ key \notin DOMAIN new
  <2>1. \A j \in Conns : key \notin DOMAIN undo'[j]
    BY <1>3
  <2>2. Committed(key)' = db'[key]
    BY <2>1 DEF Committed
  <2> QED  BY <1>3, <2>2, CommittedIs
<1> QED  BY <1>1, <1>2, <1>3

\* What a rollback does.
LEMMA AbortHasEffect ==
    ASSUME Inv, RowInv, NEW r \in Requests, conn[r] # Nobody, NEW next, Abort(r, next)
    PROVE  /\ conn[r] \in Conns
           /\ DOMAIN undo' = Conns /\ DOMAIN undo'[conn[r]] = {}
           /\ \A k \in Conns : k # conn[r] =>
                /\ undo'[k] = undo[k]
                /\ \A key \in DOMAIN undo[k] : key \in Keys /\ db'[key] = db[key]
           /\ \A key \in DOMAIN undo[conn[r]] : key \in Keys /\ db'[key] = undo[conn[r]][key]
           /\ \A key \in Keys \ DOMAIN undo[conn[r]] : db'[key] = db[key]
           /\ Disjoint'
           /\ \A key \in Keys : Committed(key)' = Committed(key)
<1> USE DEF Release, Abort
<1>0. conn[r] \in Conns /\ \A q \in Requests : q # r => conn[q] # conn[r]
  BY DEF Inv, PoolInv
<1>1. /\ DOMAIN undo' = Conns /\ DOMAIN undo'[conn[r]] = {}
      /\ \A k \in Conns : k # conn[r] => undo'[k] = undo[k]
  BY <1>0 DEF RowInv, RowTypes
<1>2. /\ \A key \in DOMAIN undo[conn[r]] : key \in Keys /\ db'[key] = undo[conn[r]][key]
      /\ \A key \in Keys \ DOMAIN undo[conn[r]] : db'[key] = db[key]
  BY <1>0 DEF Restored, RowInv, RowTypes
<1>3. Disjoint'
  BY <1>0, <1>1 DEF RowInv, Disjoint
<1>4. \A k \in Conns : k # conn[r] =>
        \A key \in DOMAIN undo[k] : key \in Keys /\ db'[key] = db[key]
  BY <1>0, <1>2 DEF RowInv, RowTypes, Disjoint
<1>5. ASSUME NEW key \in Keys PROVE Committed(key)' = Committed(key)
  <2>1. CASE key \in DOMAIN undo[conn[r]]
    <3>1. \A k \in Conns : key \notin DOMAIN undo'[k]
      BY <1>0, <1>1, <2>1 DEF RowInv, Disjoint
    <3>2. Committed(key)' = db'[key]
      BY <3>1 DEF Committed
    <3>3. Committed(key) = undo[conn[r]][key]
      BY <1>0, <2>1, CommittedIs DEF RowInv
    <3> QED  BY <1>2, <2>1, <3>2, <3>3
  <2>2. CASE key \notin DOMAIN undo[conn[r]]
    <3>1. CASE \E k \in Conns : key \in DOMAIN undo[k]
      <4>1. PICK k \in Conns : key \in DOMAIN undo[k]
        BY <3>1
      <4>2. undo'[k] = undo[k]
        BY <1>1, <2>2, <4>1
      <4>3. Committed(key) = undo[k][key]
        BY <4>1, CommittedIs DEF RowInv
      <4>4. Committed(key)' = undo'[k][key]
        BY <1>3, <4>1, <4>2 DEF Disjoint, Committed
      <4> QED  BY <4>2, <4>3, <4>4
    <3>2. CASE \A k \in Conns : key \notin DOMAIN undo[k]
      BY <1>1, <1>2, <2>2, <3>2 DEF Committed
    <3> QED  BY <3>1, <3>2
  <2> QED  BY <2>1, <2>2
<1> QED  BY <1>0, <1>1, <1>2, <1>3, <1>4, <1>5

\* A rollback restores what was committed.
LEMMA RowsRestored ==
    ASSUME Inv, RowInv, NEW r \in Requests, conn[r] # Nobody, NEW next, Abort(r, next),
           strays' \in SUBSET Requests, at[r] \notin {"answered", "dropped"}
    PROVE  RowInv'
<1> USE DEF Release, Abort
<1>0. conn[r] \in Conns /\ \A q \in Requests : q # r => conn[q] # conn[r]
  BY DEF Inv, PoolInv
<1>1. /\ DOMAIN undo' = Conns /\ DOMAIN undo'[conn[r]] = {}
      /\ \A k \in Conns : k # conn[r] =>
           undo'[k] = undo[k] /\ \A key \in DOMAIN undo[k] : db'[key] = db[key]
      /\ Disjoint' /\ \A key \in Keys : Committed(key)' = Committed(key)
  BY AbortHasEffect
<1>2. /\ \A q \in Requests : q # r => at'[q] = at[q] /\ conn'[q] = conn[q]
      /\ at'[r] = next
  BY DEF Inv, PhaseInv, PoolInv
<1>3. RowTypes'
  <2>1. db' \in [Keys -> Row \cup {Absent}]
    BY <1>0 DEF Restored, RowInv, RowTypes
  <2> QED  BY <1>0, <1>1, <2>1 DEF RowInv, RowTypes
<1>4. OpenRuns' /\ OwnWrites'
  BY <1>0, <1>1, <1>2 DEF RowInv, OpenRuns, OwnWrites
<1>5. Accepted'
  BY <1>1, <1>2 DEF RowInv, Accepted
<1> QED  BY <1>1, <1>3, <1>4, <1>5 DEF RowInv

\* What a transaction sees of a row is a row or its absence.
LEMMA SeenTyped ==
    ASSUME RowTypes, NEW k \in Conns, NEW key \in Keys
    PROVE  Seen(k, key) \in Row \cup {Absent}
<1>1. CASE \E j \in Others(k) : key \in DOMAIN undo[j]
  <2> DEFINE j == CHOOSE j \in Others(k) : key \in DOMAIN undo[j]
  <2>1. j \in Conns /\ key \in DOMAIN undo[j]
    BY <1>1 DEF Others
  <2> QED  BY <1>1, <2>1 DEF Seen, RowTypes
<1>2. CASE ~\E j \in Others(k) : key \in DOMAIN undo[j]
  BY <1>2 DEF Seen, RowTypes
<1> QED  BY <1>1, <1>2

\* A changed row is a row, and carries the name of who changed it.
LEMMA ChangedTyped ==
    ASSUME NEW row \in Row, NEW how, NEW r \in Requests
    PROVE  LET new == [Changed(row, how) EXCEPT !.by = r] IN new \in Row /\ new.by = r
<1>1. row.total + 1 \in Nat
  BY DEF Row
<1>2. [row EXCEPT !.total = @ + 1] \in Row
  BY <1>1 DEF Row
<1>3. [row EXCEPT !.byHand = TRUE] \in Row
  BY DEF Row
<1>4. Changed(row, how) \in Row
  BY <1>2, <1>3 DEF Changed
<1> QED  BY <1>4 DEF Row

\* A statement that waits for nobody writes rows nobody else has open.
LEMMA WritesTyped ==
    ASSUME RowTypes, NEW r \in Requests, NEW k \in Conns, NEW st \in Statement,
           Blockers(k, st) = {}, ~Refuses(k, st)
    PROVE  LET new == Writes(r, k, st)
           IN  /\ DOMAIN new \subseteq Keys
               /\ \A key \in DOMAIN new :
                    /\ new[key] = Absent \/ (new[key] \in Row /\ new[key].by = r)
                    /\ \A j \in Conns : j # k => key \notin DOMAIN undo[j]
<1> DEFINE new == Writes(r, k, st)
           old == Seen(k, st.key)
<1> SUFFICES /\ DOMAIN new \subseteq Keys
             /\ \A key \in DOMAIN new :
                  /\ new[key] = Absent \/ (new[key] \in Row /\ new[key].by = r)
                  /\ \A j \in Conns : j # k => key \notin DOMAIN undo[j]
  OBVIOUS
<1>0. /\ st.do \in {"select", "exists", "free", "insert", "upsert", "change", "adjust", "remove"}
      /\ st.do # "select" => st.key \in Keys
      /\ st.do \in {"insert", "upsert"} => st.row \in Row
  BY DEF Statement
<1>1. CASE st.do \in {"insert", "upsert"} /\ old = Absent
  <2>1. new = [key \in {st.key} |-> [st.row EXCEPT !.by = r]]
    <3>1. CASE st.do = "insert"
      BY <1>1, <3>1 DEF Writes
    <3>2. CASE st.do = "upsert"
      BY <1>1, <3>2 DEF Writes, Sees
    <3> QED  BY <1>1, <3>1, <3>2
  <2>2. Written(k, {st.key}) = {}
    BY <1>1 DEF Blockers
  <2>3. [st.row EXCEPT !.by = r] \in Row /\ [st.row EXCEPT !.by = r].by = r
    BY <1>0, <1>1 DEF Row
  <2> QED  BY <1>0, <1>1, <2>1, <2>2, <2>3 DEF Written, Others
<1>2. CASE /\ st.do \in {"change", "adjust", "upsert"} /\ Sees(k, st.key, old)
           /\ ~(st.do \in {"insert", "upsert"} /\ old = Absent)
  <2>1. new = [key \in {st.key} |-> [Changed(old, st.how) EXCEPT !.by = r]]
    BY <1>2 DEF Writes
  <2>2. Written(k, {st.key}) = {}
    BY <1>2 DEF Blockers
  <2>3. old \in Row
    BY <1>0, <1>2, SeenTyped DEF Sees
  <2>4. [Changed(old, st.how) EXCEPT !.by = r] \in Row
        /\ [Changed(old, st.how) EXCEPT !.by = r].by = r
    BY <2>3, ChangedTyped
  <2> QED  BY <1>0, <1>2, <2>1, <2>2, <2>4 DEF Written, Others
<1>3. CASE st.do = "remove"
  <2>0. Sees(k, st.key, old)
    BY <1>3 DEF Refuses
  <2>1. new = [key \in Taken(k, st.key) |-> Absent]
    BY <1>3 DEF Writes
  <2>2. Written(k, Taken(k, st.key)) = {}
    BY <1>3, <2>0 DEF Blockers
  <2>3. Taken(k, st.key) \subseteq Keys
    BY <1>0, <1>3 DEF Taken
  <2>4. \A j \in Conns : j # k => Taken(k, st.key) \cap DOMAIN undo[j] = {}
    BY <2>2 DEF Written, Others
  <2>5. DOMAIN new = Taken(k, st.key) /\ \A key \in DOMAIN new : new[key] = Absent
    BY <2>1, Zenon
  <2> QED  BY <2>3, <2>4, <2>5
<1>4. CASE /\ ~(st.do \in {"insert", "upsert"} /\ old = Absent)
           /\ ~(st.do \in {"change", "adjust", "upsert"} /\ Sees(k, st.key, old))
           /\ st.do # "remove"
  <2>1. new = << >>
    BY <1>4 DEF Writes
  <2> QED  BY <2>1
<1> QED  BY <1>1, <1>2, <1>3, <1>4

\* A statement that is not refused has the effect of what it writes.
LEMMA ExecuteHasEffect ==
    ASSUME Inv, RowInv, NEW r \in Requests, at[r] \in {"ready", "running"},
           NEW st \in Statement, NEW rest, Execute(r, st, rest), ~Refuses(conn[r], st)
    PROVE  Effect(conn[r], Writes(r, conn[r], st)) /\ Disjoint'
<1> DEFINE k   == conn[r]
           new == Writes(r, k, st)
<1>0. k \in Conns /\ conn[r] # Nobody /\ Blockers(k, st) = {}
  BY TenancyAssumption DEF Inv, PoolInv, PhaseInv, Holding, Execute
<1>1. /\ DOMAIN new \subseteq Keys
      /\ \A key \in DOMAIN new : \A j \in Conns : j # k => key \notin DOMAIN undo[j]
  BY <1>0, WritesTyped DEF RowInv
<1>2. /\ db' = [key \in Keys |-> IF key \in DOMAIN new THEN new[key] ELSE db[key]]
      /\ undo' = [undo EXCEPT ![k] =
                    [key \in DOMAIN @ \cup DOMAIN new |->
                       IF key \in DOMAIN @ THEN @[key] ELSE db[key]]]
  BY DEF Execute
<1> HIDE DEF new
<1>3. Effect(k, new)
  BY <1>0, <1>1, <1>2 DEF RowInv, RowTypes, Effect
<1>4. Disjoint'
  BY <1>0, <1>1, <1>3 DEF Effect, RowInv, Disjoint
<1> QED  BY <1>3, <1>4 DEF new

\* A statement that is executed, or refused.
LEMMA RowsExecuted ==
    ASSUME Inv, RowInv, NEW r \in Requests, at[r] \in {"ready", "running"},
           NEW st \in Statement, NEW rest \in Seq(Statement), Execute(r, st, rest)
    PROVE  RowInv'
<1>0. PICK k \in Conns : k = conn[r]
  BY TenancyAssumption DEF Inv, PoolInv, PhaseInv, Holding
<1>1. Blockers(k, st) = {} /\ strays' \in SUBSET Requests /\ conn[r] # Nobody
  BY <1>0, TenancyAssumption DEF Execute, RowInv, RowTypes
<1>2. CASE Refuses(k, st)
  <2>1. Abort(r, "failed")
    BY <1>0, <1>2 DEF Execute
  <2> QED  BY <1>1, <2>1, RowsRestored
<1>3. CASE ~Refuses(k, st)
  <2> DEFINE new == Writes(r, k, st)
  <2>1. Effect(k, new) /\ Disjoint'
    BY <1>0, <1>3, ExecuteHasEffect
  <2>2. \A key \in DOMAIN new : new[key] = Absent \/ (new[key] \in Row /\ new[key].by = r)
    BY <1>1, <1>3, WritesTyped DEF RowInv
  <2>3. /\ db' = [key \in Keys |-> IF key \in DOMAIN new THEN new[key] ELSE db[key]]
        /\ undo' = [undo EXCEPT ![k] =
                      [key \in DOMAIN @ \cup DOMAIN new |->
                         IF key \in DOMAIN @ THEN @[key] ELSE db[key]]]
        /\ shared' = [shared EXCEPT ![k] =
                        IF st.do \in {"insert", "upsert"} THEN @ \cup Parents(st.key, st.row)
                        ELSE @]
        /\ todo' = [todo EXCEPT ![r] = rest]
        /\ at' = [at EXCEPT ![r] = "running"]
        /\ UNCHANGED conn
    BY <1>0, <1>3 DEF Execute
  <2> HIDE DEF new
  <2>4. RowTypes'
    <3>1. db' \in [Keys -> Row \cup {Absent}]
      BY <2>2, <2>3 DEF RowInv, RowTypes
    <3>2. \A j \in Conns : \A key \in DOMAIN undo'[j] :
            key \in Keys /\ undo'[j][key] \in Row \cup {Absent}
      BY <2>1 DEF Effect, RowInv, RowTypes
    <3>3. shared' \in [Conns -> SUBSET Keys]
      BY <2>3 DEF RowInv, RowTypes, Statement
    <3> QED  BY <1>1, <2>3, <3>1, <3>2, <3>3 DEF RowInv, RowTypes
  <2>5. at'[r] = "running" /\ \A q \in Requests : q # r => at'[q] = at[q]
    BY <2>3 DEF Inv, PhaseInv
  <2>6. OpenRuns'
    BY <1>0, <2>1, <2>3, <2>5 DEF Effect, RowInv, OpenRuns
  <2>7. OwnWrites'
    <3> SUFFICES ASSUME NEW j \in Conns, NEW key \in DOMAIN undo'[j], NEW q \in Requests,
                        db'[key].by = q
                 PROVE  conn[q] = j
      BY <2>3 DEF OwnWrites
    <3>1. key \in Keys
      BY <2>4 DEF RowTypes
    <3>2. CASE key \in DOMAIN new
      <4>1. j = k
        BY <2>1, <3>2 DEF Effect
      <4>2. new[key].by = q
        BY <2>3, <3>1, <3>2
      <4> QED  BY <1>0, <2>2, <3>2, <4>1, <4>2, TenancyAssumption DEF Absent
    <3>3. CASE key \notin DOMAIN new
      BY <2>1, <3>1, <3>3 DEF Effect, RowInv, OwnWrites
    <3> QED  BY <3>2, <3>3
  <2>8. Accepted'
    BY <2>1, <2>5, EffectCommits DEF RowInv, Accepted
  <2> QED  BY <2>1, <2>4, <2>6, <2>7, <2>8 DEF RowInv
<1> QED  BY <1>2, <1>3

\* Every step keeps what is said of rows: one step per action.
LEMMA RowSteps == Inv /\ RowInv /\ [Next]_vars => RowInv'
<1> SUFFICES ASSUME Inv, RowInv, [Next]_vars PROVE RowInv'
  OBVIOUS
<1>1. ASSUME NEW r \in Requests, AuthBegin(r) \/ Begin(r) PROVE RowInv'
  <2>1. /\ UNCHANGED <<db, undo, shared, strays, todo>>
        /\ at[r] \notin {"running", "answered", "dropped"} /\ conn[r] \notin Conns
        /\ \A q \in Requests : q # r => at'[q] = at[q] /\ conn'[q] = conn[q]
    BY <1>1, TenancyAssumption DEF AuthBegin, Begin, Take, Inv, PoolInv, PhaseInv, Holding
  <2> QED  BY <2>1, RowsUntouched DEF RowInv, RowTypes
<1>2. ASSUME NEW r \in Requests, SetSkip(r) \/ SetOrg(r) \/ TurnedAway(r) PROVE RowInv'
  <2>1. /\ UNCHANGED <<db, undo, shared, strays, todo, conn>>
        /\ at[r] \notin {"running", "answered", "dropped"}
        /\ \A q \in Requests : q # r => at'[q] = at[q]
    BY <1>2 DEF SetSkip, SetOrg, TurnedAway, Inv, PhaseInv
  <2> QED  BY <2>1, RowsUntouched DEF RowInv, RowTypes
<1>3. ASSUME NEW r \in Requests, Start(r) PROVE RowInv'
  <2>1. PICK h \in Handlers :
          IF h = << >>
          THEN /\ at' = [at EXCEPT ![r] = "running"]
               /\ UNCHANGED <<db, undo, shared, settings, idle, user, conn, todo, strays>>
          ELSE Execute(r, Head(h), Tail(h))
    BY <1>3 DEF Start
  <2>2. CASE h = << >>
    <3>1. /\ UNCHANGED <<db, undo, shared, strays, todo, conn>>
          /\ at[r] \notin {"running", "answered", "dropped"}
          /\ \A q \in Requests : q # r => at'[q] = at[q]
      BY <1>3, <2>1, <2>2 DEF Start, Inv, PhaseInv
    <3> QED  BY <3>1, RowsUntouched DEF RowInv, RowTypes
  <2>3. CASE h # << >>
    <3>1. h \in Seq(Statement)
      BY HandlersTyped
    <3>2. Head(h) \in Statement /\ Tail(h) \in Seq(Statement)
      BY <2>3, <3>1
    <3> QED  BY <1>3, <2>1, <2>3, <3>2, RowsExecuted DEF Start
  <2> QED  BY <2>2, <2>3
<1>4. ASSUME NEW r \in Requests, Continue(r) PROVE RowInv'
  <2>1. Head(todo[r]) \in Statement /\ Tail(todo[r]) \in Seq(Statement)
    <3>1. todo[r] \in Seq(Statement) /\ todo[r] # << >>
      BY <1>4 DEF Continue, RowInv, RowTypes
    <3> QED  BY <3>1
  <2> QED  BY <1>4, <2>1, RowsExecuted DEF Continue
<1>5. ASSUME NEW r \in Requests, AuthDone(r) \/ Commit(r) PROVE RowInv'
  BY <1>5, RowsKept DEF AuthDone, Commit, Inv, PhaseInv, Holding
<1>6. ASSUME NEW r \in Requests, conn[r] # Nobody, Fault(r) \/ Drop(r) PROVE RowInv'
  <2>1. at[r] \notin {"answered", "dropped"} /\ strays' \in SUBSET Requests
    BY <1>6 DEF Fault, Drop, Inv, PhaseInv, Holding, RowInv, RowTypes
  <2>2. CASE Abort(r, "failed") \/ Abort(r, "dropped")
    BY <1>6, <2>1, <2>2, RowsRestored
  <2>3. CASE Release(r, "dropped") /\ UNCHANGED <<db, strays>>
    BY <1>6, <2>1, <2>3, RowsKept
  <2> QED  BY <1>6, <2>2, <2>3 DEF Fault, Drop
<1>7. CASE UNCHANGED vars
  BY <1>7 DEF vars, RowInv, RowTypes, Disjoint, OpenRuns, OwnWrites, Accepted, Committed
<1> QED
  BY <1>1, <1>2, <1>3, <1>4, <1>5, <1>6, <1>7 DEF Next, Serve, Fault, Drop

\* A request that was answered with an error leaves no row behind that it wrote,
\* whatever statements it executed and whoever else wrote (state.rs:112-132,
\* attendance/handlers.rs:105-121, contracts/handlers.rs:66-120).
THEOREM FailuresLeaveNoTrace == Spec => []FailedLeavesNoTrace
<1>1. Init => Inv /\ RowInv
  BY Starts, RowsStart
<1>2. Inv /\ RowInv /\ [Next]_vars => Inv' /\ RowInv'
  BY Steps, RowSteps
<1>3. RowInv => FailedLeavesNoTrace
  BY DEF RowInv, Accepted, FailedLeavesNoTrace
<1> QED  BY <1>1, <1>2, <1>3, PTL DEF Spec

\* Every reachable state has the declared types, for any handlers in flight.
THEOREM TypeCorrect == Spec => []TypeOK
<1>1. Init => Inv /\ RowInv
  BY Starts, RowsStart
<1>2. Inv /\ RowInv /\ [Next]_vars => Inv' /\ RowInv'
  BY Steps, RowSteps
<1>3. Inv /\ RowInv => TypeOK
  BY DEF Inv, PoolInv, OwnSettings, SettingsOK, RowInv, RowTypes, TypeOK
<1> QED  BY <1>1, <1>2, <1>3, PTL DEF Spec

-----------------------------------------------------------------------------
(* Contracts and the totals of clients.                                    *)

Money == {"clients", "contracts"}

\* Clients belong to the organization they are named after.
Shaped(key, row) ==
    row = Absent \/ /\ key[1] \in {"organizations", "clients"} => row.client = None
                    /\ key[1] = "clients" => row.org = key[2]

RowsShaped ==
    /\ \A key \in Keys : Shaped(key, db[key])
    /\ \A k \in Conns : \A key \in DOMAIN undo[k] : Shaped(key, undo[k][key])

\* A transaction that has written no contract and no client,
Before(k) == \A key \in DOMAIN undo[k] : key[1] \notin Money

\* the contracts with client o it has made, the rows it has deleted,
Added(k, o) ==
    {n \in Numbers : /\ Contract(n) \in DOMAIN undo[k]
                     /\ Counted(db[Contract(n)], o) /\ ~Counted(undo[k][Contract(n)], o)}
Gone(k, key) == key \in DOMAIN undo[k] /\ undo[k][key] # Absent /\ db[key] = Absent

\* and the total of the client, if it has changed it.
Grown(k, o) ==
    LET cl == Client(o)
    IN  cl \in DOMAIN undo[k] /\ undo[k][cl] # Absent /\ db[cl] # Absent /\ ~db[cl].byHand =>
          ~undo[k][cl].byHand /\ undo[k][cl].total + Cardinality(Added(k, o)) <= db[cl].total

\* A client with new contracts stays, a client that is deleted takes its contracts
\* with it, and its total grows with them.
Books(k) ==
    \A o \in Orgs :
      /\ Added(k, o) # {} => /\ Client(o) \in shared[k] /\ Committed(Client(o)) # Absent
                             /\ ~Gone(k, Client(o))
      /\ Gone(k, Client(o)) =>
           \A n \in Counts(o) : Contract(n) \in DOMAIN undo[k] /\ ~Counted(db[Contract(n)], o)
      /\ Grown(k, o)

\* What one transaction refers to no other deletes.
Pins == \A j, k \in Conns, o \in Orgs : j # k /\ Client(o) \in shared[j] => ~Gone(k, Client(o))

\* A contract that counts has its client.
Referred == \A o \in Orgs : Counts(o) # {} => Committed(Client(o)) # Absent

\* A statement that leaves clients and contracts alone, the one statement about them
\* of a handler other than ContractCreate, and the handlers that end with one.
Quiet(st) ==
    \/ st.do \in {"select", "exists", "free"}
    \/ /\ st.do \in {"insert", "upsert", "change"} /\ st.key[1] \notin Money
       /\ Shaped(st.key, st.row)
Sole(st) ==
    \/ st.do = "insert" /\ st.key[1] = "clients" /\ Shaped(st.key, st.row)
    \/ st.do = "change" /\ st.key[1] \in Money /\ st.how # "count"
    \/ st.do = "remove"
Simple(h) == \A i \in DOMAIN h : Quiet(h[i]) \/ (i = Len(h) /\ Sole(h[i]))

\* ContractCreate before and after its insert.
Creates(h) ==
    \E n \in Numbers, o, c \in Orgs :
      h = <<Insert(Contract(n), NewRow(o, c)), Adjust(Client(c), "count")>>
Half(k, n, o, c) ==
    /\ Contract(n) \in DOMAIN undo[k]
    /\ \A key \in DOMAIN undo[k] : key[1] \in Money => key = Contract(n)
    /\ db[Contract(n)].client = c /\ db[Contract(n)].org = o
    /\ o = c => settings[k].skip = "true" \/ settings[k].org = c

\* The end: the clients of new contracts have been changed.
Complete(k) == \A o \in Orgs : Added(k, o) # {} => Client(o) \in DOMAIN undo[k]

Stage(k, h) ==
    \/ Before(k) /\ (Simple(h) \/ Creates(h))
    \/ \E n \in Numbers, o, c \in Orgs :
         Half(k, n, o, c) /\ h = <<Adjust(Client(c), "count")>>
    \/ h = << >> /\ Complete(k)

Stages ==
    \A r \in Requests : IF at[r] = "running" THEN Stage(conn[r], todo[r]) ELSE todo[r] = << >>

ContractInv ==
    /\ RowsShaped /\ Pins /\ Referred /\ Stages /\ ContractsCounted
    /\ \A k \in Conns : Books(k)

\* The statements of the handlers once more: what they say of clients and contracts.
LEMMA QuietOnes ==
    /\ \A t : Quiet(Select(t))
    /\ \A key : Quiet(Exists(key)) /\ Quiet(Free(key)) /\ Sole(Remove(key))
    /\ \A o : Sole(Change(Client(o), "edit")) /\ Sole(Change(Client(o), "by_hand"))
    /\ \A n : Sole(Change(Contract(n), "edit"))
    /\ \A o, c : /\ Quiet(Insert(Org(o), NewRow(o, None))) /\ Quiet(Change(Org(o), "edit"))
                 /\ Quiet(Insert(Dept(o), NewRow(o, None))) /\ Quiet(Change(Dept(o), "edit"))
                 /\ Sole(Insert(Client(o), NewRow(o, None)))
                 /\ Quiet(Upsert(Attended(c), NewRow(o, c)))
    /\ \A e, o : /\ Quiet(Insert(AdminOf(e), NewRow(o, None))) /\ Quiet(Change(AdminOf(e), "edit"))
                 /\ Quiet(Insert(UserOf(e), NewRow(o, None))) /\ Quiet(Change(UserOf(e), "edit"))
<1> USE DEF Quiet, Sole, Money, Shaped, NewRow, Absent
<1>1. \A key : Quiet(Exists(key)) /\ Quiet(Free(key)) /\ Sole(Remove(key))
  BY DEF Exists, Free, Remove
<1>2. \A t : Quiet(Select(t))
  BY DEF Select
<1>3. /\ \A o : Sole(Change(Client(o), "edit")) /\ Sole(Change(Client(o), "by_hand"))
      /\ \A n : Sole(Change(Contract(n), "edit"))
  BY DEF Change, Client, Contract
<1>4. \A o : /\ Quiet(Change(Org(o), "edit")) /\ Quiet(Change(Dept(o), "edit"))
             /\ Quiet(Change(AdminOf(o), "edit")) /\ Quiet(Change(UserOf(o), "edit"))
  BY DEF Change, Org, Dept, AdminOf, UserOf
<1>5. \A o : /\ Quiet(Insert(Org(o), NewRow(o, None))) /\ Quiet(Insert(Dept(o), NewRow(o, None)))
             /\ Sole(Insert(Client(o), NewRow(o, None)))
  BY DEF Insert, Org, Dept, Client
<1>6. \A e, o : /\ Quiet(Insert(AdminOf(e), NewRow(o, None)))
                /\ Quiet(Insert(UserOf(e), NewRow(o, None)))
  BY DEF Insert, AdminOf, UserOf
<1>7. \A o, c : Quiet(Upsert(Attended(c), NewRow(o, c)))
  BY DEF Upsert, Attended
<1> HIDE DEF Quiet, Sole, Money, Shaped, NewRow, Absent
<1> QED  BY <1>1, <1>2, <1>3, <1>4, <1>5, <1>6, <1>7

\* Short handlers that are simple.
LEMMA SimpleOnes ==
    /\ Simple(<< >>)
    /\ \A a : Quiet(a) \/ Sole(a) => Simple(<<a>>)
    /\ \A a, b : Quiet(a) /\ (Quiet(b) \/ Sole(b)) => Simple(<<a, b>>)
    /\ \A a, b, c : Quiet(a) /\ Quiet(b) /\ (Quiet(c) \/ Sole(c)) => Simple(<<a, b, c>>)
  BY DEF Simple

\* Every handler is simple, or ContractCreate.
LEMMA HandlersSimple ==
    ASSUME NEW h \in Handlers
    PROVE  Simple(h) \/ h \in ContractCreate
<1> USE QuietOnes, SimpleOnes
<1>1. \A g \in OrgList \cup OrgGet \cup OrgUpdate \cup OrgDelete \cup OrgChildren
              \cup OrgStats \cup AdminList \cup AdminDelete \cup AdminUpdate : Simple(g)
  BY DEF OrgList, OrgGet, OrgUpdate, OrgDelete, OrgChildren, OrgStats, AdminList, AdminDelete,
         AdminUpdate
<1>2. \A g \in OrgCreate \cup AdminCreate : Simple(g)
  <2>1. \A g \in OrgCreate : Simple(g)
    BY DEF OrgCreate
  <2>2. \A g \in AdminCreate : Simple(g)
    BY DEF AdminCreate
  <2> QED  BY <2>1, <2>2
<1>3. \A g \in DeptList \cup DeptGet \cup DeptUpdate \cup DeptDelete \cup DeptClients
              \cup DeptCreate \cup ClientList \cup ClientGet \cup ClientDelete \cup ClientStats
              \cup Debtors \cup Duplicates : Simple(g)
  BY DEF DeptList, DeptGet, DeptUpdate, DeptDelete, DeptClients, DeptCreate, ClientList, ClientGet,
         ClientDelete, ClientStats, Debtors, Duplicates
<1>4. \A g \in ClientCreate \cup ClientUpdate : Simple(g)
  <2>1. \A g \in ClientCreate : Simple(g)
    BY DEF ClientCreate
  <2>2. \A g \in ClientUpdate : Simple(g)
    BY DEF ClientUpdate
  <2> QED  BY <2>1, <2>2
<1>5. \A g \in ContractList \cup ContractGet \cup ContractUpdate \cup ContractCancel
              \cup AttendanceList \cup ClientAttendance \cup AttendanceStats : Simple(g)
  BY DEF ContractList, ContractGet, ContractUpdate, ContractCancel, AttendanceList,
         ClientAttendance, AttendanceStats
<1>6. \A g \in AttendanceRecord \cup AttendanceBulk : Simple(g)
  <2>1. \A g \in AttendanceRecord : Simple(g)
    BY DEF AttendanceRecord
  <2>2. \A o \in Orgs, s \in {<<c, d>> : c \in Orgs, d \in Orgs} \cup {<< >>} :
          Simple([i \in DOMAIN s |-> Upsert(Attended(s[i]), NewRow(o, s[i]))])
    BY DEF Simple
  <2>3. \A g \in AttendanceBulk : Simple(g)
    BY <2>2 DEF AttendanceBulk
  <2> QED  BY <2>1, <2>3
<1>7. \A g \in UserList \cup UserGet \cup UserUpdate \cup SetActive \cup UserDelete
              \cup UserStats \cup UserCreate : Simple(g)
  <2>1. \A g \in UserCreate : Simple(g)
    BY DEF UserCreate
  <2> QED  BY <2>1 DEF UserList, UserGet, UserUpdate, SetActive, UserDelete, UserStats
<1> QED  BY <1>1, <1>2, <1>3, <1>4, <1>5, <1>6, <1>7 DEF Handlers

\* What a statement that waits for nobody and is not refused writes.
LEMMA WritesWhat ==
    ASSUME RowTypes, NEW r \in Requests, NEW k \in Conns, NEW st \in Statement,
           Blockers(k, st) = {}, ~Refuses(k, st)
    PROVE  LET new == Writes(r, k, st)
               old == Seen(k, st.key)
           IN  /\ st.do = "remove" =>
                    /\ DOMAIN new = Taken(k, st.key) /\ \A key \in DOMAIN new : new[key] = Absent
                    /\ Pinned(k, Taken(k, st.key)) = {} /\ old # Absent
               /\ st.do # "remove" =>
                    \/ DOMAIN new = {}
                    \/ /\ DOMAIN new = {st.key} /\ st.key \in Keys /\ new[st.key] \in Row
                       /\ Written(k, {st.key}) = {}
                       /\ \/ /\ st.do \in {"insert", "upsert"} /\ old = Absent
                             /\ new[st.key] = [st.row EXCEPT !.by = r]
                          \/ /\ st.do \in {"change", "adjust", "upsert"} /\ old \in Row
                             /\ new[st.key] = [Changed(old, st.how) EXCEPT !.by = r]
               /\ st.do = "insert" => old = Absent /\ DOMAIN new = {st.key}
               /\ st.do = "change" => old # Absent /\ DOMAIN new = {st.key}
               /\ st.do = "adjust" => (DOMAIN new = {st.key} \/ ~Sees(k, st.key, old))
               /\ st.do \in {"select", "exists", "free"} => DOMAIN new = {}
<1> DEFINE new == Writes(r, k, st)
           old == Seen(k, st.key)
<1>0. /\ st.do \in {"select", "exists", "free", "insert", "upsert", "change", "adjust", "remove"}
      /\ st.do # "select" => st.key \in Keys
      /\ st.do \in {"insert", "upsert"} => st.row \in Row
  BY DEF Statement
<1>1. CASE st.do \in {"insert", "upsert"} /\ old = Absent
  <2>1. new = [key \in {st.key} |-> [st.row EXCEPT !.by = r]]
    <3>1. CASE st.do = "insert"
      BY <1>1, <3>1 DEF Writes
    <3>2. CASE st.do = "upsert"
      BY <1>1, <3>2 DEF Writes, Sees
    <3> QED  BY <1>1, <3>1, <3>2
  <2>2. Written(k, {st.key}) = {}
    BY <1>1 DEF Blockers
  <2>3. [st.row EXCEPT !.by = r] \in Row
    BY <1>0, <1>1 DEF Row
  <2> QED  BY <1>0, <1>1, <2>1, <2>2, <2>3
<1>2. CASE /\ st.do \in {"change", "adjust", "upsert"} /\ Sees(k, st.key, old)
           /\ ~(st.do \in {"insert", "upsert"} /\ old = Absent)
  <2>1. new = [key \in {st.key} |-> [Changed(old, st.how) EXCEPT !.by = r]]
    BY <1>2 DEF Writes
  <2>2. Written(k, {st.key}) = {}
    BY <1>2 DEF Blockers
  <2>3. old \in Row /\ old # Absent
    BY <1>0, <1>2, SeenTyped DEF Sees
  <2>4. [Changed(old, st.how) EXCEPT !.by = r] \in Row
    BY <2>3, ChangedTyped
  <2> QED  BY <1>0, <1>2, <2>1, <2>2, <2>3, <2>4
<1>3. CASE st.do = "remove"
  <2>0. Sees(k, st.key, old)
    BY <1>3 DEF Refuses
  <2>1. new = [key \in Taken(k, st.key) |-> Absent]
    BY <1>3 DEF Writes
  <2>2. Pinned(k, Taken(k, st.key)) = {}
    BY <1>3, <2>0 DEF Blockers
  <2>3. DOMAIN new = Taken(k, st.key) /\ \A key \in DOMAIN new : new[key] = Absent
    BY <2>1, Zenon
  <2>4. old # Absent
    BY <2>0 DEF Sees
  <2> QED  BY <1>3, <2>2, <2>3, <2>4
<1>4. CASE /\ ~(st.do \in {"insert", "upsert"} /\ old = Absent)
           /\ ~(st.do \in {"change", "adjust", "upsert"} /\ Sees(k, st.key, old))
           /\ st.do # "remove"
  <2>1. new = << >>
    BY <1>4 DEF Writes
  <2>2. st.do \notin {"insert", "change"}
    BY <1>4 DEF Refuses
  <2> QED  BY <1>0, <1>4, <2>1, <2>2
<1> QED  BY <1>1, <1>2, <1>3, <1>4

\* A transaction sees what it has written itself, and else what is committed.
LEMMA SeenIs ==
    ASSUME Disjoint, NEW k \in Conns, NEW key
    PROVE  /\ Written(k, {key}) = {} => Seen(k, key) = db[key]
           /\ key \in DOMAIN undo[k] => Seen(k, key) = db[key]
           /\ key \notin DOMAIN undo[k] => Seen(k, key) = Committed(key)
<1>1. (\A j \in Conns : j # k => key \notin DOMAIN undo[j]) => Seen(k, key) = db[key]
  BY DEF Seen, Others
<1>2. Written(k, {key}) = {} => \A j \in Conns : j # k => key \notin DOMAIN undo[j]
  BY DEF Written, Others
<1>3. ASSUME key \notin DOMAIN undo[k] PROVE Seen(k, key) = Committed(key)
  <2>1. CASE \E j \in Conns : key \in DOMAIN undo[j]
    <3>1. PICK j \in Conns : key \in DOMAIN undo[j]
      BY <2>1
    <3>2. \A i \in Conns : key \in DOMAIN undo[i] => i = j
      BY <3>1 DEF Disjoint
    <3>3. (CHOOSE i \in Others(k) : key \in DOMAIN undo[i]) = j
      BY <1>3, <3>1, <3>2 DEF Others
    <3>4. Seen(k, key) = undo[j][key]
      BY <1>3, <3>1, <3>3 DEF Seen, Others
    <3> QED  BY <3>1, <3>4, CommittedIs
  <2>2. CASE \A j \in Conns : key \notin DOMAIN undo[j]
    BY <1>1, <2>2, CommittedIs
  <2> QED  BY <2>1, <2>2
<1>4. key \in DOMAIN undo[k] => \A j \in Conns : j # k => key \notin DOMAIN undo[j]
  BY DEF Disjoint
<1> QED  BY <1>1, <1>2, <1>3, <1>4

\* What is seen and what is committed is shaped like what is stored.
LEMMA SeenShaped ==
    ASSUME RowsShaped, NEW k \in Conns, NEW key \in Keys
    PROVE  Shaped(key, Seen(k, key)) /\ Shaped(key, Committed(key))
<1>1. Shaped(key, Seen(k, key))
  <2>1. CASE \E j \in Others(k) : key \in DOMAIN undo[j]
    <3> DEFINE j == CHOOSE j \in Others(k) : key \in DOMAIN undo[j]
    <3>1. j \in Conns /\ key \in DOMAIN undo[j]
      BY <2>1 DEF Others
    <3> QED  BY <2>1, <3>1 DEF Seen, RowsShaped
  <2>2. CASE ~\E j \in Others(k) : key \in DOMAIN undo[j]
    BY <2>2 DEF Seen, RowsShaped
  <2> QED  BY <2>1, <2>2
<1>2. Shaped(key, Committed(key))
  <2>1. CASE \E j \in Conns : key \in DOMAIN undo[j]
    <3> DEFINE j == CHOOSE j \in Conns : key \in DOMAIN undo[j]
    <3>1. j \in Conns /\ key \in DOMAIN undo[j]
      BY <2>1
    <3> QED  BY <2>1, <3>1 DEF Committed, RowsShaped
  <2>2. CASE ~\E j \in Conns : key \in DOMAIN undo[j]
    BY <2>2 DEF Committed, RowsShaped
  <2> QED  BY <2>1, <2>2
<1> QED  BY <1>1, <1>2

\* The books of a transaction nobody else's statement or rollback has touched.
LEMMA BooksUntouched ==
    ASSUME RowTypes, NEW j \in Conns, Books(j), undo'[j] = undo[j],
           \A key \in DOMAIN undo[j] : db'[key] = db[key],
           \A key \in Keys : Committed(key)' = Committed(key),
           shared[j] \subseteq shared'[j]
    PROVE  /\ Books(j)'
           /\ \A o \in Orgs : Gone(j, Client(o))' <=> Gone(j, Client(o))
<1> SUFFICES ASSUME NEW o \in Orgs
             PROVE  /\ Added(j, o)' # {} => /\ Client(o) \in shared'[j]
                                            /\ Committed(Client(o))' # Absent
                                            /\ ~Gone(j, Client(o))'
                    /\ Gone(j, Client(o))' =>
                         \A n \in Counts(o)' : /\ Contract(n) \in DOMAIN undo'[j]
                                               /\ ~Counted(db'[Contract(n)], o)
                    /\ Grown(j, o)'
                    /\ Gone(j, Client(o))' <=> Gone(j, Client(o))
  BY DEF Books
<1>1. Added(j, o)' = Added(j, o)
  BY DEF Added
<1>2. Gone(j, Client(o))' <=> Gone(j, Client(o))
  BY DEF Gone
<1>3. Counts(o)' = Counts(o)
  BY KeysTyped DEF Counts
<1>4. Committed(Client(o))' = Committed(Client(o))
  BY KeysTyped
<1>5. Grown(j, o)'
  BY <1>1 DEF Books, Grown
<1> QED  BY <1>1, <1>2, <1>3, <1>4, <1>5 DEF Books

\* The stage of a request nobody else's step has touched.
LEMMA StageUntouched ==
    ASSUME NEW j \in Conns, NEW h, Stage(j, h), undo'[j] = undo[j], settings'[j] = settings[j],
           \A n \in Numbers : Contract(n) \in DOMAIN undo[j] => db'[Contract(n)] = db[Contract(n)]
    PROVE  Stage(j, h)'
<1>1. Before(j)' <=> Before(j)
  BY DEF Before
<1>2. \A o \in Orgs : Added(j, o)' = Added(j, o)
  BY DEF Added
<1>3. Complete(j)' <=> Complete(j)
  BY <1>2 DEF Complete
<1>4. \A n \in Numbers, o, c \in Orgs :
        Half(j, n, o, c) => Half(j, n, o, c)'
  BY DEF Half
<1> QED  BY <1>1, <1>3, <1>4 DEF Stage

\* A transaction that has written no contract and no client has nothing in its books.
LEMMA BooksBefore ==
    ASSUME NEW k \in Conns, NEW o \in Orgs
    PROVE  /\ Before(k) => /\ Added(k, o) = {} /\ ~Gone(k, Client(o))
                           /\ Client(o) \notin DOMAIN undo[k]
           /\ Before(k)' => /\ Added(k, o)' = {} /\ ~Gone(k, Client(o))'
                            /\ Client(o) \notin DOMAIN undo'[k] /\ Grown(k, o)'
  BY DEF Before, Added, Gone, Client, Contract, Money, Grown

\* A quiet statement leaves clients and contracts alone.
LEMMA QuietStep ==
    ASSUME RowTypes, NEW r \in Requests, NEW k \in Conns, NEW st \in Statement,
           Blockers(k, st) = {}, ~Refuses(k, st), Effect(k, Writes(r, k, st)),
           Before(k), Quiet(st)
    PROVE  Before(k)'
<1> DEFINE new == Writes(r, k, st)
<1>1. \A key \in DOMAIN new : key[1] \notin Money
  <2>1. CASE st.do \in {"select", "exists", "free"}
    BY <2>1, WritesWhat
  <2>2. CASE st.do \in {"insert", "upsert", "change"} /\ st.key[1] \notin Money
    <3>1. DOMAIN new \subseteq {st.key}
      BY <2>2, WritesWhat
    <3> QED  BY <2>2, <3>1
  <2> QED  BY <2>1, <2>2 DEF Quiet
<1>2. DOMAIN undo'[k] = DOMAIN undo[k] \cup DOMAIN new
  BY DEF Effect
<1> QED  BY <1>1, <1>2 DEF Before

\* A row that is taken takes those that refer to it with it.
LEMMA TakenTakes ==
    ASSUME RowsShaped, NEW k \in Conns, NEW key \in Keys, NEW o \in Orgs, NEW n \in Numbers,
           Client(o) \in Taken(k, key), Counted(Seen(k, Contract(n)), o)
    PROVE  Contract(n) \in Taken(k, key)
<1> DEFINE Below(S) == {l \in Keys : Seen(k, l) # Absent /\ Parents(l, Seen(k, l)) \cap S # {}}
<1>1. Taken(k, key) = {key} \cup Below({key}) \cup Below(Below({key}))
  BY DEF Taken
<1>2. Contract(n) \in Keys /\ Client(o) \in Keys
  BY KeysTyped
<1>3. /\ Seen(k, Contract(n)) # Absent
      /\ Parents(Contract(n), Seen(k, Contract(n))) = {Org(o), Client(o)}
  BY TenancyAssumption DEF Counted, Absent, Parents, Contract, Org, Client
<1>4. \A S : Client(o) \in S \/ Org(o) \in S => Contract(n) \in Below(S)
  BY <1>2, <1>3
<1>5. CASE Client(o) \in {key} \cup Below({key})
  BY <1>1, <1>4, <1>5
<1>6. CASE Client(o) \in Below(Below({key}))
  <2>1. Seen(k, Client(o)) # Absent /\ Seen(k, Client(o)).client = None
        /\ Seen(k, Client(o)).org = o
    BY <1>2, <1>6, SeenShaped DEF Shaped, Client
  <2>2. Parents(Client(o), Seen(k, Client(o))) = {Org(o)}
    BY <2>1 DEF Parents, Client, Org
  <2>3. Org(o) \in Below({key})
    BY <1>6, <2>2
  <2> QED  BY <1>1, <1>4, <2>3
<1> QED  BY <1>1, <1>5, <1>6

\* The one statement about clients and contracts of a handler, whichever it is,
\* makes no contract; if it deletes a client, the contracts go with it.
LEMMA SoleStep ==
    ASSUME RowTypes, Disjoint, RowsShaped, NEW r \in Requests, NEW k \in Conns,
           NEW st \in Statement, Blockers(k, st) = {}, ~Refuses(k, st),
           Effect(k, Writes(r, k, st)), \A key \in Keys : Committed(key)' = Committed(key),
           Before(k), Sole(st)
    PROVE  Books(k)' /\ Complete(k)'
<1> DEFINE new == Writes(r, k, st)
           old == Seen(k, st.key)
<1>1. /\ \A key \in DOMAIN new : db'[key] = new[key] /\ key \in Keys
      /\ \A key \in DOMAIN undo'[k] :
           key[1] \in Money => key \in DOMAIN new /\ undo'[k][key] = db[key]
  BY DEF Effect, Before
<1>2. /\ \A n : Contract(n)[1] = "contracts"
      /\ \A o : Client(o)[1] = "clients" /\ Client(o)[2] = o
  BY DEF Contract, Client
<1>3. st.do # "select" => st.key \in Keys
  BY DEF Statement
<1>4. CASE st.do = "insert" /\ st.key[1] = "clients"
  <2>1. DOMAIN new = {st.key} /\ old = Absent /\ Written(k, {st.key}) = {}
    BY <1>4, WritesWhat
  <2>2. db[st.key] = Absent
    BY <2>1, SeenIs
  <2>3. \A n \in Numbers : Contract(n) \notin DOMAIN undo'[k]
    BY <1>1, <1>2, <1>4, <2>1 DEF Money
  <2>4. \A o \in Orgs : Client(o) \in DOMAIN undo'[k] => undo'[k][Client(o)] = Absent
    BY <1>1, <1>2, <2>1, <2>2 DEF Money
  <2>5. \A o \in Orgs : Added(k, o)' = {}
    BY <2>3 DEF Added
  <2> QED  BY <2>4, <2>5 DEF Books, Complete, Gone, Grown
<1>5. CASE st.do = "change" /\ st.key[1] \in Money /\ st.how # "count"
  <2>1. /\ DOMAIN new = {st.key} /\ Written(k, {st.key}) = {} /\ old \in Row
        /\ new[st.key] = [Changed(old, st.how) EXCEPT !.by = r]
    BY <1>5, WritesWhat
  <2>2. old = db[st.key]
    BY <2>1, SeenIs
  <2>3. /\ new[st.key].org = old.org /\ new[st.key].client = old.client
        /\ new[st.key].total = old.total /\ (old.byHand => new[st.key].byHand)
    BY <1>5, <2>1 DEF Changed, Row
  <2>4. \A o \in Orgs : Added(k, o)' = {}
    <3>1. ASSUME NEW o \in Orgs, NEW n \in Numbers, Contract(n) \in DOMAIN undo'[k]
          PROVE  Counted(db'[Contract(n)], o) <=> Counted(undo'[k][Contract(n)], o)
      <4>1. Contract(n) \in DOMAIN new /\ undo'[k][Contract(n)] = db[Contract(n)]
        BY <1>1, <1>2, <3>1 DEF Money
      <4>2. Contract(n) = st.key
        BY <2>1, <4>1
      <4>3. db'[Contract(n)] = new[st.key]
        BY <1>1, <4>1, <4>2
      <4> HIDE DEF new, old
      <4> QED  BY <2>2, <2>3, <4>1, <4>2, <4>3 DEF Counted
    <3> QED  BY <3>1 DEF Added
  <2>5. ASSUME NEW o \in Orgs, Client(o) \in DOMAIN undo'[k]
        PROVE  /\ db'[Client(o)] # Absent
               /\ db'[Client(o)].total = undo'[k][Client(o)].total
               /\ undo'[k][Client(o)].byHand => db'[Client(o)].byHand
               /\ undo'[k][Client(o)].total \in Nat
    <3>1. Client(o) = st.key /\ db'[Client(o)] = new[st.key] /\ undo'[k][Client(o)] = old
      BY <1>1, <1>2, <2>1, <2>2, <2>5 DEF Money
    <3>2. new[st.key].by = r /\ Absent.by = Unset /\ r # Unset
      BY <2>1, TenancyAssumption, ChangedTyped DEF Absent
    <3>3. old.total \in Nat
      BY <2>1 DEF Row
    <3> HIDE DEF new, old
    <3> QED  BY <2>3, <3>1, <3>2, <3>3
  <2>6. \A o \in Orgs : ~Gone(k, Client(o))'
    BY <2>5 DEF Gone
  <2>7. Cardinality({}) = 0
    BY FS_EmptySet
  <2>8. \A o \in Orgs : Grown(k, o)'
    <3> SUFFICES ASSUME NEW o \in Orgs, Client(o) \in DOMAIN undo'[k], ~db'[Client(o)].byHand
                 PROVE  /\ ~undo'[k][Client(o)].byHand
                        /\ undo'[k][Client(o)].total + Cardinality(Added(k, o)')
                             <= db'[Client(o)].total
      BY DEF Grown
    <3>1. Cardinality(Added(k, o)') = 0
      BY <2>4, <2>7
    <3> QED  BY <2>5, <3>1
  <2> QED  BY <2>4, <2>6, <2>8 DEF Books, Complete
<1>6. CASE st.do = "remove"
  <2>1. DOMAIN new = Taken(k, st.key) /\ \A key \in DOMAIN new : new[key] = Absent
    BY <1>6, WritesWhat
  <2>2. \A o \in Orgs : ~Counted(Absent, o)
    BY TenancyAssumption DEF Counted, Absent
  <2>3. \A o \in Orgs : Added(k, o)' = {}
    BY <1>1, <1>2, <2>1, <2>2 DEF Added, Money
  <2>4. ASSUME NEW o \in Orgs, Gone(k, Client(o))', NEW n \in Counts(o)'
        PROVE  Contract(n) \in DOMAIN undo'[k] /\ ~Counted(db'[Contract(n)], o)
    <3>1. n \in Numbers /\ Counted(Committed(Contract(n)), o)
      BY <2>4, KeysTyped DEF Counts
    <3>2. Contract(n) \notin DOMAIN undo[k]
      BY <1>2 DEF Before, Money
    <3>3. Counted(Seen(k, Contract(n)), o)
      BY <3>1, <3>2, SeenIs
    <3>4. Client(o) \in Taken(k, st.key)
      BY <1>1, <1>2, <2>1, <2>4 DEF Gone, Money
    <3>5. Contract(n) \in DOMAIN new
      BY <1>3, <1>6, <2>1, <3>1, <3>3, <3>4, TakenTakes
    <3>6. db'[Contract(n)] = Absent
      BY <1>1, <2>1, <3>5
    <3>7. Contract(n) \in DOMAIN undo'[k]
      BY <3>5 DEF Effect
    <3> QED  BY <2>2, <3>6, <3>7
  <2>5. \A o \in Orgs : Grown(k, o)'
    <3>1. \A o \in Orgs : Client(o) \in DOMAIN undo'[k] => db'[Client(o)] = Absent
      BY <1>1, <1>2, <2>1 DEF Money
    <3> QED  BY <3>1 DEF Grown
  <2> QED  BY <2>3, <2>4, <2>5 DEF Books, Complete
<1> QED  BY <1>4, <1>5, <1>6 DEF Sole

\* The insert of ContractCreate: the client is there, and stays.
LEMMA CreateStep ==
    ASSUME RowTypes, Disjoint, NEW r \in Requests, NEW k \in Conns,
           NEW n \in Numbers, NEW o \in Orgs, NEW c \in Orgs, NEW st \in Statement,
           st = Insert(Contract(n), NewRow(o, c)),
           Blockers(k, st) = {}, ~Refuses(k, st), Effect(k, Writes(r, k, st)),
           \A key \in Keys : Committed(key)' = Committed(key), Before(k),
           shared'[k] = shared[k] \cup Parents(st.key, st.row), settings' = settings
    PROVE  Books(k)' /\ Half(k, n, o, c)'
<1> DEFINE new == Writes(r, k, st)
<1>0. st.do = "insert" /\ st.key = Contract(n) /\ st.row = NewRow(o, c)
  BY DEF Insert
<1>1. DOMAIN new = {Contract(n)} /\ new[Contract(n)] = [NewRow(o, c) EXCEPT !.by = r]
  BY <1>0, WritesWhat
<1>2. /\ db'[Contract(n)] = new[Contract(n)]
      /\ DOMAIN undo'[k] = DOMAIN undo[k] \cup {Contract(n)}
  BY <1>1, KeysTyped DEF Effect
<1>3. db'[Contract(n)].org = o /\ db'[Contract(n)].client = c
  BY <1>1, <1>2 DEF NewRow
<1>4. /\ \A x : Client(x)[1] = "clients" /\ Client(x) # Contract(n)
      /\ \A m : Contract(m)[1] = "contracts" /\ (Contract(m) = Contract(n) => m = n)
  BY DEF Client, Contract
<1>5. \A key \in DOMAIN undo'[k] : key[1] \in Money => key = Contract(n)
  BY <1>2 DEF Before
<1>6. \A x \in Orgs : Client(x) \notin DOMAIN undo'[k] /\ Client(x) \notin DOMAIN undo[k]
  BY <1>2, <1>4, <1>5 DEF Money
<1>7. ASSUME NEW x \in Orgs, Added(k, x)' # {}
      PROVE  Client(x) \in shared'[k] /\ Committed(Client(x))' # Absent
  <2>1. PICK m \in Numbers : Contract(m) \in DOMAIN undo'[k] /\ Counted(db'[Contract(m)], x)
    BY <1>7 DEF Added
  <2>2. m = n
    BY <1>4, <1>5, <2>1 DEF Money
  <2>3. x = c
    BY <1>3, <2>1, <2>2 DEF Counted
  <2>4. Client(c) \in Parents(st.key, st.row)
    <3>1. st.row.client = c /\ c # None
      BY <1>0, TenancyAssumption DEF NewRow
    <3> QED  BY <3>1 DEF Parents, Client
  <2>5. Seen(k, Client(c)) # Absent
    BY <1>0, <2>4 DEF Refuses
  <2>6. Committed(Client(c)) # Absent
    BY <1>6, <2>5, SeenIs
  <2> QED  BY <2>3, <2>4, <2>6, KeysTyped
<1>8. Books(k)'
  BY <1>6, <1>7 DEF Books, Gone, Grown
<1>9. o = c => settings'[k].skip = "true" \/ settings'[k].org = c
  <2>1. Sees(k, st.key, st.row)
    BY <1>0 DEF Refuses
  <2> QED  BY <1>0, <1>4, <2>1, TenancyAssumption DEF Sees, NewRow
<1> QED  BY <1>2, <1>3, <1>5, <1>8, <1>9 DEF Half

\* The update of ContractCreate: the contract just made is counted, if it counts.
LEMMA AdjustStep ==
    ASSUME RowTypes, Disjoint, RowsShaped, NEW r \in Requests, NEW k \in Conns,
           NEW n \in Numbers, NEW o \in Orgs, NEW c \in Orgs, NEW st \in Statement,
           st = Adjust(Client(c), "count"),
           Blockers(k, st) = {}, ~Refuses(k, st), Effect(k, Writes(r, k, st)),
           \A key \in Keys : Committed(key)' = Committed(key), Half(k, n, o, c), Books(k),
           shared[k] \subseteq shared'[k]
    PROVE  Books(k)' /\ Complete(k)'
<1> DEFINE new == Writes(r, k, st)
           old == Seen(k, Client(c))
<1>0. st.do = "adjust" /\ st.key = Client(c) /\ st.how = "count"
  BY DEF Adjust
<1>1. \/ DOMAIN new = {} /\ ~Sees(k, Client(c), old)
      \/ /\ DOMAIN new = {Client(c)} /\ Written(k, {Client(c)}) = {} /\ old \in Row
         /\ new[Client(c)] = [Changed(old, "count") EXCEPT !.by = r]
  <2>1. \/ DOMAIN new = {}
        \/ /\ DOMAIN new = {st.key} /\ Written(k, {st.key}) = {} /\ Seen(k, st.key) \in Row
           /\ new[st.key] = [Changed(Seen(k, st.key), st.how) EXCEPT !.by = r]
    BY <1>0, WritesWhat
  <2>2. DOMAIN new = {st.key} \/ ~Sees(k, st.key, Seen(k, st.key))
    BY <1>0, WritesWhat
  <2> HIDE DEF new
  <2>3. \/ DOMAIN new = {} /\ ~Sees(k, st.key, Seen(k, st.key))
        \/ /\ DOMAIN new = {st.key} /\ Written(k, {st.key}) = {} /\ Seen(k, st.key) \in Row
           /\ new[st.key] = [Changed(Seen(k, st.key), st.how) EXCEPT !.by = r]
    BY <2>1, <2>2
  <2> QED  BY <1>0, <2>3, Zenon
<1>2. /\ \A key \in DOMAIN new : db'[key] = new[key]
      /\ \A key \in Keys \ DOMAIN new : db'[key] = db[key]
      /\ DOMAIN undo'[k] = DOMAIN undo[k] \cup DOMAIN new
      /\ \A key \in DOMAIN undo'[k] :
           undo'[k][key] = IF key \in DOMAIN undo[k] THEN undo[k][key] ELSE db[key]
  BY DEF Effect
<1> HIDE DEF new
<1>4. /\ \A x : Client(x)[1] = "clients" /\ (Client(x) = Client(c) => x = c)
      /\ \A m : Contract(m)[1] = "contracts" /\ Client(c) # Contract(m)
      /\ \A m : Contract(m) = Contract(n) => m = n
  BY DEF Client, Contract
<1>5. \A x \in Orgs : /\ Client(x) \notin DOMAIN undo[k]
                      /\ Client(x) \in DOMAIN undo'[k] => x = c /\ Client(x) \in DOMAIN new
  BY <1>1, <1>2, <1>4 DEF Half, Money
<1>6. \A x \in Orgs : Added(k, x)' = Added(k, x)
  BY <1>1, <1>2, <1>4, KeysTyped DEF Added
<1>7. \A x \in Orgs : Added(k, x) \subseteq {n} /\ (Added(k, x) # {} => x = c /\ o = c)
  BY <1>4 DEF Added, Half, Money, Counted
<1>8. ASSUME DOMAIN new # {}
      PROVE  /\ old.total \in Nat /\ new[Client(c)].total = old.total + 1
             /\ new[Client(c)].byHand = old.byHand /\ new[Client(c)] # Absent
             /\ undo'[k][Client(c)] = old /\ db'[Client(c)] = new[Client(c)]
             /\ Client(c) \in DOMAIN undo'[k]
  <2>1. old \in Row /\ new[Client(c)] = [Changed(old, "count") EXCEPT !.by = r]
    BY <1>1, <1>8
  <2>2. /\ new[Client(c)].total = old.total + 1 /\ new[Client(c)].byHand = old.byHand
        /\ old.total \in Nat
    BY <2>1 DEF Changed, Row
  <2>3. new[Client(c)].by = r
    BY <2>1, ChangedTyped
  <2>4. new[Client(c)] # Absent
    BY <2>3, TenancyAssumption DEF Absent
  <2>5. old = db[Client(c)]
    <3>1. Written(k, {Client(c)}) = {}
      BY <1>1, <1>8
    <3> QED  BY <3>1, SeenIs
  <2>6. undo'[k][Client(c)] = old
    BY <1>1, <1>2, <1>5, <1>8, <2>5
  <2> QED  BY <1>1, <1>2, <1>8, <2>2, <2>4, <2>6
<1>9. \A x \in Orgs : ~Gone(k, Client(x))'
  BY <1>5, <1>8 DEF Gone
<1>10. \A x \in Orgs : Cardinality(Added(k, x)) \in {0, 1}
  <2>1. Cardinality({}) = 0 /\ Cardinality({n}) = 1
    BY FS_EmptySet, FS_Singleton
  <2>2. \A x \in Orgs : Added(k, x) = {} \/ Added(k, x) = {n}
    BY <1>7
  <2> QED  BY <2>1, <2>2
<1>11. ASSUME NEW x \in Orgs PROVE Grown(k, x)'
  <2> SUFFICES ASSUME Client(x) \in DOMAIN undo'[k], ~db'[Client(x)].byHand
               PROVE  /\ ~undo'[k][Client(x)].byHand
                      /\ undo'[k][Client(x)].total + Cardinality(Added(k, x)')
                           <= db'[Client(x)].total
    BY DEF Grown
  <2>1. x = c /\ DOMAIN new # {}
    BY <1>5
  <2> HIDE DEF old
  <2>2. Cardinality(Added(k, x)') \in {0, 1}
    BY <1>6, <1>10
  <2> QED  BY <1>8, <2>1, <2>2
<1>12. ASSUME NEW x \in Orgs, Added(k, x)' # {}
       PROVE  /\ Client(x) \in shared'[k] /\ Committed(Client(x))' # Absent
              /\ Client(x) \in DOMAIN undo'[k]
  <2>1. x = c /\ o = c /\ Added(k, x) # {}
    BY <1>6, <1>7, <1>12
  <2>2. Client(c) \in shared[k] /\ Committed(Client(c)) # Absent
    BY <2>1 DEF Books
  <2>3. old # Absent
    BY <1>0, <1>5, <2>2, SeenIs
  <2>4. old.org = c
    BY <1>0, <2>3, SeenShaped, KeysTyped DEF Shaped, Client
  <2>5. Sees(k, Client(c), old)
    BY <2>1, <2>3, <2>4 DEF Half, Sees
  <2>6. DOMAIN new # {}
    BY <1>1, <2>5
  <2> QED  BY <1>8, <2>1, <2>2, <2>6, KeysTyped
<1> QED  BY <1>9, <1>11, <1>12 DEF Books, Complete

\* The row that a statement other than a removal writes.
LEMMA WritesOne ==
    ASSUME RowTypes, NEW r \in Requests, NEW k \in Conns, NEW st \in Statement,
           Blockers(k, st) = {}, ~Refuses(k, st), st.do # "remove",
           NEW key, key \in DOMAIN Writes(r, k, st)
    PROVE  /\ key = st.key /\ key \in Keys /\ Writes(r, k, st)[key] \in Row
           /\ \/ /\ st.do \in {"insert", "upsert"}
                 /\ Writes(r, k, st)[key] = [st.row EXCEPT !.by = r]
              \/ /\ Seen(k, st.key) \in Row
                 /\ Writes(r, k, st)[key] = [Changed(Seen(k, st.key), st.how) EXCEPT !.by = r]
<1> DEFINE new == Writes(r, k, st)
           old == Seen(k, st.key)
<1>1. \/ DOMAIN new = {}
      \/ /\ DOMAIN new = {st.key} /\ st.key \in Keys /\ new[st.key] \in Row
         /\ \/ st.do \in {"insert", "upsert"} /\ new[st.key] = [st.row EXCEPT !.by = r]
            \/ old \in Row /\ new[st.key] = [Changed(old, st.how) EXCEPT !.by = r]
  BY WritesWhat
<1> HIDE DEF new
<1>2. DOMAIN new = {st.key}
  BY <1>1 DEF new
<1>3. key = st.key
  BY <1>2 DEF new
<1> QED  BY <1>1, <1>2, <1>3 DEF new

\* What a statement writes is shaped like what it replaces, or like its new row.
LEMMA ShapedStep ==
    ASSUME RowTypes, RowsShaped, NEW r \in Requests, NEW k \in Conns, NEW st \in Statement,
           Blockers(k, st) = {}, ~Refuses(k, st), Effect(k, Writes(r, k, st)),
           st.do \in {"insert", "upsert"} => Shaped(st.key, st.row)
    PROVE  RowsShaped'
<1> DEFINE new == Writes(r, k, st)
           old == Seen(k, st.key)
<1>1. ASSUME NEW key \in DOMAIN new PROVE Shaped(key, new[key])
  <2>1. CASE st.do = "remove"
    <3>1. new[key] = Absent
      BY <1>1, <2>1, WritesWhat
    <3> QED  BY <3>1 DEF Shaped
  <2>2. CASE /\ st.do \in {"insert", "upsert"} /\ key = st.key
             /\ new[key] = [st.row EXCEPT !.by = r]
    <3>1. st.row \in Row /\ st.row.by # Unset
      BY <2>2, TenancyAssumption DEF Statement, Row
    <3>2. st.row # Absent
      BY <3>1 DEF Absent
    <3>3. new[key].org = st.row.org /\ new[key].client = st.row.client
      BY <2>2, <3>1 DEF Row
    <3> QED  BY <2>2, <3>2, <3>3 DEF Shaped
  <2>3. CASE /\ key = st.key /\ key \in Keys /\ old \in Row
             /\ new[key] = [Changed(old, st.how) EXCEPT !.by = r]
    <3>1. old.by # Unset
      BY <2>3, TenancyAssumption DEF Row
    <3>2. old # Absent
      BY <3>1 DEF Absent
    <3>3. new[key].org = old.org /\ new[key].client = old.client
      BY <2>3 DEF Changed, Row
    <3>4. Shaped(key, old)
      BY <2>3, SeenShaped
    <3> QED  BY <3>2, <3>3, <3>4 DEF Shaped
  <2>4. st.do # "remove" =>
          /\ key = st.key /\ key \in Keys
          /\ \/ st.do \in {"insert", "upsert"} /\ new[key] = [st.row EXCEPT !.by = r]
             \/ old \in Row /\ new[key] = [Changed(old, st.how) EXCEPT !.by = r]
    BY <1>1, WritesOne
  <2> HIDE DEF new, old
  <2> QED  BY <2>1, <2>2, <2>3, <2>4
<1> HIDE DEF new
<1>2. /\ \A key \in Keys : db'[key] = IF key \in DOMAIN new THEN new[key] ELSE db[key]
      /\ \A j \in Conns : j # k => undo'[j] = undo[j]
      /\ DOMAIN undo'[k] = DOMAIN undo[k] \cup DOMAIN new
      /\ \A key \in DOMAIN undo'[k] :
           undo'[k][key] = IF key \in DOMAIN undo[k] THEN undo[k][key] ELSE db[key]
      /\ DOMAIN new \subseteq Keys
  BY DEF Effect, new
<1>3. \A key \in Keys : Shaped(key, db'[key])
  BY <1>1, <1>2 DEF RowsShaped
<1>4. \A j \in Conns : \A key \in DOMAIN undo'[j] : Shaped(key, undo'[j][key])
  <2> SUFFICES ASSUME NEW j \in Conns, NEW key \in DOMAIN undo'[j]
               PROVE  Shaped(key, undo'[j][key])
    OBVIOUS
  <2>1. CASE j # k
    BY <1>2, <2>1 DEF RowsShaped
  <2>2. CASE j = k
    BY <1>2, <2>2 DEF RowsShaped
  <2> QED  BY <2>1, <2>2
<1> QED  BY <1>3, <1>4 DEF RowsShaped

\* A transaction deletes no client another refers to, and refers to none another
\* has deleted.
LEMMA PinsStep ==
    ASSUME RowTypes, Pins, NEW r \in Requests, NEW k \in Conns, NEW st \in Statement,
           Blockers(k, st) = {}, ~Refuses(k, st), Effect(k, Writes(r, k, st)),
           shared' = [shared EXCEPT ![k] =
                        IF st.do \in {"insert", "upsert"} THEN @ \cup Parents(st.key, st.row)
                        ELSE @]
    PROVE  Pins'
<1> DEFINE new == Writes(r, k, st)
<1> SUFFICES ASSUME NEW i \in Conns, NEW j \in Conns, NEW o \in Orgs, i # j,
                    Client(o) \in shared'[i], Gone(j, Client(o))'
             PROVE  FALSE
  BY DEF Pins
<1>0. Client(o) \in Keys
  BY KeysTyped
<1>1. CASE j # k
  <2>1. undo'[j] = undo[j] /\ db'[Client(o)] = db[Client(o)]
    BY <1>0, <1>1 DEF Effect, Gone
  <2>2. Gone(j, Client(o))
    BY <2>1 DEF Gone
  <2>3. Client(o) \notin shared[i]
    BY <2>2 DEF Pins
  <2>4. i = k /\ st.do \in {"insert", "upsert"} /\ Client(o) \in Parents(st.key, st.row)
    BY <2>3 DEF RowTypes
  <2>5. j \in Deleted(k, Parents(st.key, st.row))
    BY <1>1, <2>2, <2>4 DEF Deleted, Others, Gone
  <2> QED  BY <2>4, <2>5 DEF Blockers
<1>2. CASE j = k
  <2>1. shared'[i] = shared[i]
    BY <1>2 DEF RowTypes
  <2>2. CASE Client(o) \in DOMAIN new
    <3>1. new[Client(o)] = Absent
      BY <1>0, <1>2, <2>2 DEF Effect, Gone
    <3>2. st.do = "remove"
      <4> SUFFICES ASSUME st.do # "remove" PROVE FALSE
        OBVIOUS
      <4>1. new[Client(o)] \in Row
        BY <2>2, WritesOne
      <4>2. new[Client(o)].by # Unset
        BY <4>1, TenancyAssumption DEF Row
      <4> QED  BY <3>1, <4>2 DEF Absent
    <3>3. Client(o) \in Taken(k, st.key) /\ Pinned(k, Taken(k, st.key)) = {}
      BY <2>2, <3>2, WritesWhat
    <3> QED  BY <1>2, <2>1, <3>3 DEF Pinned, Others
  <2>3. CASE Client(o) \notin DOMAIN new
    <3>1. Gone(k, Client(o))
      BY <1>0, <1>2, <2>3 DEF Effect, Gone
    <3> QED  BY <1>2, <2>1, <3>1 DEF Pins
  <2> QED  BY <2>2, <2>3
<1> QED  BY <1>1, <1>2

\* What a handler may be about to do: the next statement, and those that follow.
Due(k, st, rest) ==
    \/ Before(k) /\ Quiet(st) /\ (Simple(rest) \/ Creates(rest))
    \/ Before(k) /\ Sole(st) /\ rest = << >>
    \/ \E n \in Numbers, o, c \in Orgs :
         \/ /\ Before(k) /\ st = Insert(Contract(n), NewRow(o, c))
            /\ rest = <<Adjust(Client(c), "count")>>
         \/ Half(k, n, o, c) /\ st = Adjust(Client(c), "count") /\ rest = << >>

\* The rest of a handler is due.
LEMMA RestIsDue ==
    ASSUME NEW k, NEW h \in Seq(Statement), h # << >>, Stage(k, h)
    PROVE  Due(k, Head(h), Tail(h))
<1>1. CASE Before(k) /\ Simple(h)
  <2>1. /\ Len(h) \in Nat \ {0} /\ Head(h) = h[1] /\ 1 \in DOMAIN h
        /\ DOMAIN Tail(h) = 1 .. (Len(h) - 1) /\ Len(Tail(h)) = Len(h) - 1
        /\ \A i \in DOMAIN Tail(h) : Tail(h)[i] = h[i + 1] /\ i + 1 \in DOMAIN h
    OBVIOUS
  <2>2. Quiet(Head(h)) \/ (Sole(Head(h)) /\ Tail(h) = << >>)
    <3>1. \A s \in Seq(Statement) : Len(s) = 0 => s = << >>
      OBVIOUS
    <3>2. Tail(h) \in Seq(Statement)
      OBVIOUS
    <3> QED  BY <1>1, <2>1, <3>1, <3>2 DEF Simple
  <2>3. Simple(Tail(h))
    BY <1>1, <2>1 DEF Simple
  <2> QED  BY <1>1, <2>2, <2>3 DEF Due
<1>2. CASE Before(k) /\ Creates(h)
  BY <1>2 DEF Creates, Due
<1>3. CASE \E n \in Numbers, o, c \in Orgs :
             Half(k, n, o, c) /\ h = <<Adjust(Client(c), "count")>>
  BY <1>3 DEF Due
<1> QED  BY <1>1, <1>2, <1>3 DEF Stage

\* A handler starts with a quiet statement, or its only one.
LEMMA StartIsDue ==
    ASSUME NEW k, NEW h \in Handlers, h # << >>, Before(k)
    PROVE  Due(k, Head(h), Tail(h))
<1>1. CASE Simple(h)
  BY <1>1, HandlersTyped, RestIsDue DEF Stage
<1>2. CASE h \in ContractCreate
  <2>1. PICK n \in Numbers, o \in Orgs, c \in Orgs :
          h = <<Free(Contract(n)), Insert(Contract(n), NewRow(o, c)), Adjust(Client(c), "count")>>
    BY <1>2 DEF ContractCreate
  <2>2. /\ Head(h) = Free(Contract(n))
        /\ Tail(h) = <<Insert(Contract(n), NewRow(o, c)), Adjust(Client(c), "count")>>
    BY <2>1
  <2>3. Creates(Tail(h))
    BY <2>2 DEF Creates
  <2> QED  BY <2>2, <2>3, QuietOnes DEF Due
<1> QED  BY <1>1, <1>2, HandlersSimple

\* A request whose statements are about to begin has written nothing.
LEMMA ReadyBefore ==
    ASSUME Inv, RowInv, NEW r \in Requests, at[r] = "ready"
    PROVE  Before(conn[r])
  BY TenancyAssumption DEF Inv, PoolInv, PhaseInv, Holding, RowInv, OpenRuns, Before

\* An executed statement keeps the books of its own transaction.
LEMMA OwnBooks ==
    ASSUME RowInv, ContractInv, Disjoint', NEW r \in Requests, NEW k \in Conns,
           NEW st \in Statement, NEW rest, Due(k, st, rest),
           Blockers(k, st) = {}, ~Refuses(k, st), Effect(k, Writes(r, k, st)),
           shared' = [shared EXCEPT ![k] =
                        IF st.do \in {"insert", "upsert"} THEN @ \cup Parents(st.key, st.row)
                        ELSE @],
           settings' = settings
    PROVE  Books(k)' /\ Stage(k, rest)'
<1>0. /\ \A key \in Keys : Committed(key)' = Committed(key)
      /\ RowTypes /\ Disjoint /\ RowsShaped /\ Books(k)
  BY EffectCommits DEF RowInv, ContractInv
<1>1. CASE Before(k) /\ Quiet(st) /\ (Simple(rest) \/ Creates(rest))
  <2>1. Before(k)'
    BY <1>0, <1>1, QuietStep
  <2>2. Books(k)'
    BY <2>1, BooksBefore DEF Books
  <2>3. (Simple(rest) \/ Creates(rest))'
    BY <1>1 DEF Simple, Creates, Quiet, Sole, Shaped
  <2> QED  BY <2>1, <2>2, <2>3 DEF Stage
<1>2. CASE Before(k) /\ Sole(st) /\ rest = << >>
  BY <1>0, <1>2, SoleStep DEF Stage
<1>3. ASSUME NEW n \in Numbers, NEW o \in Orgs, NEW c \in Orgs, Before(k),
             st = Insert(Contract(n), NewRow(o, c)), rest = <<Adjust(Client(c), "count")>>
      PROVE  Books(k)' /\ Stage(k, rest)'
  <2>1. st.do = "insert"
    BY <1>3 DEF Insert
  <2>2. shared'[k] = shared[k] \cup Parents(st.key, st.row)
    BY <1>0, <2>1 DEF RowTypes
  <2>3. Books(k)' /\ Half(k, n, o, c)'
    BY <1>0, <1>3, <2>2, CreateStep
  <2> QED  BY <1>3, <2>3 DEF Stage
<1>4. ASSUME NEW n \in Numbers, NEW o \in Orgs, NEW c \in Orgs, Half(k, n, o, c),
             st = Adjust(Client(c), "count"), rest = << >>
      PROVE  Books(k)' /\ Stage(k, rest)'
  <2>1. shared[k] \subseteq shared'[k]
    BY <1>0 DEF RowTypes
  <2>2. Books(k)' /\ Complete(k)'
    BY <1>0, <1>4, <2>1, AdjustStep
  <2> QED  BY <1>4, <2>2 DEF Stage
<1> QED  BY <1>1, <1>2, <1>3, <1>4 DEF Due

\* An executed statement commits nothing, so what is counted stays as it is.
LEMMA CountedUntouched ==
    ASSUME Referred, ContractsCounted, \A key \in Keys : Committed(key)' = Committed(key)
    PROVE  Referred' /\ ContractsCounted'
<1>1. ASSUME NEW o \in Orgs
      PROVE  Counts(o)' = Counts(o) /\ Committed(Client(o))' = Committed(Client(o))
  BY KeysTyped DEF Counts
<1>2. Referred'
  BY <1>1 DEF Referred
<1>3. ContractsCounted'
  BY <1>1 DEF ContractsCounted
<1> QED  BY <1>2, <1>3

\* The other requests, when nobody touches their rows and their settings.
LEMMA StagesUntouched ==
    ASSUME Inv, RowInv, Stages, NEW r \in Requests,
           \A q \in Requests : q # r => /\ at'[q] = at[q] /\ conn'[q] = conn[q]
                                        /\ todo'[q] = todo[q],
           \A j \in Conns : j # conn[r] => undo'[j] = undo[j] /\ settings'[j] = settings[j],
           \A j \in Conns : j # conn[r] => \A key \in DOMAIN undo[j] : db'[key] = db[key],
           IF at'[r] = "running" THEN Stage(conn[r], todo[r])' ELSE todo'[r] = << >>
    PROVE  Stages'
<1> SUFFICES ASSUME NEW q \in Requests
             PROVE  IF at'[q] = "running" THEN Stage(conn[q], todo[q])' ELSE todo'[q] = << >>
  BY DEF Stages
<1>1. CASE q = r
  BY <1>1
<1>2. CASE q # r /\ at[q] # "running"
  BY <1>2 DEF Stages
<1>3. CASE q # r /\ at[q] = "running"
  <2>1. conn[q] \in Conns /\ conn[q] # conn[r]
    BY <1>3 DEF Inv, PoolInv, PhaseInv, Holding
  <2>2. Stage(conn[q], todo[q])
    BY <1>3 DEF Stages
  <2> DEFINE j == conn[q]
             h == todo[q]
  <2>3. /\ undo'[j] = undo[j] /\ settings'[j] = settings[j]
        /\ \A key \in DOMAIN undo[j] : db'[key] = db[key]
    BY <2>1
  <2>4. conn'[q] = j /\ todo'[q] = h /\ at'[q] = "running"
    BY <1>3
  <2>5. Stage(conn[q], todo[q])'
    BY <2>1, <2>2, <2>3, <2>4, StageUntouched
  <2> QED  BY <2>4, <2>5
<1> QED  BY <1>1, <1>2, <1>3

\* A statement that is executed.
LEMMA ContractsExecuted ==
    ASSUME Inv, RowInv, ContractInv, NEW r \in Requests, at[r] \in {"ready", "running"},
           NEW st \in Statement, NEW rest, Execute(r, st, rest), ~Refuses(conn[r], st),
           Due(conn[r], st, rest)
    PROVE  ContractInv'
<1>0. PICK k \in Conns : k = conn[r]
  BY ExecuteHasEffect DEF Effect
<1>1. /\ Effect(k, Writes(r, k, st)) /\ Disjoint' /\ Blockers(k, st) = {} /\ Due(k, st, rest)
      /\ ~Refuses(k, st)
  BY <1>0, ExecuteHasEffect DEF Execute
<1>2. /\ shared' = [shared EXCEPT ![k] =
                      IF st.do \in {"insert", "upsert"} THEN @ \cup Parents(st.key, st.row)
                      ELSE @]
      /\ todo' = [todo EXCEPT ![r] = rest] /\ at' = [at EXCEPT ![r] = "running"]
      /\ UNCHANGED <<settings, conn>>
  BY <1>0, <1>1 DEF Execute
<1>3. Books(k)' /\ Stage(k, rest)'
  BY <1>1, <1>2, OwnBooks
<1>4. \A key \in Keys : Committed(key)' = Committed(key)
  BY <1>1, EffectCommits
<1>5. Referred' /\ ContractsCounted'
  BY <1>4, CountedUntouched DEF ContractInv
<1>6. st.do \in {"insert", "upsert"} => Shaped(st.key, st.row)
  <2>1. ASSUME NEW n \in Numbers, NEW o, NEW c, st = Insert(Contract(n), NewRow(o, c))
        PROVE  Shaped(st.key, st.row)
    BY <2>1 DEF Insert, Contract, Shaped
  <2>2. ASSUME NEW c, st = Adjust(Client(c), "count")
        PROVE  st.do = "adjust"
    BY <2>2 DEF Adjust
  <2> QED  BY <1>1, <2>1, <2>2 DEF Due, Quiet, Sole
<1>7. RowsShaped' /\ Pins'
  BY <1>1, <1>2, <1>6, ShapedStep, PinsStep DEF ContractInv, RowInv
<1>8. ASSUME NEW j \in Conns, j # k
      PROVE  /\ undo'[j] = undo[j] /\ \A key \in DOMAIN undo[j] : db'[key] = db[key]
             /\ shared'[j] = shared[j]
  <2>1. \A key \in DOMAIN undo[j] : key \in Keys
    BY DEF RowInv, RowTypes
  <2> QED  BY <1>1, <1>2, <1>8, <2>1 DEF Effect, RowInv, RowTypes
<1>9. \A j \in Conns : Books(j)'
  <2> SUFFICES ASSUME NEW j \in Conns, j # k PROVE Books(j)'
    BY <1>3
  <2>1. RowTypes /\ Books(j) /\ shared[j] \subseteq shared'[j]
    BY <1>8 DEF RowInv, ContractInv
  <2> QED  BY <1>4, <1>8, <2>1, BooksUntouched
<1>10. Stages'
  <2>1. /\ \A q \in Requests : q # r => /\ at'[q] = at[q] /\ conn'[q] = conn[q]
                                        /\ todo'[q] = todo[q]
        /\ at'[r] = "running" /\ conn'[r] = k /\ todo'[r] = rest
    BY <1>0, <1>2 DEF Inv, PhaseInv, RowInv, RowTypes
  <2>2. Stage(conn[r], todo[r])'
    BY <1>0, <1>3, <2>1
  <2>3. \A j \in Conns : j # conn[r] => undo'[j] = undo[j] /\ settings'[j] = settings[j]
    BY <1>0, <1>2, <1>8
  <2>4. \A j \in Conns : j # conn[r] => \A key \in DOMAIN undo[j] : db'[key] = db[key]
    BY <1>0, <1>8
  <2> QED  BY <2>1, <2>2, <2>3, <2>4, StagesUntouched DEF ContractInv
<1> QED  BY <1>5, <1>7, <1>9, <1>10 DEF ContractInv

\* How a transaction leaves its request.
LEMMA ReleaseFrames ==
    ASSUME Inv, RowInv, ContractInv, NEW r \in Requests, conn[r] # Nobody, NEW next,
           Release(r, next), next # "running",
           \A j \in Conns : j # conn[r] => \A key \in DOMAIN undo[j] : db'[key] = db[key]
    PROVE  /\ Stages' /\ conn[r] \in Conns /\ DOMAIN undo'[conn[r]] = {}
           /\ shared'[conn[r]] = {}
           /\ \A j \in Conns : j # conn[r] => undo'[j] = undo[j] /\ shared'[j] = shared[j]
           /\ \A j \in Conns : j # conn[r] =>
                \A o \in Orgs : Gone(j, Client(o))' <=> Gone(j, Client(o))
           /\ Pins'
<1> USE DEF Release
<1>0. conn[r] \in Conns
  BY DEF Inv, PoolInv
<1>1. /\ DOMAIN undo'[conn[r]] = {} /\ shared'[conn[r]] = {}
      /\ \A j \in Conns : j # conn[r] =>
           undo'[j] = undo[j] /\ shared'[j] = shared[j] /\ settings'[j] = settings[j]
  BY <1>0 DEF Inv, OwnSettings, SettingsOK, RowInv, RowTypes
<1>2. /\ \A q \in Requests : q # r => at'[q] = at[q] /\ conn'[q] = conn[q] /\ todo'[q] = todo[q]
      /\ at'[r] = next /\ todo'[r] = << >>
  BY DEF Inv, PhaseInv, PoolInv, RowInv, RowTypes
<1>3. Stages'
  BY <1>1, <1>2, StagesUntouched DEF ContractInv
<1> HIDE DEF Release
<1>4. ASSUME NEW j \in Conns, j # conn[r], NEW o \in Orgs
      PROVE  Gone(j, Client(o))' <=> Gone(j, Client(o))
  <2>1. undo'[j] = undo[j] /\ (Client(o) \in DOMAIN undo[j] => db'[Client(o)] = db[Client(o)])
    BY <1>1, <1>4
  <2> QED  BY <2>1 DEF Gone
<1>5. ASSUME NEW j \in Conns, j = conn[r], NEW o \in Orgs
      PROVE  ~Gone(j, Client(o))'
  BY <1>1, <1>5 DEF Gone
<1>6. Pins'
  <2> SUFFICES ASSUME NEW i \in Conns, NEW j \in Conns, NEW o \in Orgs, i # j,
                      Client(o) \in shared'[i], Gone(j, Client(o))'
               PROVE  FALSE
    BY DEF Pins
  <2>1. j # conn[r] /\ i # conn[r]
    BY <1>1, <1>5
  <2> QED  BY <1>1, <1>4, <2>1 DEF ContractInv, Pins
<1> QED  BY <1>0, <1>1, <1>3, <1>4, <1>6

\* A rollback: nothing is committed, and the books of its transaction are closed.
LEMMA ContractsRestored ==
    ASSUME Inv, RowInv, ContractInv, NEW r \in Requests, conn[r] # Nobody,
           NEW next, next # "running", Abort(r, next)
    PROVE  ContractInv'
<1>0. PICK k \in Conns : k = conn[r]
  BY AbortHasEffect
<1>1. /\ \A j \in Conns : j # k =>
           /\ undo'[j] = undo[j]
           /\ \A key \in DOMAIN undo[j] : key \in Keys /\ db'[key] = db[key]
      /\ \A key \in DOMAIN undo[k] : key \in Keys /\ db'[key] = undo[k][key]
      /\ \A key \in Keys \ DOMAIN undo[k] : db'[key] = db[key]
      /\ \A key \in Keys : Committed(key)' = Committed(key)
  BY <1>0, AbortHasEffect
<1>2. /\ Stages' /\ Pins' /\ DOMAIN undo'[k] = {}
      /\ \A j \in Conns : j # k => shared'[j] = shared[j]
  BY <1>0, <1>1, ReleaseFrames DEF Abort
<1>3. Referred' /\ ContractsCounted'
  BY <1>1, CountedUntouched DEF ContractInv
<1>4. RowsShaped'
  BY <1>1, <1>2 DEF ContractInv, RowsShaped, Shaped
<1>5. \A j \in Conns : Books(j)'
  <2> SUFFICES ASSUME NEW j \in Conns PROVE Books(j)'
    OBVIOUS
  <2>1. CASE j # k
    <3>1. RowTypes /\ Books(j) /\ shared[j] \subseteq shared'[j]
      BY <1>2, <2>1 DEF RowInv, ContractInv
    <3> QED  BY <1>1, <2>1, <3>1, BooksUntouched
  <2>2. CASE j = k
    <3>1. Before(j)'
      BY <1>2, <2>2 DEF Before
    <3> QED  BY <3>1, BooksBefore DEF Books
  <2> QED  BY <2>1, <2>2
<1> QED  BY <1>2, <1>3, <1>4, <1>5 DEF ContractInv

\* A commit: its books are in order, and become what is counted.
LEMMA ContractsKept ==
    ASSUME Inv, RowInv, ContractInv, NEW r \in Requests, conn[r] # Nobody,
           NEW next, next # "running", Release(r, next), db' = db, Complete(conn[r])
    PROVE  ContractInv'
<1>0. PICK k \in Conns : k = conn[r]
  BY DEF Inv, PoolInv
<1>1. /\ Stages' /\ Pins' /\ DOMAIN undo'[k] = {}
      /\ \A j \in Conns : j # k =>
           /\ undo'[j] = undo[j] /\ shared'[j] = shared[j]
           /\ \A o \in Orgs : Gone(j, Client(o))' <=> Gone(j, Client(o))
  BY <1>0, ReleaseFrames
<1>2. /\ Books(k) /\ Complete(k) /\ RowTypes /\ Disjoint
  BY <1>0 DEF ContractInv, RowInv
<1>3. RowsShaped'
  BY <1>1 DEF ContractInv, RowsShaped, Shaped
<1>4. Disjoint'
  BY <1>1, <1>2 DEF Disjoint
<1>5. ASSUME NEW key \in Keys
      PROVE  /\ key \in DOMAIN undo[k] => Committed(key)' = db[key] /\ Committed(key) = undo[k][key]
             /\ key \notin DOMAIN undo[k] => Committed(key)' = Committed(key)
  <2>1. CASE key \in DOMAIN undo[k]
    <3>1. \A j \in Conns : key \notin DOMAIN undo'[j]
      BY <1>1, <1>2, <2>1 DEF Disjoint
    <3>2. Committed(key)' = db'[key]
      BY <3>1 DEF Committed
    <3> QED  BY <1>2, <2>1, <3>2, CommittedIs
  <2>2. CASE key \notin DOMAIN undo[k]
    <3>1. CASE \E j \in Conns : key \in DOMAIN undo[j]
      <4>1. PICK j \in Conns : key \in DOMAIN undo[j]
        BY <3>1
      <4>2. undo'[j] = undo[j]
        BY <1>1, <2>2, <4>1
      <4>3. Committed(key) = undo[j][key]
        BY <1>2, <4>1, CommittedIs
      <4>4. Committed(key)' = undo'[j][key]
        BY <1>4, <4>1, <4>2 DEF Disjoint, Committed
      <4> QED  BY <2>2, <4>2, <4>3, <4>4
    <3>2. CASE \A j \in Conns : key \notin DOMAIN undo[j]
      BY <1>1, <2>2, <3>2 DEF Committed
    <3> QED  BY <3>1, <3>2
  <2> QED  BY <2>1, <2>2
<1>6. ASSUME NEW o \in Orgs
      PROVE  Counts(o)' \subseteq Counts(o) \cup Added(k, o)
  <2> SUFFICES ASSUME NEW n \in Numbers, Counted(Committed(Contract(n))', o), n \notin Counts(o)
               PROVE  n \in Added(k, o)
    BY DEF Counts
  <2>1. ~Counted(Committed(Contract(n)), o)
    BY DEF Counts
  <2> QED  BY <1>5, <2>1, KeysTyped DEF Added
<1>7. ASSUME NEW o \in Orgs, NEW n \in Counts(o)', n \in Counts(o)
      PROVE  ~Gone(k, Client(o))
  <2> SUFFICES ASSUME Gone(k, Client(o)) PROVE FALSE
    OBVIOUS
  <2>1. Contract(n) \in DOMAIN undo[k] /\ ~Counted(db[Contract(n)], o)
    BY <1>2, <1>7 DEF Books
  <2>2. n \in Numbers /\ Counted(Committed(Contract(n))', o)
    BY <1>7 DEF Counts
  <2> QED  BY <1>5, <2>1, <2>2, KeysTyped
<1>8. ASSUME NEW o \in Orgs, ~Gone(k, Client(o)), Committed(Client(o)) # Absent
      PROVE  Committed(Client(o))' # Absent
  BY <1>5, <1>8, KeysTyped DEF Gone
<1>9. Referred'
  <2> SUFFICES ASSUME NEW o \in Orgs, NEW n \in Counts(o)' PROVE Committed(Client(o))' # Absent
    BY DEF Referred
  <2>1. CASE n \in Counts(o)
    BY <1>7, <1>8, <2>1 DEF ContractInv, Referred
  <2>2. CASE n \in Added(k, o)
    BY <1>2, <1>8, <2>2 DEF Books
  <2> QED  BY <1>6, <2>1, <2>2
<1>10. ASSUME NEW o \in Orgs
       PROVE  /\ IsFiniteSet(Counts(o)) /\ IsFiniteSet(Added(k, o)) /\ IsFiniteSet(Counts(o)')
              /\ Cardinality(Counts(o)) \in Nat /\ Cardinality(Added(k, o)) \in Nat
              /\ Cardinality(Counts(o)') \in Nat
              /\ Cardinality(Counts(o)') <= Cardinality(Counts(o)) + Cardinality(Added(k, o))
              /\ Added(k, o) = {} => Cardinality(Counts(o)') <= Cardinality(Counts(o))
  <2>1. Counts(o) \subseteq Numbers /\ Added(k, o) \subseteq Numbers /\ Counts(o)' \subseteq Numbers
    BY DEF Counts, Added
  <2> DEFINE C == Counts(o)
             A == Added(k, o)
             D == Counts(o)'
  <2>2. IsFiniteSet(C) /\ IsFiniteSet(A) /\ IsFiniteSet(D)
    BY <2>1, FS_Subset, TenancyAssumption
  <2>3. D \subseteq C \cup A
    BY <1>6
  <2> HIDE DEF C, A, D
  <2>4. Cardinality(C) \in Nat /\ Cardinality(A) \in Nat /\ Cardinality(D) \in Nat
    BY <2>2, FS_CardinalityType
  <2>5. IsFiniteSet(C \cup A) /\ IsFiniteSet(C \cap A)
        /\ Cardinality(C \cup A) = Cardinality(C) + Cardinality(A) - Cardinality(C \cap A)
    BY <2>2, FS_Union, FS_Intersection
  <2>6. Cardinality(D) <= Cardinality(C \cup A)
    BY <2>3, <2>5, FS_Subset
  <2>7. Cardinality(C \cap A) \in Nat /\ Cardinality(C \cup A) \in Nat
    BY <2>5, FS_CardinalityType
  <2>8. A = {} => Cardinality(D) <= Cardinality(C)
    BY <2>2, <2>3, FS_Subset
  <2> QED  BY <2>2, <2>4, <2>5, <2>6, <2>7, <2>8 DEF C, A, D
<1>11. ContractsCounted'
  <2> SUFFICES ASSUME NEW o \in Orgs, Committed(Client(o))' # Absent, ~Committed(Client(o))'.byHand
               PROVE  Cardinality(Counts(o)') <= Committed(Client(o))'.total
    BY DEF ContractsCounted
  <2> DEFINE cl == Client(o)
  <2>0. cl \in Keys
    BY KeysTyped
  <2>1. CASE cl \notin DOMAIN undo[k]
    <3>1. Committed(cl)' = Committed(cl) /\ Added(k, o) = {}
      BY <1>2, <1>5, <2>0, <2>1 DEF Complete
    <3>2. Cardinality(Counts(o)) <= Committed(cl).total
      BY <3>1 DEF ContractInv, ContractsCounted
    <3>3. Committed(cl).total \in Nat
      <4>1. Committed(cl) \in Row \cup {Absent}
        BY <1>2, <2>0 DEF Committed, RowTypes
      <4> QED  BY <3>1, <4>1 DEF Row
    <3>4. Cardinality(Counts(o)') <= Cardinality(Counts(o))
      BY <1>10, <3>1
    <3> QED  BY <1>10, <3>1, <3>2, <3>3, <3>4
  <2>2. CASE cl \in DOMAIN undo[k]
    <3>1. /\ Committed(cl)' = db[cl] /\ Committed(cl) = undo[k][cl]
          /\ db[cl] # Absent /\ ~db[cl].byHand
      BY <1>5, <2>0, <2>2
    <3>2. db[cl].total \in Nat
      BY <1>2, <2>0, <3>1 DEF RowTypes, Row
    <3>3. CASE undo[k][cl] = Absent
      <4>1. Counts(o) = {} /\ Added(k, o) = {}
        BY <1>2, <3>1, <3>3 DEF ContractInv, Referred, Books
      <4>2. Cardinality(Counts(o)') = 0
        BY <1>6, <4>1, FS_EmptySet
      <4> QED  BY <3>1, <3>2, <4>2
    <3>4. CASE undo[k][cl] # Absent
      <4>1. /\ ~undo[k][cl].byHand
            /\ undo[k][cl].total + Cardinality(Added(k, o)) <= db[cl].total
        BY <1>2, <2>2, <3>1, <3>4 DEF Books, Grown
      <4>2. Cardinality(Counts(o)) <= undo[k][cl].total
        BY <3>1, <3>4, <4>1 DEF ContractInv, ContractsCounted
      <4>3. undo[k][cl].total \in Nat
        BY <1>2, <2>2, <3>4 DEF RowTypes, Row
      <4> HIDE DEF cl
      <4> QED  BY <1>10, <3>1, <3>2, <4>1, <4>2, <4>3 DEF cl
    <3> QED  BY <3>3, <3>4
  <2> QED  BY <2>1, <2>2
<1>12. ASSUME NEW j \in Conns PROVE Books(j)'
  <2>1. CASE j = k
    <3>1. Before(j)'
      BY <1>1, <2>1 DEF Before
    <3> QED  BY <3>1, BooksBefore DEF Books
  <2>2. CASE j # k
    <3> SUFFICES ASSUME NEW o \in Orgs
                 PROVE  /\ Added(j, o)' # {} => /\ Client(o) \in shared'[j]
                                                /\ Committed(Client(o))' # Absent
                                                /\ ~Gone(j, Client(o))'
                        /\ Gone(j, Client(o))' =>
                             \A n \in Counts(o)' : /\ Contract(n) \in DOMAIN undo'[j]
                                                   /\ ~Counted(db'[Contract(n)], o)
                        /\ Grown(j, o)'
      BY DEF Books
    <3>0. Books(j) /\ Pins /\ undo'[j] = undo[j] /\ shared'[j] = shared[j]
          /\ (Gone(j, Client(o))' <=> Gone(j, Client(o)))
      BY <1>1, <2>2 DEF ContractInv
    <3>1. Added(j, o)' = Added(j, o)
      BY <3>0 DEF Added
    <3>2. ASSUME Added(j, o)' # {}
          PROVE  /\ Client(o) \in shared'[j] /\ Committed(Client(o))' # Absent
                 /\ ~Gone(j, Client(o))'
      <4>1. Client(o) \in shared[j] /\ Committed(Client(o)) # Absent /\ ~Gone(j, Client(o))
        BY <3>0, <3>1, <3>2 DEF Books
      <4>2. ~Gone(k, Client(o))
        BY <2>2, <3>0, <4>1 DEF Pins
      <4> QED  BY <1>8, <3>0, <4>1, <4>2
    <3>3. ASSUME Gone(j, Client(o))', NEW n \in Counts(o)'
          PROVE  Contract(n) \in DOMAIN undo'[j] /\ ~Counted(db'[Contract(n)], o)
      <4>1. Gone(j, Client(o))
        BY <3>0, <3>3
      <4>2. Added(k, o) = {}
        BY <1>2, <2>2, <3>0, <4>1 DEF Books, Pins
      <4>3. n \in Counts(o)
        BY <1>6, <3>3, <4>2
      <4> QED  BY <3>0, <4>1, <4>3 DEF Books
    <3>4. Grown(j, o)'
      BY <3>0, <3>1 DEF Books, Grown
    <3> QED  BY <3>2, <3>3, <3>4
  <2> QED  BY <2>1, <2>2
<1> QED  BY <1>1, <1>3, <1>9, <1>11, <1>12 DEF ContractInv

\* Steps that write nothing, by requests that run no statements.
LEMMA ContractsUntouched ==
    ASSUME Inv, RowInv, ContractInv, UNCHANGED <<db, undo, shared, todo>>,
           NEW r \in Requests, at[r] # "running",
           \A q \in Requests : q # r => /\ at'[q] = at[q] /\ conn'[q] = conn[q]
                                        /\ conn[q] # Nobody =>
                                             settings'[conn[q]] = settings[conn[q]],
           at'[r] = "running" => at[r] = "ready" /\ conn'[r] = conn[r]
    PROVE  ContractInv'
<1>1. RowsShaped' /\ Pins'
  BY DEF ContractInv, RowsShaped, Shaped, Pins, Gone
<1>2. \A key \in Keys : Committed(key)' = Committed(key)
  BY DEF Committed
<1>3. Referred' /\ ContractsCounted'
  BY <1>2, CountedUntouched DEF ContractInv
<1>4. \A j \in Conns : Books(j)'
  <2> SUFFICES ASSUME NEW j \in Conns PROVE Books(j)'
    OBVIOUS
  <2>1. RowTypes /\ Books(j)
    BY DEF RowInv, ContractInv
  <2> QED  BY <1>2, <2>1, BooksUntouched
<1>5. Stages'
  <2> SUFFICES ASSUME NEW q \in Requests
               PROVE  IF at'[q] = "running" THEN Stage(conn[q], todo[q])' ELSE todo'[q] = << >>
    BY DEF Stages
  <2>1. CASE q = r
    <3>1. todo'[q] = << >>
      BY <2>1 DEF ContractInv, Stages
    <3>2. ASSUME at'[q] = "running" PROVE Stage(conn[q], todo[q])'
      <4>1. Before(conn[q])
        BY <2>1, <3>2, ReadyBefore
      <4>2. PICK j : j = conn[q]
        OBVIOUS
      <4>3. conn'[q] = j /\ Before(j)'
        BY <2>1, <3>2, <4>1, <4>2 DEF Before
      <4>4. Simple(todo'[q])
        BY <3>1, SimpleOnes
      <4> QED  BY <4>3, <4>4 DEF Stage, Simple, Quiet, Sole, Shaped
    <3> QED  BY <3>1, <3>2
  <2>2. CASE q # r /\ at[q] # "running"
    BY <2>2 DEF ContractInv, Stages
  <2>3. CASE q # r /\ at[q] = "running"
    <3>1. PICK j \in Conns : j = conn[q]
      BY <2>3 DEF Inv, PoolInv, PhaseInv, Holding
    <3>2. PICK h : h = todo[q]
      OBVIOUS
    <3>3. Stage(j, h) /\ undo'[j] = undo[j] /\ settings'[j] = settings[j]
      BY <2>3, <3>1, <3>2 DEF ContractInv, Stages, Inv, PhaseInv, Holding
    <3>4. Stage(j, h)'
      BY <3>3, StageUntouched
    <3> QED  BY <2>3, <3>1, <3>2, <3>4
  <2> QED  BY <2>1, <2>2, <2>3
<1> QED  BY <1>1, <1>3, <1>4, <1>5 DEF ContractInv

\* Initially there are no contracts, and nothing is written.
LEMMA ContractsStart == Init => ContractInv
<1> SUFFICES ASSUME Init PROVE ContractInv
  OBVIOUS
<1>1. \A k \in Conns : DOMAIN undo[k] = {} /\ shared[k] = {}
  BY DEF Init
<1>2. \A key \in Keys : /\ key[1] = "contracts" => db[key] = Absent
                        /\ db[key] = Absent \/ db[key] = NewRow(key[2], None)
  BY TenancyAssumption DEF Init
<1>3. RowsShaped
  <2>1. \A o : NewRow(o, None).org = o /\ NewRow(o, None).client = None
    BY DEF NewRow
  <2> QED  BY <1>1, <1>2, <2>1 DEF RowsShaped, Shaped
<1>4. \A k \in Conns : Books(k)
  <2>1. \A k \in Conns, o \in Orgs : Added(k, o) = {} /\ ~Gone(k, Client(o)) /\ Grown(k, o)
    BY <1>1 DEF Added, Gone, Grown
  <2> QED  BY <2>1 DEF Books
<1>5. Pins
  BY <1>1 DEF Pins
<1>6. ASSUME NEW o \in Orgs PROVE Counts(o) = {}
  <2>1. \A n \in Numbers : Committed(Contract(n)) = Absent
    BY <1>1, <1>2, KeysTyped, CommittedIs DEF Contract
  <2>2. ~Counted(Absent, o)
    BY TenancyAssumption DEF Counted, Absent
  <2> QED  BY <2>1, <2>2 DEF Counts
<1>7. Referred
  BY <1>6 DEF Referred
<1>8. ContractsCounted
  <2> SUFFICES ASSUME NEW o \in Orgs, Committed(Client(o)) # Absent
               PROVE  Cardinality(Counts(o)) <= Committed(Client(o)).total
    BY DEF ContractsCounted
  <2>1. Committed(Client(o)) = NewRow(o, None)
    BY <1>1, <1>2, KeysTyped, CommittedIs DEF Client
  <2> QED  BY <1>6, <2>1, FS_EmptySet DEF NewRow
<1>9. Stages
  BY DEF Init, Stages
<1> QED  BY <1>3, <1>4, <1>5, <1>7, <1>8, <1>9 DEF ContractInv

\* Every step keeps the books: one step per action.
LEMMA ContractSteps == Inv /\ RowInv /\ ContractInv /\ [Next]_vars => ContractInv'
<1> SUFFICES ASSUME Inv, RowInv, ContractInv, [Next]_vars PROVE ContractInv'
  OBVIOUS
<1>1. ASSUME NEW r \in Requests, AuthBegin(r) \/ Begin(r) PROVE ContractInv'
  <2>1. /\ UNCHANGED <<db, undo, shared, todo>> /\ at[r] # "running" /\ at'[r] # "running"
        /\ \A q \in Requests : q # r =>
             /\ at'[q] = at[q] /\ conn'[q] = conn[q]
             /\ conn[q] # Nobody => settings'[conn[q]] = settings[conn[q]]
    BY <1>1 DEF AuthBegin, Begin, Take, Inv, PoolInv, PhaseInv, OwnSettings, SettingsOK
  <2> QED  BY <2>1, ContractsUntouched
<1>2. ASSUME NEW r \in Requests, SetSkip(r) \/ SetOrg(r) \/ TurnedAway(r) PROVE ContractInv'
  <2>1. /\ UNCHANGED <<db, undo, shared, todo>> /\ at[r] # "running" /\ at'[r] # "running"
        /\ \A q \in Requests : q # r => at'[q] = at[q] /\ conn'[q] = conn[q]
    BY <1>2 DEF SetSkip, SetOrg, TurnedAway, Inv, PhaseInv
  <2>2. conn[r] = Nobody \/ conn[r] \in Conns
    BY DEF Inv, PoolInv
  <2>3. ASSUME NEW q \in Requests, q # r, conn[q] # Nobody
        PROVE  settings'[conn[q]] = settings[conn[q]]
    <3>1. conn[q] \in Conns /\ conn[q] # conn[r]
      BY <2>3 DEF Inv, PoolInv
    <3>2. DOMAIN settings = Conns
      BY DEF Inv, OwnSettings, SettingsOK
    <3> QED  BY <1>2, <3>1, <3>2 DEF SetSkip, SetOrg, TurnedAway
  <2> QED  BY <2>1, <2>3, ContractsUntouched
<1>3. ASSUME NEW r \in Requests, at[r] \in {"ready", "running"}, NEW st \in Statement, NEW rest,
             Execute(r, st, rest), Due(conn[r], st, rest)
      PROVE  ContractInv'
  <2>1. CASE ~Refuses(conn[r], st)
    BY <1>3, <2>1, ContractsExecuted
  <2>2. CASE Refuses(conn[r], st)
    <3>1. Abort(r, "failed") /\ conn[r] # Nobody
      BY <1>3, <2>2 DEF Execute, Inv, PhaseInv, Holding
    <3> QED  BY <3>1, ContractsRestored
  <2> QED  BY <2>1, <2>2
<1>4. ASSUME NEW r \in Requests, Start(r) PROVE ContractInv'
  <2>1. PICK h \in Handlers :
          IF h = << >>
          THEN /\ at' = [at EXCEPT ![r] = "running"]
               /\ UNCHANGED <<db, undo, shared, settings, idle, user, conn, todo, strays>>
          ELSE Execute(r, Head(h), Tail(h))
    BY <1>4 DEF Start
  <2>2. CASE h = << >>
    <3>1. /\ UNCHANGED <<db, undo, shared, todo, conn, settings>> /\ at[r] = "ready"
          /\ \A q \in Requests : q # r => at'[q] = at[q]
      BY <1>4, <2>1, <2>2 DEF Start, Inv, PhaseInv
    <3> QED  BY <3>1, ContractsUntouched
  <2>3. CASE h # << >>
    <3>1. Head(h) \in Statement /\ at[r] = "ready"
      BY <1>4, <2>3, HandlersTyped DEF Start
    <3>2. Due(conn[r], Head(h), Tail(h))
      BY <2>3, <3>1, ReadyBefore, StartIsDue
    <3> QED  BY <1>3, <2>1, <2>3, <3>1, <3>2
  <2> QED  BY <2>2, <2>3
<1>5. ASSUME NEW r \in Requests, Continue(r) PROVE ContractInv'
  <2>1. todo[r] \in Seq(Statement) /\ todo[r] # << >> /\ at[r] = "running"
    BY <1>5 DEF Continue, RowInv, RowTypes
  <2>2. Head(todo[r]) \in Statement
    BY <2>1
  <2>3. Due(conn[r], Head(todo[r]), Tail(todo[r]))
    BY <2>1, RestIsDue DEF ContractInv, Stages
  <2> QED  BY <1>3, <1>5, <2>1, <2>2, <2>3 DEF Continue
<1>6. ASSUME NEW r \in Requests, conn[r] # Nobody, NEW next, next # "running",
             Release(r, next), db' = db, at[r] = "running" => todo[r] = << >>
      PROVE  ContractInv'
  <2>1. Before(conn[r]) \/ (todo[r] = << >> /\ Complete(conn[r]))
    <3>1. CASE at[r] # "running"
      BY <1>6, <3>1 DEF Inv, PoolInv, PhaseInv, RowInv, OpenRuns, Before
    <3>2. CASE at[r] = "running"
      <4>1. Stage(conn[r], todo[r]) /\ todo[r] = << >>
        BY <1>6, <3>2 DEF ContractInv, Stages
      <4>2. \A st : <<st>> # << >>
        OBVIOUS
      <4> QED  BY <4>1, <4>2 DEF Stage
    <3> QED  BY <3>1, <3>2
  <2>2. Complete(conn[r])
    BY <1>6, <2>1, BooksBefore DEF Complete, Inv, PoolInv
  <2> QED  BY <1>6, <2>2, ContractsKept
<1>7. ASSUME NEW r \in Requests, AuthDone(r) \/ Commit(r) PROVE ContractInv'
  BY <1>6, <1>7 DEF AuthDone, Commit, Inv, PhaseInv, Holding
<1>8. ASSUME NEW r \in Requests, Fault(r) \/ Drop(r) PROVE ContractInv'
  <2>1. CASE Abort(r, "failed") \/ Abort(r, "dropped")
    BY <1>8, <2>1, ContractsRestored DEF Fault, Drop
  <2>2. CASE at[r] = "running" /\ todo[r] = << >> /\ Release(r, "dropped") /\ UNCHANGED db
    BY <1>6, <1>8, <2>2 DEF Fault, Drop
  <2> QED  BY <1>8, <2>1, <2>2 DEF Fault, Drop
<1>9. CASE UNCHANGED vars
  <2>1. UNCHANGED <<db, undo, shared, settings, at, conn, todo>>
    BY <1>9 DEF vars
  <2>2. RowsShaped' /\ Pins'
    BY <2>1 DEF ContractInv, RowsShaped, Shaped, Pins, Gone
  <2>3. \A key \in Keys : Committed(key)' = Committed(key)
    BY <2>1 DEF Committed
  <2>4. Referred' /\ ContractsCounted'
    BY <2>3, CountedUntouched DEF ContractInv
  <2>5. ASSUME NEW j \in Conns PROVE Books(j)'
    <3>1. RowTypes /\ Books(j)
      BY DEF RowInv, ContractInv
    <3> QED  BY <2>1, <2>3, <3>1, BooksUntouched
  <2>6. Stages'
    BY <2>1 DEF ContractInv, Stages, Stage, Before, Simple, Creates, Half, Complete, Added,
                Quiet, Sole, Shaped
  <2> QED  BY <2>2, <2>4, <2>5, <2>6 DEF ContractInv
<1> QED
  BY <1>1, <1>2, <1>4, <1>5, <1>7, <1>8, <1>9 DEF Next, Serve

\* A client's total never falls behind the contracts that are committed, whatever
\* contracts, clients and organizations are made and deleted next to each other and
\* wherever a handler fails, until somebody sets the total by hand
\* (contracts/handlers.rs:92-120).
THEOREM ContractsAreCounted == Spec => []ContractsCounted
<1>1. Init => Inv /\ RowInv /\ ContractInv
  BY Starts, RowsStart, ContractsStart
<1>2. Inv /\ RowInv /\ ContractInv /\ [Next]_vars => Inv' /\ RowInv' /\ ContractInv'
  BY Steps, RowSteps, ContractSteps
<1>3. ContractInv => ContractsCounted
  BY DEF ContractInv
<1> QED  BY <1>1, <1>2, <1>3, PTL DEF Spec

\* A contract that counts keeps its client: nobody deletes one next to a contract
\* that is made with it (0001_init.sql, ON DELETE CASCADE; clients/handlers.rs).
THEOREM ContractsHaveClients == Spec => []Referred
<1>1. Init => Inv /\ RowInv /\ ContractInv
  BY Starts, RowsStart, ContractsStart
<1>2. Inv /\ RowInv /\ ContractInv /\ [Next]_vars => Inv' /\ RowInv' /\ ContractInv'
  BY Steps, RowSteps, ContractSteps
<1>3. ContractInv => Referred
  BY DEF ContractInv
<1> QED  BY <1>1, <1>2, <1>3, PTL DEF Spec
=============================================================================
