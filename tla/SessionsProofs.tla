---------------------------- MODULE SessionsProofs ----------------------------
(***************************************************************************)
(* Theorems about Sessions for any number of handlers and sessions.  The   *)
(* inductive invariant adds to TypeOK what the handlers in flight know:    *)
(* the rows they picked exist, the id they will insert is new, and the     *)
(* session a refresh replaces was opened by a login.                       *)
(***************************************************************************)
EXTENDS Sessions, FiniteSetTheorems, TLAPS

Root(s) == s \in Committed /\ session[s].parent = 0

Fresh ==
    /\ \A s \in Ids : s > nextId => session[s].status = "none"
    /\ \A r \in Requests : local[r].id <= nextId

InFlight ==
    \A r \in Requests :
      /\ local[r].rows \subseteq Committed
      /\ pc[r] \in {"login_user", "login_counted", "login_evicted"} => local[r].id # 0
      /\ pc[r] \in {"refresh_session", "refresh_user"} =>
           local[r].id # 0 /\ Root(local[r].parent)

Roots == \A s \in held : Root(s)

Lineage == \A s \in Committed : session[s].parent # 0 => Root(session[s].parent)

IInv == TypeOK /\ Fresh /\ InFlight /\ Roots /\ Lineage /\ ParentRetired

-----------------------------------------------------------------------------
(* What a step may do to the table: rows keep their parent, are never      *)
(* activated again, and one new row may appear, at id.                     *)

Evolves(id) ==
    /\ session' \in [Ids -> Row]
    /\ \A s \in Ids :
         IF s = id
         THEN session[s].status = "none" /\ session'[s].status = "active"
         ELSE /\ session'[s].parent = session[s].parent
              /\ session'[s].status = "none" <=> session[s].status = "none"
              /\ session[s].status = "inactive" => session'[s].status = "inactive"

\* The values of no handler, and of one that begins a transaction.
LEMMA NoLocalType == NoLocal \in Local /\ NoLocal.id = 0 /\ NoLocal.rows = {}
  BY SessionsAssumption DEF NoLocal, Begun, Local

LEMMA BegunType ==
    ASSUME NEW id \in 0..MaxIds, NEW parent \in 0..MaxIds, NEW pw \in 0..MaxPasswords
    PROVE  LET v == Begun(id, parent, pw)
           IN  /\ v \in Local /\ v.id = id /\ v.rows = {} /\ v.parent = parent
  BY SessionsAssumption DEF Begun, Local

\* What login counts.
LEMMA CountType ==
    ASSUME TypeOK
    PROVE  Cardinality(Active) \in 0..MaxIds
<1>1. IsFiniteSet(Ids) /\ Cardinality(Ids) = MaxIds
  BY SessionsAssumption, FS_Interval DEF Ids
<1>2. Active \subseteq Ids  BY DEF Active
<1>3. IsFiniteSet(Active) /\ Cardinality(Active) <= Cardinality(Ids)
  BY <1>1, <1>2, FS_Subset
<1>4. Cardinality(Active) \in Nat  BY <1>3, FS_CardinalityType
<1>5. QED  BY <1>1, <1>3, <1>4, SessionsAssumption

\* Deactivating rows that exist keeps their parents and activates none.
LEMMA DeactivateEvolves ==
    ASSUME NEW rows \in [Ids -> Row], NEW S,
           \A s \in S \cap Ids : rows[s].status # "none",
           NEW why \in {"evicted", "rotated", "ended"}
    PROVE  /\ Deactivate(rows, S, why) \in [Ids -> Row]
           /\ \A s \in Ids :
                LET d == Deactivate(rows, S, why)[s]
                IN  /\ d.parent = rows[s].parent
                    /\ d.status = "none" <=> rows[s].status = "none"
                    /\ rows[s].status = "inactive" => d.status = "inactive"
                    /\ s \in S => d.status = "inactive"
  BY DEF Deactivate, Row

\* The new row is active; the others stay.
LEMMA InsertType ==
    ASSUME NEW rows \in [Ids -> Row], NEW id \in Ids, NEW parent \in 0..MaxIds,
           NEW pw \in 0..MaxPasswords
    PROVE  /\ Insert(rows, id, parent, pw) \in [Ids -> Row]
           /\ Insert(rows, id, parent, pw)[id].status = "active"
           /\ Insert(rows, id, parent, pw)[id].parent = parent
           /\ \A s \in Ids \ {id} : Insert(rows, id, parent, pw)[s] = rows[s]
  BY DEF Insert, Row

\* A root stays a root while the table evolves.
LEMMA RootKept ==
    ASSUME TypeOK, NEW id, Evolves(id), NEW s, Root(s)
    PROVE  Root(s)'
  BY DEF Root, Committed, Evolves, TypeOK

-----------------------------------------------------------------------------
\* Initially nothing is stored or in flight.
LEMMA InitIInv == Init => IInv
<1> SUFFICES ASSUME Init PROVE IInv
  OBVIOUS
<1>1. /\ NoRow \in Row /\ NoRow.status = "none"
      /\ NoLocal \in Local /\ NoLocal.id = 0 /\ NoLocal.rows = {}
  BY NoLocalType, SessionsAssumption DEF NoRow, Row
<1>2. TypeOK  BY <1>1, SessionsAssumption DEF Init, TypeOK, Phase
<1>3. Fresh /\ InFlight  BY <1>1 DEF Init, Fresh, InFlight
<1>4. Roots /\ Lineage /\ ParentRetired
  BY <1>1 DEF Init, Roots, Lineage, ParentRetired, Active, Committed
<1>5. QED  BY <1>2, <1>3, <1>4 DEF IInv

\* A step that inserts no row, whatever it does to the handlers.
LEMMA NoInsert ==
    ASSUME IInv, Evolves(0), TypeOK', Fresh', InFlight', Roots',
           \A s \in Ids : session'[s].status = "active" => session[s].status = "active"
    PROVE  IInv'
<1>1. Lineage'
  BY RootKept DEF IInv, Lineage, Evolves, Committed, TypeOK, Ids, Root
<1>2. ParentRetired'
  <2>1. SUFFICES ASSUME NEW s \in Active', session'[s].parent # 0
                 PROVE  session'[session'[s].parent].status = "inactive"
    BY DEF ParentRetired
  <2>2. s \in Ids /\ s \in Active /\ s \in Committed /\ session'[s].parent = session[s].parent
    BY <2>1 DEF Active, Committed, Evolves, Ids
  <2>3. session[s].parent \in Ids /\ session[session[s].parent].status = "inactive"
    BY <2>1, <2>2 DEF IInv, Lineage, ParentRetired, Root, Committed
  <2>4. QED  BY <2>2, <2>3 DEF Evolves, Ids
<1>3. QED  BY <1>1, <1>2 DEF IInv

\* A handler that ends, or goes on without a new id, after the table evolved.
LEMMA Proceeds ==
    ASSUME IInv, Evolves(0), NEW r \in Requests, NEW next \in Phase, NEW values \in Local,
           Goto(r, next, values),
           UNCHANGED nextId, held' \subseteq held,
           userActive' \in BOOLEAN, password' \in 0..MaxPasswords,
           \A s \in Ids : session'[s].status = "active" => session[s].status = "active",
           values.rows \subseteq Committed,
           values.id \in {0, local[r].id},
           next \in {"login_user", "login_counted", "login_evicted"} => values.id # 0,
           next \in {"refresh_session", "refresh_user"} => values.id # 0 /\ Root(values.parent)
    PROVE  IInv'
<1> USE DEF IInv
<1>1. TypeOK'
  <2>1. /\ session' \in [Ids -> Row] /\ held' \subseteq Ids /\ nextId' \in 0..MaxIds
        /\ pc' \in [Requests -> Phase] /\ local' \in [Requests -> Local]
    BY DEF TypeOK, Goto, Evolves
  <2>2. \A q \in Requests : local'[q].id \in {0, local[q].id}
    BY DEF TypeOK, Goto
  <2>3. \A s \in Ids : session[s].status = "none" => session'[s].status = "none"
    BY DEF Evolves, Ids
  <2>4. \A q \in Requests : local[q].id \in 0..MaxIds
    BY DEF TypeOK, Local
  <2>5. ASSUME NEW q \in Requests, local'[q].id # 0
        PROVE  /\ session'[local'[q].id].status = "none"
               /\ \A p \in Requests : local'[p].id = local'[q].id => p = q
    <3>1. local'[q].id = local[q].id /\ local[q].id # 0  BY <2>2, <2>5
    <3>2. local[q].id \in Ids  BY <2>4, <3>1, SessionsAssumption DEF Ids
    <3>3. session[local[q].id].status = "none"  BY <3>1 DEF TypeOK
    <3>4. \A p \in Requests : local'[p].id = local[q].id => local[p].id = local[q].id
      BY <2>2, <3>1
    <3>5. QED  BY <2>3, <3>1, <3>2, <3>3, <3>4 DEF TypeOK
  <2>6. QED  BY <2>1, <2>5 DEF TypeOK
<1>2. Fresh'
  <2>1. \A s \in Ids : session[s].status = "none" => session'[s].status = "none"
    BY DEF Evolves, Ids
  <2>2. \A q \in Requests : local'[q].id \in {0, local[q].id}
    BY DEF TypeOK, Goto
  <2>3. QED  BY <2>1, <2>2, SessionsAssumption DEF Fresh, TypeOK
<1>3. Committed \subseteq Committed'
  BY DEF Committed, Evolves, Ids
<1>4. InFlight'
  BY <1>3, RootKept DEF InFlight, Goto, TypeOK
<1>5. Roots'
  BY RootKept DEF Roots
<1>6. QED  BY <1>1, <1>2, <1>4, <1>5, NoInsert

\* A step that leaves the table alone.
LEMMA SessionKept ==
    ASSUME TypeOK, UNCHANGED session
    PROVE  /\ Evolves(0)
           /\ \A s \in Ids : session'[s].status = "active" => session[s].status = "active"
  BY DEF TypeOK, Evolves, Ids

\* The commits that only deactivate rows.
LEMMA SessionEnded ==
    ASSUME TypeOK, NEW S, S \subseteq Committed, NEW why \in {"evicted", "rotated", "ended"},
           session' = Deactivate(session, S, why)
    PROVE  /\ Evolves(0)
           /\ \A s \in Ids : session'[s].status = "active" => session[s].status = "active"
<1>1. session \in [Ids -> Row] /\ \A s \in S \cap Ids : session[s].status # "none"
  BY DEF TypeOK, Committed
<1> DEFINE d == Deactivate(session, S, why)
<1>2. Evolves(0)
  <2>1. /\ d \in [Ids -> Row]
        /\ \A s \in Ids :
              /\ d[s].parent = session[s].parent
              /\ d[s].status = "none" <=> session[s].status = "none"
              /\ session[s].status = "inactive" => d[s].status = "inactive"
    BY <1>1, DeactivateEvolves
  <2>2. QED  BY <2>1 DEF Evolves, Ids
<1>3. \A s \in Ids : session'[s].status = "active" => session[s].status = "active"
  <2>1. SUFFICES ASSUME NEW s \in Ids, session'[s].status = "active"
                 PROVE  session[s].status = "active"
    OBVIOUS
  <2>2. session[s].status \in {"none", "active", "inactive"}  BY <1>1 DEF Row
  <2>3. s # 0  BY DEF Ids
  <2>4. QED  BY <1>2, <2>1, <2>2, <2>3 DEF Evolves
<1>4. QED  BY <1>2, <1>3

\* What the commits do that open a session after deactivating the rows of S.
LEMMA Opened ==
    ASSUME TypeOK, NEW r \in Requests, local[r].id # 0,
           NEW S, S \subseteq Committed, NEW why \in {"evicted", "rotated", "ended"},
           NEW parent \in 0..MaxIds,
           session' = Insert(Deactivate(session, S, why), local[r].id, parent, local[r].password)
    PROVE  LET id == local[r].id
               d  == Deactivate(session, S, why)
           IN  /\ id \in Ids /\ session[id].status = "none" /\ id \notin S
               /\ \A s \in Ids :
                    /\ session[s].status = "inactive" => d[s].status = "inactive"
                    /\ d[s].status = "active" =>
                         session[s].status = "active" /\ d[s].parent = session[s].parent
                    /\ s \in S => d[s].status = "inactive"
               /\ session' \in [Ids -> Row]
               /\ session'[id].status = "active" /\ session'[id].parent = parent
               /\ \A s \in Ids \ {id} : session'[s] = d[s]
               /\ Evolves(id)
<1> DEFINE id == local[r].id
<1> DEFINE d == Deactivate(session, S, why)
<1>1. local[r] \in Local /\ id \in Ids /\ session[id].status = "none" /\ id \notin S
  BY SessionsAssumption DEF TypeOK, Local, Ids, Committed
<1>2. session \in [Ids -> Row] /\ \A s \in S \cap Ids : session[s].status # "none"
  BY DEF TypeOK, Committed
<1>3. /\ d \in [Ids -> Row]
      /\ \A s \in Ids :
            /\ d[s].parent = session[s].parent
            /\ d[s].status = "none" <=> session[s].status = "none"
            /\ session[s].status = "inactive" => d[s].status = "inactive"
            /\ s \in S => d[s].status = "inactive"
  BY <1>2, DeactivateEvolves
<1>4. local[r].password \in 0..MaxPasswords  BY <1>1 DEF Local
<1>5. /\ session' \in [Ids -> Row]
      /\ session'[id].status = "active" /\ session'[id].parent = parent
      /\ \A s \in Ids \ {id} : session'[s] = d[s]
  BY <1>1, <1>3, <1>4, InsertType
<1>6. Evolves(id)
  BY <1>1, <1>3, <1>5 DEF Evolves
<1>7. \A s \in Ids : d[s].status = "active" => session[s].status = "active"
  BY <1>2, <1>3 DEF Row
<1> QED  BY <1>1, <1>3, <1>5, <1>6, <1>7, Zenon

\* The commits that open a session, after deactivating the rows of S.
LEMMA Opens ==
    ASSUME IInv, NEW r \in Requests, local[r].id # 0,
           NEW S, S \subseteq Committed, NEW why \in {"evicted", "rotated", "ended"},
           NEW parent \in 0..MaxIds,
           parent # 0 => parent \in S /\ Root(parent),
           session' = Insert(Deactivate(session, S, why), local[r].id, parent, local[r].password),
           held' \subseteq held \cup (IF parent = 0 THEN {local[r].id} ELSE {}),
           Done(r), UNCHANGED <<userActive, password, nextId>>
    PROVE  IInv'
<1> USE DEF IInv
<1> DEFINE id == local[r].id
<1> DEFINE d == Deactivate(session, S, why)
<1>1. id \in Ids /\ session[id].status = "none" /\ id \notin S
  BY Opened
<1>2. \A s \in Ids :
         /\ d[s].status = "active" =>
              session[s].status = "active" /\ d[s].parent = session[s].parent
         /\ s \in S => d[s].status = "inactive"
  BY Opened
<1>3. /\ session' \in [Ids -> Row]
      /\ session'[id].status = "active" /\ session'[id].parent = parent
      /\ \A s \in Ids \ {id} : session'[s] = d[s]
  BY Opened
<1>4. Evolves(id)
  BY Opened
<1>7. Done(r) => /\ pc' \in [Requests -> Phase] /\ local' \in [Requests -> Local]
                 /\ local'[r] = NoLocal /\ pc'[r] = "idle"
                 /\ \A q \in Requests \ {r} : local'[q] = local[q] /\ pc'[q] = pc[q]
  BY NoLocalType DEF Done, Goto, TypeOK, Phase
<1>8. \A q \in Requests \ {r} : local[q].id # 0 => local[q].id # id
  BY <1>1 DEF TypeOK
<1>9. TypeOK'
  <2>1. held' \subseteq Ids  BY <1>1 DEF TypeOK
  <2>2. ASSUME NEW q \in Requests, local'[q].id # 0
        PROVE  /\ session'[local'[q].id].status = "none"
               /\ \A p \in Requests : local'[p].id = local'[q].id => p = q
    <3>1. q # r /\ local'[q] = local[q]  BY <1>7, <2>2, NoLocalType
    <3>2. local[q] \in Local /\ local[q].id \in Ids /\ session[local[q].id].status = "none"
      BY <2>2, <3>1, SessionsAssumption DEF TypeOK, Local, Ids
    <3>3. local[q].id # id  BY <1>8, <2>2, <3>1
    <3>4. session'[local[q].id].status = "none"
      BY <1>4, <3>2, <3>3 DEF Evolves
    <3>5. \A p \in Requests : local'[p].id = local'[q].id => p = q
      BY <1>7, <2>2, <3>1, NoLocalType DEF TypeOK
    <3>6. QED  BY <3>1, <3>4, <3>5
  <2>3. QED  BY <1>3, <1>7, <2>1, <2>2 DEF TypeOK
<1>10. Fresh'
  <2>1. id <= nextId  BY DEF Fresh
  <2>2. ASSUME NEW s \in Ids, s > nextId' PROVE session'[s].status = "none"
    <3>1. s # id /\ session[s].status = "none"
      BY <1>1, <2>1, <2>2, SessionsAssumption DEF Fresh, TypeOK, Ids
    <3>2. QED  BY <1>4, <3>1 DEF Evolves
  <2>3. \A q \in Requests : local'[q].id <= nextId'
    BY <1>7, NoLocalType DEF Fresh, TypeOK
  <2>4. QED  BY <2>2, <2>3 DEF Fresh
<1>r. ASSUME NEW s, Root(s) PROVE Root(s)'
  BY <1>4, <1>r, RootKept
<1>11. Committed \subseteq Committed'
  BY <1>4 DEF Committed, Evolves
<1>12. InFlight'
  BY <1>4, <1>7, <1>11, RootKept, NoLocalType DEF InFlight
<1>13. Roots'
  <2>1. SUFFICES ASSUME NEW s \in held' PROVE Root(s)'
    BY DEF Roots
  <2>2. CASE s \in held  BY <1>r, <2>2 DEF Roots
  <2>3. CASE s = id /\ parent = 0
    BY <1>1, <1>3, <2>3 DEF Root, Committed
  <2>4. QED  BY <2>1, <2>2, <2>3
<1>14. Lineage'
  <2>1. SUFFICES ASSUME NEW s \in Committed', session'[s].parent # 0
                 PROVE  Root(session[s].parent)'
    BY DEF Lineage
  <2>2. CASE s = id
    <3>1. Root(parent)' /\ session'[s].parent = parent  BY <1>3, <1>r, <2>1, <2>2
    <3>2. QED  BY <3>1 DEF Root, Committed
  <2>3. CASE s # id
    <3>1. s \in Committed /\ session'[s].parent = session[s].parent
      BY <1>4, <2>3 DEF Committed, Evolves
    <3>2. Root(session[s].parent)  BY <2>1, <3>1 DEF Lineage
    <3>3. Root(session[s].parent)' <=> session'[s].parent \in Committed'
                                       /\ session'[session'[s].parent].parent = 0
      BY DEF Root
    <3>4. session[s].parent \in Committed' /\ session'[session[s].parent].parent = 0
      BY <1>r, <3>2 DEF Root
    <3>5. QED  BY <3>1, <3>3, <3>4
  <2>4. QED  BY <2>2, <2>3
<1>15. ParentRetired'
  <2>1. SUFFICES ASSUME NEW s \in Active', session'[s].parent # 0
                 PROVE  session'[session'[s].parent].status = "inactive"
    BY DEF ParentRetired
  <2>2. CASE s = id
    <3>1. parent \in S /\ parent \in Ids /\ parent # id
      BY <1>1, <1>3, <2>1, <2>2 DEF Root, Committed
    <3>2. QED  BY <1>2, <1>3, <2>2, <3>1
  <2>3. CASE s # id
    <3>1. s \in Ids /\ session'[s] = d[s] /\ d[s].status = "active"
      BY <1>3, <2>3 DEF Active
    <3>2. session[s].status = "active" /\ session'[s].parent = session[s].parent
      BY <1>2, <3>1
    <3>3. Root(session[s].parent) /\ session[session[s].parent].status = "inactive"
      BY <2>1, <3>1, <3>2 DEF Lineage, ParentRetired, Active, Committed
    <3>4. QED  BY <1>1, <1>4, <3>2, <3>3 DEF Evolves, Root, Committed
  <2>4. QED  BY <2>2, <2>3
<1>16. QED  BY <1>9, <1>10, <1>12, <1>13, <1>14, <1>15

-----------------------------------------------------------------------------
(* One step per action.                                                    *)

\* The two steps that begin a transaction with a new id.
LEMMA Begins ==
    ASSUME IInv, NEW r \in Requests, nextId < MaxIds, nextId' = nextId + 1,
           NEW next \in {"login_user", "refresh_session"}, NEW values \in Local,
           values.id = nextId + 1, values.rows = {},
           next = "refresh_session" => Root(values.parent),
           Goto(r, next, values),
           UNCHANGED <<session, userActive, password, held>>
    PROVE  IInv'
<1> USE DEF IInv
<1>1. nextId \in Nat /\ nextId + 1 \in Ids /\ session[nextId + 1].status = "none"
  BY SessionsAssumption DEF TypeOK, Fresh, Ids
<1>2. \A q \in Requests : local[q].id \in 0..MaxIds /\ local[q].id # nextId + 1
  BY <1>1, SessionsAssumption DEF TypeOK, Fresh, Local
<1>3. TypeOK'
  <2>1. pc' \in [Requests -> Phase] /\ local' \in [Requests -> Local]
    BY DEF Goto, TypeOK, Phase
  <2>2. ASSUME NEW q \in Requests, local'[q].id # 0
        PROVE  /\ session'[local'[q].id].status = "none"
               /\ \A p \in Requests : local'[p].id = local'[q].id => p = q
    BY <1>1, <1>2, <2>2 DEF TypeOK, Goto
  <2>3. nextId' \in 0..MaxIds  BY <1>1, SessionsAssumption
  <2>4. QED  BY <2>1, <2>2, <2>3 DEF TypeOK
<1>4. Fresh'
  BY <1>1, <1>2, SessionsAssumption DEF Fresh, Goto, TypeOK, Ids
<1>5. InFlight'
  BY <1>1 DEF InFlight, Goto, TypeOK, Root, Committed
<1>6. Roots' /\ Lineage' /\ ParentRetired'
  BY DEF Roots, Lineage, ParentRetired, Root, Committed, Active
<1>7. QED  BY <1>3, <1>4, <1>5, <1>6

\* The steps of a handler that leave the tables alone and take no new id.
LEMMA Quiet ==
    ASSUME IInv, NEW r \in Requests, NEW next \in Phase, NEW values \in Local,
           Goto(r, next, values), Unchanged,
           values.rows \subseteq Committed,
           values.id \in {0, local[r].id},
           next \in {"login_user", "login_counted", "login_evicted"} => values.id # 0,
           next \in {"refresh_session", "refresh_user"} => values.id # 0 /\ Root(values.parent)
    PROVE  IInv'
<1>1. TypeOK  BY DEF IInv
<1>2. /\ UNCHANGED <<session, nextId>> /\ held' \subseteq held
      /\ userActive' \in BOOLEAN /\ password' \in 0..MaxPasswords
  BY <1>1 DEF Unchanged, TypeOK
<1>3. /\ Evolves(0)
      /\ \A s \in Ids : session'[s].status = "active" => session[s].status = "active"
  BY <1>1, <1>2, SessionKept
<1>4. QED  BY <1>2, <1>3, Proceeds

\* A handler that is over carries nothing.
LEMMA DoneIsGoto ==
    ASSUME NEW r \in Requests, Done(r)
    PROVE  /\ Goto(r, "idle", NoLocal) /\ "idle" \in Phase
           /\ NoLocal \in Local /\ NoLocal.id = 0 /\ NoLocal.rows = {}
  BY NoLocalType DEF Done, Phase

\* A commit that deactivates the rows picked by the handler.
LEMMA Ends ==
    ASSUME IInv, NEW r \in Requests, NEW S, S \subseteq Committed,
           session' = Deactivate(session, S, "ended"), Done(r),
           UNCHANGED <<userActive, held, nextId>>, password' \in 0..MaxPasswords
    PROVE  IInv'
<1>1. TypeOK  BY DEF IInv
<1>2. /\ Evolves(0)
      /\ \A s \in Ids : session'[s].status = "active" => session[s].status = "active"
  BY <1>1, SessionEnded
<1>3. userActive' \in BOOLEAN  BY <1>1 DEF TypeOK
<1>4. QED  BY <1>2, <1>3, DoneIsGoto, Proceeds

\* A step that touches the rows, the cookies or the user but no handler.
LEMMA Outside ==
    ASSUME IInv, Evolves(0),
           \A s \in Ids : session'[s].status = "active" => session[s].status = "active",
           held' \subseteq held, userActive' \in BOOLEAN,
           UNCHANGED <<password, nextId, pc, local>>
    PROVE  IInv'
<1> USE DEF IInv
<1>1. \A s \in Ids : session[s].status = "none" => session'[s].status = "none"
  BY DEF Evolves, Ids
<1>2. TypeOK' /\ Fresh'
  <2>1. \A q \in Requests : local[q].id \in 0..MaxIds
    BY DEF TypeOK, Local
  <2>2. \A q \in Requests : local[q].id # 0 => local[q].id \in Ids
    BY <2>1, SessionsAssumption DEF Ids
  <2>3. session' \in [Ids -> Row] /\ held' \subseteq Ids  BY DEF Evolves, TypeOK
  <2>4. TypeOK'  BY <1>1, <2>2, <2>3 DEF TypeOK
  <2>5. Fresh'  BY <1>1 DEF Fresh
  <2>6. QED  BY <2>4, <2>5
<1>3. Committed \subseteq Committed'  BY DEF Committed, Evolves, Ids
<1>4. InFlight'  BY <1>3, RootKept DEF InFlight
<1>5. Roots'  BY RootKept DEF Roots
<1>6. QED  BY <1>2, <1>4, <1>5, NoInsert

\* The steps of login,
LEMMA LoginStep ==
    ASSUME IInv, NEW r \in Requests,
           LoginUser(r) \/ LoginCount(r) \/ LoginEvict(r) \/ LoginCommit(r)
    PROVE  IInv'
<1>1. TypeOK /\ InFlight /\ local[r] \in Local
  BY DEF IInv, TypeOK
<1>2. CASE LoginUser(r)
  <2> DEFINE v == Begun(nextId + 1, 0, password)
  <2>1. v \in Local /\ v.id = nextId + 1 /\ v.rows = {}
    <3>1. nextId + 1 \in 0..MaxIds /\ password \in 0..MaxPasswords
      BY <1>1, <1>2, SessionsAssumption DEF LoginUser, TypeOK
    <3>2. QED  BY <3>1, BegunType, SessionsAssumption
  <2>2. QED  BY <1>2, <2>1, Begins DEF LoginUser
<1>3. CASE LoginCount(r)
  <2> DEFINE v == [local[r] EXCEPT !.count = Cardinality(Active)]
  <2>1. v \in Local /\ v.id = local[r].id /\ v.rows = local[r].rows
    BY <1>1, CountType DEF Local
  <2>2. local[r].id # 0 /\ local[r].rows \subseteq Committed
    BY <1>1, <1>3 DEF LoginCount, InFlight
  <2>3. QED  BY <1>3, <2>1, <2>2, Quiet DEF LoginCount, Phase
<1>4. CASE LoginEvict(r)
  <2> DEFINE picked == IF local[r].count >= MaxSessions
                       THEN Oldest(Active, local[r].count - MaxSessions + 1) ELSE {}
  <2> DEFINE v == [local[r] EXCEPT !.rows = picked]
  <2>1. picked \subseteq Committed /\ picked \subseteq Ids
    BY DEF Oldest, Active, Committed
  <2>2. v \in Local /\ v.id = local[r].id /\ v.rows = picked
    BY <1>1, <2>1 DEF Local
  <2>3. local[r].id # 0
    BY <1>1, <1>4 DEF LoginEvict, InFlight
  <2>4. Goto(r, "login_evicted", v) /\ Unchanged  BY <1>4 DEF LoginEvict
  <2> HIDE DEF v, picked
  <2>5. QED  BY <2>1, <2>2, <2>3, <2>4, Quiet DEF Phase
<1>5. CASE LoginCommit(r)
  <2>1. local[r].id # 0 /\ local[r].rows \subseteq Committed
    BY <1>1, <1>5 DEF LoginCommit, InFlight
  <2>2. QED  BY <1>5, <2>1, Opens, SessionsAssumption DEF LoginCommit
<1>6. QED  BY <1>2, <1>3, <1>4, <1>5

\* of refresh,
LEMMA RefreshStep ==
    ASSUME IInv, NEW r \in Requests,
           (\E s \in Ids : RefreshSession(r, s)) \/ RefreshUser(r) \/ RefreshCommit(r)
    PROVE  IInv'
<1>1. TypeOK /\ InFlight /\ Roots /\ local[r] \in Local
  BY DEF IInv, TypeOK
<1>2. ASSUME NEW s \in Ids, RefreshSession(r, s) PROVE IInv'
  <2> DEFINE v == Begun(nextId + 1, s, session[s].password)
  <2>1. session[s].password \in 0..MaxPasswords /\ s \in 0..MaxIds
    <3>1. session[s] \in Row  BY <1>1 DEF TypeOK
    <3>2. s \in 0..MaxIds  BY SessionsAssumption DEF Ids
    <3>3. QED  BY <3>1, <3>2 DEF Row
  <2>2. v \in Local /\ v.id = nextId + 1 /\ v.rows = {} /\ v.parent = s
    <3>1. nextId + 1 \in 0..MaxIds
      BY <1>1, <1>2, SessionsAssumption DEF RefreshSession, TypeOK
    <3>2. QED  BY <2>1, <3>1, BegunType
  <2>3. Root(s)  BY <1>1, <1>2 DEF RefreshSession, Roots
  <2>4. QED  BY <1>2, <2>2, <2>3, Begins DEF RefreshSession
<1>3. CASE RefreshUser(r)
  <2>1. /\ local[r].id # 0 /\ Root(local[r].parent) /\ local[r].rows \subseteq Committed
    BY <1>1, <1>3 DEF RefreshUser, InFlight
  <2>2. CASE Done(r)  BY <1>3, <2>2, DoneIsGoto, Quiet DEF RefreshUser
  <2>3. CASE Goto(r, "refresh_user", local[r])
    BY <1>1, <1>3, <2>1, <2>3, Quiet DEF RefreshUser, Phase
  <2>4. QED  BY <1>3, <2>2, <2>3 DEF RefreshUser
<1>4. CASE RefreshCommit(r)
  <2>1. /\ local[r].id # 0 /\ Root(local[r].parent)
        /\ {local[r].parent} \subseteq Committed /\ local[r].parent \in 0..MaxIds
        /\ local[r].parent # 0
    BY <1>1, <1>4 DEF RefreshCommit, InFlight, Root, Local, Committed, Ids
  <2>2. QED  BY <1>4, <2>1, Opens DEF RefreshCommit
<1>5. QED  BY <1>2, <1>3, <1>4

\* and of the handlers that end sessions.
LEMMA EndingStep ==
    ASSUME IInv, NEW r \in Requests,
           \/ \E s \in Ids : Logout(r, s) \/ Revoke(r, s)
           \/ LogoutAllStart(r) \/ LogoutAllCommit(r)
           \/ ChangePasswordRead(r) \/ ChangePasswordUpdate(r) \/ ChangePasswordCommit(r)
           \/ Rollback(r)
    PROVE  IInv'
<1>1. TypeOK /\ InFlight /\ local[r] \in Local /\ local[r].rows \subseteq Committed
  BY DEF IInv, TypeOK, InFlight
<1>2. Committed \subseteq Ids  BY DEF Committed
<1>3. ASSUME NEW s \in Ids, Logout(r, s) PROVE IInv'
  <2>1. /\ held' \subseteq held /\ UNCHANGED <<session, password, nextId, pc, local>>
        /\ userActive' \in BOOLEAN
    BY <1>1, <1>3 DEF Logout, TypeOK
  <2>2. QED  BY <1>1, <2>1, SessionKept, Outside
<1>4. ASSUME NEW s \in Ids, Revoke(r, s) PROVE IInv'
  <2>1. {s} \subseteq Committed /\ held' \subseteq held /\ userActive' \in BOOLEAN
    BY <1>1, <1>4 DEF Revoke, TypeOK
  <2>2. /\ Evolves(0)
        /\ \A t \in Ids : session'[t].status = "active" => session[t].status = "active"
    BY <1>1, <1>4, <2>1, SessionEnded DEF Revoke
  <2>3. QED  BY <1>4, <2>1, <2>2, Outside DEF Revoke
<1>5. CASE LogoutAllStart(r)
  <2> DEFINE v == [NoLocal EXCEPT !.rows = Committed]
  <2>1. v \in Local /\ v.id = 0 /\ v.rows = Committed
    BY <1>2, SessionsAssumption DEF NoLocal, Begun, Local
  <2>2. QED  BY <1>5, <2>1, Quiet DEF LogoutAllStart, Phase
<1>6. CASE LogoutAllCommit(r)
  <2>1. password' \in 0..MaxPasswords  BY <1>1, <1>6 DEF LogoutAllCommit, TypeOK
  <2>2. QED  BY <1>1, <1>6, <2>1, Ends DEF LogoutAllCommit
<1>7. CASE ChangePasswordRead(r)
  <2> DEFINE v == Begun(0, 0, password)
  <2>1. v \in Local /\ v.id = 0 /\ v.rows = {}
    BY <1>1, SessionsAssumption DEF NoLocal, Begun, Local, TypeOK
  <2>2. QED  BY <1>7, <2>1, Quiet DEF ChangePasswordRead, Phase
<1>8. CASE ChangePasswordUpdate(r)
  <2> DEFINE v == [local[r] EXCEPT !.rows = Committed]
  <2>1. v \in Local /\ v.id = local[r].id /\ v.rows = Committed
    BY <1>1, <1>2 DEF Local
  <2>2. QED  BY <1>8, <2>1, Quiet DEF ChangePasswordUpdate, Phase
<1>9. CASE ChangePasswordCommit(r)
  <2>1. password' \in 0..MaxPasswords
    BY <1>1, <1>9, SessionsAssumption DEF ChangePasswordCommit, TypeOK
  <2>2. QED  BY <1>1, <1>9, <2>1, Ends DEF ChangePasswordCommit
<1>10. CASE Rollback(r)
  BY <1>10, DoneIsGoto, Quiet DEF Rollback
<1>11. QED  BY <1>3, <1>4, <1>5, <1>6, <1>7, <1>8, <1>9, <1>10

\* A session that expires stays what it is.
LEMMA SessionExpires ==
    ASSUME TypeOK, NEW s \in Ids, Expire(s)
    PROVE  /\ Evolves(0)
           /\ \A t \in Ids : session'[t].status = "active" => session[t].status = "active"
<1>1. session \in [Ids -> Row] /\ session[s].status = "active"
      /\ session' = [session EXCEPT ![s].expired = TRUE]
  BY DEF Expire, TypeOK
<1>2. session'[s] \in Row /\ session'[s].status = session[s].status
      /\ session'[s].parent = session[s].parent
  BY <1>1 DEF Row
<1>3. session' \in [Ids -> Row] /\ \A t \in Ids \ {s} : session'[t] = session[t]
  BY <1>1, <1>2
<1> QED  BY <1>1, <1>2, <1>3 DEF Evolves, Ids

\* Every step keeps the inductive invariant.
LEMMA NextIInv == IInv /\ [Next]_vars => IInv'
<1> SUFFICES ASSUME IInv, [Next]_vars PROVE IInv'
  OBVIOUS
<1>1. ASSUME NEW r \in Requests, Handler(r) PROVE IInv'
  BY <1>1, LoginStep, RefreshStep, EndingStep DEF Handler
<1>2. ASSUME NEW active \in BOOLEAN, SetActive(active) PROVE IInv'
  <2>1. TypeOK /\ UNCHANGED <<session, password, held, nextId, pc, local>>
    BY <1>2 DEF IInv, SetActive
  <2>2. userActive' \in BOOLEAN  BY <1>2 DEF SetActive
  <2>3. QED  BY <2>1, <2>2, SessionKept, Outside
<1>3. ASSUME NEW s \in Ids, Expire(s) PROVE IInv'
  <2>1. TypeOK /\ UNCHANGED <<userActive, password, held, nextId, pc, local>>
    BY <1>3 DEF IInv, Expire
  <2>2. /\ Evolves(0)
        /\ \A t \in Ids : session'[t].status = "active" => session[t].status = "active"
    BY <1>3, <2>1, SessionExpires
  <2>3. userActive' \in BOOLEAN  BY <2>1 DEF TypeOK
  <2>4. QED  BY <2>1, <2>2, <2>3, Outside
<1>4. CASE UNCHANGED vars
  <2>1. TypeOK /\ UNCHANGED <<session, userActive, password, held, nextId, pc, local>>
    BY <1>4 DEF vars, IInv
  <2>2. userActive' \in BOOLEAN  BY <2>1 DEF TypeOK
  <2>3. QED  BY <2>1, <2>2, SessionKept, Outside
<1>5. QED  BY <1>1, <1>2, <1>3, <1>4 DEF Next

LEMMA Inductive == Spec => []IInv
  BY InitIInv, NextIInv, PTL DEF Spec

\* Every reachable state has the declared types, and no two rows or handlers
\* ever share a session id.
THEOREM TypeCorrect == Spec => []TypeOK
<1>1. IInv => TypeOK  BY DEF IInv
<1>2. QED  BY <1>1, Inductive, PTL

\* A session opened by a refresh is active only after the one it replaces was
\* retired, for any handlers in flight and any rollback.
THEOREM RotationIsAtomic == Spec => []ParentRetired
<1>1. IInv => ParentRetired  BY DEF IInv
<1>2. QED  BY <1>1, Inductive, PTL

\* No session opened by a refresh is ever refreshed itself.
THEOREM RotatesOnce == Spec => []RotatedOnce
<1>1. IInv => RotatedOnce  BY DEF IInv, Lineage, RotatedOnce, Root
<1>2. QED  BY <1>1, Inductive, PTL

-----------------------------------------------------------------------------
(* How many sessions can replace one session.  A refresh counts against    *)
(* the session it has read until it commits, when its new session counts   *)
(* in its place; once there is a successor, the session is inactive and no *)
(* refresh begins with it.                                                 *)

Refreshers(s) == {r \in Requests : /\ pc[r] \in {"refresh_session", "refresh_user"}
                                   /\ local[r].parent = s}

\* A session with a successor is inactive, whatever became of the successor.
Retired ==
    \A s \in Committed :
      session[s].parent # 0 => session[session[s].parent].status = "inactive"

SuccessorsInv ==
    \A s \in Ids : Cardinality(Successors(s)) + Cardinality(Refreshers(s)) <= Cardinality(Requests)

\* What the commits of login and refresh do to the table.
LEMMA CommitsOpen ==
    ASSUME IInv, NEW r \in Requests, LoginCommit(r) \/ RefreshCommit(r)
    PROVE  LET id == local[r].id
           IN  /\ id \in Ids /\ session[id].status = "none" /\ Evolves(id)
               /\ LoginCommit(r) => session'[id].parent = 0
               /\ RefreshCommit(r) => /\ session'[id].parent = local[r].parent
                                      /\ Root(local[r].parent)
                                      /\ session'[local[r].parent].status = "inactive"
<1>1. TypeOK /\ InFlight
  BY DEF IInv
<1>2. CASE LoginCommit(r)
  <2>1. local[r].id # 0 /\ local[r].rows \subseteq Committed
    BY <1>1, <1>2 DEF LoginCommit, InFlight
  <2>2. pc[r] # "refresh_user" /\ 0 \in 0..MaxIds
    BY <1>2, SessionsAssumption DEF LoginCommit
  <2>3. session' = Insert(Deactivate(session, local[r].rows, "evicted"),
                          local[r].id, 0, local[r].password)
    BY <1>2 DEF LoginCommit
  <2>4. /\ local[r].id \in Ids /\ session[local[r].id].status = "none" /\ Evolves(local[r].id)
        /\ session'[local[r].id].parent = 0
    BY <1>1, <2>1, <2>2, <2>3, Opened
  <2> QED  BY <2>2, <2>4 DEF RefreshCommit
<1>3. CASE RefreshCommit(r)
  <2> DEFINE p == local[r].parent
  <2>1. /\ local[r].id # 0 /\ Root(p) /\ {p} \subseteq Committed /\ p \in Ids /\ p \in 0..MaxIds
    BY <1>1, <1>3, SessionsAssumption DEF RefreshCommit, InFlight, Root, Committed, Ids
  <2>2. pc[r] # "login_evicted"
    BY <1>3 DEF RefreshCommit
  <2>3. PICK S : S = {p} /\ S \subseteq Committed
    BY <2>1
  <2>4. session' = Insert(Deactivate(session, S, "rotated"), local[r].id, p, local[r].password)
    BY <1>3, <2>3 DEF RefreshCommit
  <2>5. /\ local[r].id \in Ids /\ session[local[r].id].status = "none" /\ Evolves(local[r].id)
        /\ local[r].id \notin S /\ session'[local[r].id].parent = p
        /\ \A s \in Ids : s \in S => Deactivate(session, S, "rotated")[s].status = "inactive"
        /\ \A s \in Ids \ {local[r].id} : session'[s] = Deactivate(session, S, "rotated")[s]
    <3>1. TypeOK /\ local[r].id # 0 /\ S \subseteq Committed /\ p \in 0..MaxIds
      BY <1>1, <2>1, <2>3
    <3> HIDE DEF p
    <3> QED  BY <2>4, <3>1, Opened, SMTT(30)
  <2>6. session'[p].status = "inactive"
    BY <2>1, <2>3, <2>5
  <2> QED  BY <2>1, <2>2, <2>5, <2>6 DEF LoginCommit
<1> QED  BY <1>2, <1>3

\* All other steps open no session.
LEMMA OthersOpenNone ==
    ASSUME IInv, [Next]_vars, \A r \in Requests : ~LoginCommit(r) /\ ~RefreshCommit(r)
    PROVE  Evolves(0)
<1>1. TypeOK /\ InFlight
  BY DEF IInv
<1>2. CASE UNCHANGED session
  BY <1>1, <1>2, SessionKept
<1>3. ASSUME NEW r \in Requests, LogoutAllCommit(r) \/ ChangePasswordCommit(r) PROVE Evolves(0)
  BY <1>1, <1>3, SessionEnded DEF LogoutAllCommit, ChangePasswordCommit, InFlight
<1>4. ASSUME NEW r \in Requests, NEW s \in Ids, Revoke(r, s) PROVE Evolves(0)
  <2>1. {s} \subseteq Committed
    BY <1>4 DEF Revoke
  <2> QED  BY <1>1, <1>4, <2>1, SessionEnded DEF Revoke
<1>5. ASSUME NEW s \in Ids, Expire(s) PROVE Evolves(0)
  BY <1>1, <1>5, SessionExpires
<1>6. ASSUME NEW r \in Requests, Handler(r) PROVE Evolves(0)
  <2>1. CASE \/ LoginUser(r) \/ LoginCount(r) \/ LoginEvict(r) \/ RefreshUser(r)
             \/ LogoutAllStart(r) \/ ChangePasswordRead(r) \/ ChangePasswordUpdate(r)
             \/ Rollback(r) \/ \E s \in Ids : RefreshSession(r, s) \/ Logout(r, s)
    <3>1. UNCHANGED session
      BY <2>1 DEF LoginUser, LoginCount, LoginEvict, RefreshUser, LogoutAllStart,
                  ChangePasswordRead, ChangePasswordUpdate, Rollback, RefreshSession, Logout,
                  Unchanged
    <3> QED  BY <1>2, <3>1
  <2> QED  BY <1>3, <1>4, <1>6, <2>1 DEF Handler
<1> QED
  BY <1>2, <1>5, <1>6 DEF Next, SetActive, vars

\* A session that has a successor stays inactive.
LEMMA NextRetired == IInv /\ Retired /\ [Next]_vars => Retired'
<1> SUFFICES ASSUME IInv, Retired, [Next]_vars,
                    NEW s \in Committed', session'[s].parent # 0
             PROVE  session'[session'[s].parent].status = "inactive"
  BY DEF Retired
<1>1. ASSUME NEW id, Evolves(id), s # id PROVE session'[session'[s].parent].status = "inactive"
  <2>1. s \in Committed /\ session'[s].parent = session[s].parent
    BY <1>1 DEF Committed, Evolves
  <2>2. Root(session[s].parent) /\ session[session[s].parent].status = "inactive"
    BY <2>1 DEF Retired, IInv, Lineage
  <2> QED  BY <1>1, <2>1, <2>2 DEF Evolves, Root, Committed
<1>2. ASSUME NEW r \in Requests, LoginCommit(r) \/ RefreshCommit(r)
      PROVE  session'[session'[s].parent].status = "inactive"
  BY <1>1, <1>2, CommitsOpen
<1>3. s # 0
  BY DEF Committed, Ids
<1> QED  BY <1>1, <1>2, <1>3, OthersOpenNone

\* A refresh in flight read an active session, and keeps it.
LEMMA RefresherStep ==
    ASSUME IInv, [Next]_vars, NEW q \in Requests,
           pc'[q] \in {"refresh_session", "refresh_user"}
    PROVE  \/ /\ pc[q] \in {"refresh_session", "refresh_user"}
              /\ local'[q].parent = local[q].parent
           \/ session[local'[q].parent].status = "active" /\ UNCHANGED session
<1> USE DEF IInv, TypeOK
<1>1. ASSUME NEW s \in Ids, RefreshSession(q, s)
      PROVE  session[local'[q].parent].status = "active" /\ UNCHANGED session
  <2>1. local'[q] = Begun(nextId + 1, s, session[s].password)
    BY <1>1 DEF RefreshSession, Goto
  <2> QED  BY <1>1, <2>1 DEF RefreshSession, Begun
<1>2. ASSUME NEW r \in Requests, NEW next, NEW values, Goto(r, next, values),
             r # q \/ next \notin {"refresh_session", "refresh_user"}
      PROVE  pc'[q] = pc[q] /\ local'[q] = local[q]
  BY <1>2 DEF Goto
<1>3. ASSUME RefreshUser(q) PROVE pc[q] = "refresh_session" /\ local'[q] = local[q]
  BY <1>3 DEF RefreshUser, Goto, Done
<1>4. ASSUME NEW r \in Requests, NEW s \in Ids, RefreshSession(r, s), r # q
      PROVE  pc'[q] = pc[q] /\ local'[q] = local[q]
  BY <1>2, <1>4 DEF RefreshSession
<1>5. ASSUME NEW r \in Requests, RefreshUser(r), r # q
      PROVE  pc'[q] = pc[q] /\ local'[q] = local[q]
  BY <1>2, <1>5 DEF RefreshUser, Done
<1>6. ASSUME NEW r \in Requests,
             \/ LoginUser(r) \/ LoginCount(r) \/ LoginEvict(r) \/ LoginCommit(r)
             \/ RefreshCommit(r) \/ LogoutAllStart(r) \/ LogoutAllCommit(r)
             \/ ChangePasswordRead(r) \/ ChangePasswordUpdate(r) \/ ChangePasswordCommit(r)
             \/ Rollback(r)
      PROVE  pc'[q] = pc[q] /\ local'[q] = local[q]
  BY <1>2, <1>6
     DEF LoginUser, LoginCount, LoginEvict, LoginCommit, RefreshCommit, LogoutAllStart,
         LogoutAllCommit, ChangePasswordRead, ChangePasswordUpdate, ChangePasswordCommit,
         Rollback, Done
<1>7. CASE UNCHANGED <<pc, local>>
  BY <1>7
<1> QED
  BY <1>1, <1>3, <1>4, <1>5, <1>6, <1>7 DEF Next, Handler, Logout, Revoke, SetActive, Expire, vars

\* What is counted is finite.
LEMMA CountsFinite ==
    ASSUME NEW s
    PROVE  /\ IsFiniteSet(Refreshers(s)) /\ IsFiniteSet(Requests) /\ IsFiniteSet(Successors(s))
           /\ Cardinality(Refreshers(s)) \in Nat /\ Cardinality(Requests) \in Nat
           /\ Cardinality(Successors(s)) \in Nat
           /\ Cardinality(Refreshers(s)) <= Cardinality(Requests)
<1>1. Refreshers(s) \in SUBSET Requests
  BY DEF Refreshers
<1>2. IsFiniteSet(Ids)
  BY SessionsAssumption, FS_Interval DEF Ids
<1>3. Successors(s) \in SUBSET Ids
  BY DEF Successors, Committed
<1> QED  BY <1>1, <1>2, <1>3, SessionsAssumption, FS_Subset, FS_CardinalityType

\* A commit moves one refresh from those in flight to the successors; all other
\* steps add to neither, or find a session that has no successor yet.
LEMMA NextSuccessors == IInv /\ Retired /\ SuccessorsInv /\ [Next]_vars => SuccessorsInv'
<1> SUFFICES ASSUME IInv, Retired, SuccessorsInv, [Next]_vars, NEW s \in Ids
             PROVE  Cardinality(Successors(s)') + Cardinality(Refreshers(s)')
                      <= Cardinality(Requests)
  BY DEF SuccessorsInv
<1>1. /\ IsFiniteSet(Refreshers(s)) /\ IsFiniteSet(Requests) /\ IsFiniteSet(Successors(s))
      /\ Cardinality(Refreshers(s)) \in Nat /\ Cardinality(Successors(s)) \in Nat
      /\ Cardinality(Requests) \in Nat
      /\ Cardinality(Successors(s)) + Cardinality(Refreshers(s)) <= Cardinality(Requests)
  BY CountsFinite DEF SuccessorsInv
<1>2. /\ Refreshers(s)' \subseteq Requests
      /\ Cardinality(Refreshers(s)') \in Nat
      /\ Cardinality(Refreshers(s)') <= Cardinality(Requests)
  <2>1. Refreshers(s)' \in SUBSET Requests
    BY DEF Refreshers
  <2> QED  BY <2>1, SessionsAssumption, FS_Subset, FS_CardinalityType
<1>3. ASSUME NEW r \in Requests, RefreshCommit(r), local[r].parent = s
      PROVE  Cardinality(Successors(s)') + Cardinality(Refreshers(s)') <= Cardinality(Requests)
  <2> DEFINE id == local[r].id
  <2>1. id \in Ids /\ session[id].status = "none" /\ Evolves(id) /\ session'[id].parent = s
    BY <1>3, CommitsOpen
  <2>2. Successors(s)' = Successors(s) \cup {id} /\ id \notin Successors(s)
    BY <2>1 DEF Successors, Committed, Evolves
  <2>3. Cardinality(Successors(s)') = Cardinality(Successors(s)) + 1
    BY <1>1, <2>2, FS_AddElement
  <2>4. r \in Refreshers(s)
    BY <1>3 DEF RefreshCommit, Refreshers
  <2>5. Refreshers(s)' = Refreshers(s) \ {r}
    BY <1>3 DEF RefreshCommit, Done, Goto, Refreshers, IInv, TypeOK
  <2>6. Cardinality(Refreshers(s)') = Cardinality(Refreshers(s)) - 1
    BY <1>1, <2>4, <2>5, FS_RemoveElement
  <2> QED  BY <1>1, <2>3, <2>6
<1>4. ASSUME \A r \in Requests : ~(RefreshCommit(r) /\ local[r].parent = s)
      PROVE  Successors(s)' = Successors(s)
  <2>1. ASSUME NEW r \in Requests, LoginCommit(r) \/ RefreshCommit(r)
        PROVE  Successors(s)' = Successors(s)
    <3>1. /\ local[r].id \in Ids /\ session[local[r].id].status = "none" /\ Evolves(local[r].id)
          /\ session'[local[r].id].parent # s
      BY <1>4, <2>1, CommitsOpen DEF Ids
    <3> QED  BY <3>1 DEF Successors, Committed, Evolves
  <2>2. CASE Evolves(0)
    BY <2>2 DEF Successors, Committed, Evolves, Ids
  <2> QED  BY <2>1, <2>2, OthersOpenNone
<1>5. CASE Refreshers(s)' \subseteq Refreshers(s)
  <2>1. Cardinality(Refreshers(s)') <= Cardinality(Refreshers(s))
    BY <1>1, <1>5, FS_Subset
  <2> QED  BY <1>1, <1>2, <1>3, <1>4, <2>1
<1>6. CASE session[s].status = "active" /\ UNCHANGED session
  <2>1. Successors(s) = {} /\ Successors(s)' = {}
    BY <1>6 DEF Successors, Committed, Retired, Ids
  <2> QED  BY <1>2, <2>1, FS_EmptySet
<1> QED
  BY <1>5, <1>6, RefresherStep DEF Refreshers

\* However many refreshes present one token together, it is never replaced by more
\* sessions than handlers can be in flight (service.rs:230-279).
THEOREM RefreshesAreBounded == Spec => []SuccessorsBounded
<1>1. Init => Retired /\ SuccessorsInv
  <2> SUFFICES ASSUME Init PROVE Retired /\ SuccessorsInv
    OBVIOUS
  <2>1. Committed = {} /\ \A s : Successors(s) = {}
    BY DEF Init, Committed, Successors, NoRow
  <2>2. ASSUME NEW s \in Ids
        PROVE  Cardinality(Successors(s)) + Cardinality(Refreshers(s)) <= Cardinality(Requests)
    BY <2>1, CountsFinite, FS_EmptySet
  <2> QED  BY <2>1, <2>2 DEF Retired, SuccessorsInv
<1>2. IInv /\ Retired /\ SuccessorsInv /\ [Next]_vars => (Retired /\ SuccessorsInv)'
  BY NextRetired, NextSuccessors
<1>3. SuccessorsInv => SuccessorsBounded
  BY CountsFinite DEF SuccessorsInv, SuccessorsBounded
<1> QED  BY <1>1, <1>2, <1>3, Inductive, PTL DEF Spec
=============================================================================
