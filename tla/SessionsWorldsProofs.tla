------------------------- MODULE SessionsWorldsProofs -------------------------
(***************************************************************************)
(* Theorems about the worlds of MCSessionsMixed, for any number of         *)
(* handlers and sessions: what concurrent logins do to the limit, and what *)
(* holds as long as handlers run one after the other.                      *)
(***************************************************************************)
EXTENDS MCSessionsMixed, SessionsProofs

-----------------------------------------------------------------------------
(* Sets of session ids.                                                    *)

\* There are finitely many ids.
LEMMA IdsFinite ==
    ASSUME NEW S \in SUBSET Ids
    PROVE  IsFiniteSet(S) /\ Cardinality(S) \in Nat
<1>1. IsFiniteSet(Ids)
  BY SessionsAssumption, FS_Interval DEF Ids
<1> QED  BY <1>1, FS_Subset, FS_CardinalityType

\* The first n natural numbers.
LEMMA ZeroTo ==
    ASSUME NEW n \in Nat
    PROVE  IsFiniteSet(0 .. n - 1) /\ Cardinality(0 .. n - 1) = n
<1>1. 0 \in Int /\ n - 1 \in Int
  OBVIOUS
<1>2. /\ IsFiniteSet(0 .. n - 1)
      /\ Cardinality(0 .. n - 1) = IF 0 > n - 1 THEN 0 ELSE n - 1 - 0 + 1
  BY <1>1, FS_Interval
<1>3. (IF 0 > n - 1 THEN 0 ELSE n - 1 - 0 + 1) = n
  OBVIOUS
<1> QED  BY <1>2, <1>3

\* The subselect of login finds n rows, or all there are.
LEMMA OldestSize ==
    ASSUME NEW S \in SUBSET Ids, NEW n \in Nat
    PROVE  Cardinality(Oldest(S, n)) >= n \/ Oldest(S, n) = S
<1> DEFINE Below(s) == {t \in S : t < s}
           size == Cardinality(S)
<1>1. IsFiniteSet(S) /\ size \in Nat
  BY IdsFinite
<1>2. \A s \in S : s \in Int
  BY SessionsAssumption DEF Ids
<1>3. ASSUME NEW s \in S
      PROVE  IsFiniteSet(Below(s)) /\ Cardinality(Below(s)) \in 0 .. size - 1
  <2>1. Below(s) \subseteq S \ {s}
    BY <1>2
  <2>2. IsFiniteSet(S \ {s}) /\ Cardinality(S \ {s}) = size - 1
    BY <1>1, FS_RemoveElement
  <2>3. /\ IsFiniteSet(Below(s)) /\ Cardinality(Below(s)) <= Cardinality(S \ {s})
        /\ Cardinality(Below(s)) \in Nat
    <3> HIDE DEF Below
    <3> QED  BY <2>1, <2>2, FS_Subset, FS_CardinalityType
  <2> QED  BY <1>1, <2>2, <2>3
<1>4. ASSUME NEW s \in S, NEW t \in S, s < t
      PROVE  Cardinality(Below(s)) < Cardinality(Below(t))
  <2>1. s \notin Below(s) /\ Below(s) \cup {s} \subseteq Below(t)
    BY <1>2, <1>4
  <2> HIDE DEF Below
  <2>2. /\ IsFiniteSet(Below(s) \cup {s})
        /\ Cardinality(Below(s) \cup {s}) = Cardinality(Below(s)) + 1
    BY <1>3, <2>1, FS_AddElement
  <2>3. Cardinality(Below(s) \cup {s}) <= Cardinality(Below(t))
    BY <1>3, <2>1, FS_Subset
  <2> QED  BY <1>1, <1>3, <2>2, <2>3
<1> DEFINE rank == [s \in S |-> Cardinality(Below(s))]
<1>5. rank \in Injection(S, 0 .. size - 1)
  <2>1. rank \in [S -> 0 .. size - 1]
    BY <1>3
  <2>2. ASSUME NEW s \in S, NEW t \in S, rank[s] = rank[t] PROVE s = t
    <3>1. rank[s] \in Int /\ rank[t] \in Int
      BY <1>1, <2>1
    <3>2. ~(s < t) /\ ~(t < s)
      BY <1>4, <2>2, <3>1
    <3> QED  BY <1>2, <3>2
  <2> HIDE DEF rank
  <2> QED  BY <2>1, <2>2 DEF Injection, IsInjective
<1>6. rank \in Surjection(S, 0 .. size - 1)
  <2>1. IsFiniteSet(0 .. size - 1) /\ Cardinality(0 .. size - 1) = size
    BY <1>1, ZeroTo
  <2> HIDE DEF rank
  <2> QED  BY <1>5, <2>1, FS_Injection
<1>7. Oldest(S, n) = {s \in S : rank[s] < n}
  BY DEF Oldest
<1>8. CASE n <= size
  <2> DEFINE old == [s \in Oldest(S, n) |-> rank[s]]
  <2> HIDE DEF rank
  <2>1. \A k \in 0 .. n - 1 : \E s \in Oldest(S, n) : rank[s] = k
    BY <1>1, <1>6, <1>7, <1>8 DEF Surjection
  <2>2. \A s \in Oldest(S, n) : rank[s] \in 0 .. n - 1
    BY <1>1, <1>6, <1>7 DEF Surjection
  <2>3. old \in Surjection(Oldest(S, n), 0 .. n - 1)
    BY <2>1, <2>2 DEF Surjection
  <2>4. Oldest(S, n) \in SUBSET Ids
    BY <1>7
  <2>5. Cardinality(0 .. n - 1) <= Cardinality(Oldest(S, n))
    <3> HIDE DEF old
    <3> QED  BY <2>3, <2>4, IdsFinite, FS_Surjection
  <2>6. Cardinality(0 .. n - 1) = n
    BY ZeroTo
  <2> QED  BY <2>4, <2>5, <2>6, IdsFinite
<1>9. CASE n > size
  <2>1. ASSUME NEW s \in S PROVE rank[s] < n
    <3> HIDE DEF Below, size
    <3>1. Cardinality(Below(s)) < n
      BY <1>1, <1>3, <1>9
    <3> QED  BY <3>1
  <2> QED  BY <1>7, <2>1
<1> QED  BY <1>1, <1>8, <1>9

\* All rows it does not find are younger than those it finds.
LEMMA OldestFirst ==
    ASSUME NEW S \in SUBSET Ids, NEW n \in Nat, NEW s \in Oldest(S, n), NEW t \in S \ Oldest(S, n)
    PROVE  s < t
<1> SUFFICES ASSUME ~(s < t) PROVE FALSE
  OBVIOUS
<1>1. s \in S /\ s \in Int /\ t \in Int
  BY SessionsAssumption DEF Ids, Oldest
<1>2. \A x \in S : x \in Int
  BY SessionsAssumption DEF Ids
<1> DEFINE Below(u) == {x \in S : x < u}
<1>3. Below(t) \in SUBSET Below(s)
  <2>1. ASSUME NEW x \in S, x < t PROVE x < s
    BY <1>1, <1>2, <2>1
  <2> QED  BY <2>1
<1>4. Cardinality(Below(s)) < n /\ ~(Cardinality(Below(t)) < n)
  BY DEF Oldest
<1>5. Below(s) \in SUBSET Ids /\ Below(t) \in SUBSET Ids
  OBVIOUS
<1> HIDE DEF Below
<1>6. Cardinality(Below(t)) <= Cardinality(Below(s))
  BY <1>3, <1>5, IdsFinite, FS_Subset
<1> QED  BY <1>4, <1>5, <1>6, IdsFinite

-----------------------------------------------------------------------------
(* The limit.  A login that has counted will deactivate some of the rows   *)
(* that are active now, and may then open a session: Ready(j) holds those  *)
(* that deactivate at most j.  The sessions above j and these logins       *)
(* together never exceed the bound, for any j.                             *)

Counting == {"login_counted", "login_evicted"}

Ready(j) ==
    {r \in Requests :
       \/ pc[r] = "login_counted" /\ local[r].count - MaxSessions + 1 <= j
       \/ pc[r] = "login_evicted" /\ Cardinality(local[r].rows \cap Active) <= j}

CapInv ==
    \A j \in Nat :
      Cardinality(Active) - j + Cardinality(Ready(j)) <= MaxSessions + Cardinality(Requests) - 1

\* What CapInv counts.
LEMMA ReadyFinite ==
    ASSUME NEW S \in SUBSET Requests
    PROVE  /\ IsFiniteSet(S) /\ Cardinality(S) \in Nat
           /\ Cardinality(Requests) \in Nat /\ Cardinality(S) <= Cardinality(Requests)
  BY SessionsAssumption, FS_Subset, FS_CardinalityType

\* Rows that a commit deactivates leave a login at most so many fewer to evict.
LEMMA FewerLive ==
    ASSUME NEW R, NEW A \in SUBSET Ids, NEW B \in SUBSET Ids, NEW W \in SUBSET A, A \ W \subseteq B
    PROVE  Cardinality(R \cap A) <= Cardinality(R \cap B) + Cardinality(W)
<1>1. /\ R \cap B \in SUBSET Ids /\ W \in SUBSET Ids
      /\ R \cap A \in SUBSET ((R \cap B) \cup W) /\ (R \cap B) \cap W \in SUBSET Ids
      /\ (R \cap B) \cup W \in SUBSET Ids /\ R \cap A \in SUBSET Ids
  OBVIOUS
<1> DEFINE K == R \cap B
<1>2. Cardinality(K \cup W) = Cardinality(K) + Cardinality(W) - Cardinality(K \cap W)
  <2> HIDE DEF K
  <2> QED  BY <1>1, IdsFinite, FS_Union DEF K
<1>3. Cardinality(R \cap A) <= Cardinality(K \cup W)
  BY <1>1, IdsFinite, FS_Subset
<1>4. /\ Cardinality(K) \in Nat /\ Cardinality(W) \in Nat /\ Cardinality(K \cap W) \in Nat
      /\ Cardinality(K \cup W) \in Nat /\ Cardinality(R \cap A) \in Nat
  BY <1>1, IdsFinite
<1> HIDE DEF K
<1>5. Cardinality(R \cap A) <= Cardinality(K) + Cardinality(W)
  BY <1>2, <1>3, <1>4
<1> QED  BY <1>5 DEF K

\* Handlers that go on as before, after the rows of W were deactivated.
LEMMA ReadyBefore ==
    ASSUME TypeOK, NEW W \in SUBSET Active, Active \ W \subseteq Active',
           \A q \in Requests : \/ pc'[q] = pc[q] /\ local'[q] = local[q]
                               \/ pc'[q] \notin Counting,
           NEW j \in Nat
    PROVE  Ready(j)' \subseteq Ready(j + Cardinality(W))
<1> SUFFICES ASSUME NEW q \in Requests, q \in Ready(j)'
             PROVE  q \in Ready(j + Cardinality(W))
  BY DEF Ready
<1>1. pc'[q] = pc[q] /\ local'[q] = local[q]
  BY DEF Ready, Counting
<1>2. W \in SUBSET Ids /\ Active \in SUBSET Ids /\ Active' \in SUBSET Ids
  BY DEF Active
<1>3. Cardinality(W) \in Nat
  BY <1>2, IdsFinite
<1>4. CASE pc[q] = "login_counted"
  <2>1. local[q].count \in Int
    BY SessionsAssumption DEF TypeOK, Local
  <2> QED  BY <1>1, <1>3, <1>4, <2>1, SessionsAssumption DEF Ready
<1>5. CASE pc[q] = "login_evicted"
  <2>1. Cardinality(local[q].rows \cap Active')  <= j
    BY <1>1, <1>5 DEF Ready
  <2>2. Cardinality(local[q].rows \cap Active)
          <= Cardinality(local[q].rows \cap Active') + Cardinality(W)
    BY <1>2, FewerLive
  <2>3. /\ local[q].rows \cap Active \in SUBSET Ids
        /\ local[q].rows \cap Active' \in SUBSET Ids
    BY <1>2
  <2>4. Cardinality(local[q].rows \cap Active) <= j + Cardinality(W)
    BY <1>3, <2>1, <2>2, <2>3, IdsFinite
  <2> QED  BY <1>5, <2>4 DEF Ready
<1> QED  BY <1>1, <1>4, <1>5 DEF Ready

\* A step that opens no session and makes no login ready.
LEMMA CapKept ==
    ASSUME TypeOK, CapInv, NEW W \in SUBSET Active, Active' = Active \ W,
           \A q \in Requests : \/ pc'[q] = pc[q] /\ local'[q] = local[q]
                               \/ pc'[q] \notin Counting
    PROVE  CapInv'
<1>1. W \in SUBSET Ids /\ Active \in SUBSET Ids /\ Active \cap W = W
  BY DEF Active
<1>2. /\ Cardinality(W) \in Nat /\ Cardinality(Active) \in Nat /\ Cardinality(Active') \in Nat
      /\ Cardinality(Active') = Cardinality(Active) - Cardinality(W)
  <2>1. Cardinality(Active \ W) = Cardinality(Active) - Cardinality(Active \cap W)
    BY <1>1, IdsFinite, FS_Difference
  <2> QED  BY <1>1, <2>1, IdsFinite
<1> SUFFICES ASSUME NEW j \in Nat
             PROVE  Cardinality(Active') - j + Cardinality(Ready(j)')
                      <= MaxSessions + Cardinality(Requests) - 1
  BY DEF CapInv
<1>3. Cardinality(Ready(j)') <= Cardinality(Ready(j + Cardinality(W)))
      /\ Cardinality(Ready(j)') \in Nat /\ Cardinality(Ready(j + Cardinality(W))) \in Nat
  <2>1. /\ Ready(j)' \subseteq Ready(j + Cardinality(W))
        /\ Ready(j)' \in SUBSET Requests /\ Ready(j + Cardinality(W)) \in SUBSET Requests
    BY ReadyBefore DEF Ready
  <2> QED  BY <2>1, ReadyFinite, FS_Subset
<1>4. Cardinality(Active) - (j + Cardinality(W)) + Cardinality(Ready(j + Cardinality(W)))
        <= MaxSessions + Cardinality(Requests) - 1
  BY <1>2 DEF CapInv
<1>5. Cardinality(Requests) \in Nat /\ MaxSessions \in Nat
  BY SessionsAssumption, FS_CardinalityType
<1> QED  BY <1>2, <1>3, <1>4, <1>5

\* What the commits do to the set of active sessions.
LEMMA ActiveEnded ==
    ASSUME TypeOK, NEW S, NEW why, session' = Deactivate(session, S, why)
    PROVE  Active' = Active \ S
<1>1. \A s \in Ids : session'[s] = IF s \in S
                                   THEN [session[s] EXCEPT !.status = "inactive",
                                           !.why = IF session[s].status = "active" THEN why ELSE @]
                                   ELSE session[s]
  BY DEF Deactivate
<1>2. \A s \in Ids : session[s] \in Row
  BY DEF TypeOK
<1>3. \A s \in Ids : session'[s].status = IF s \in S THEN "inactive" ELSE session[s].status
  BY <1>1, <1>2 DEF Row
<1> QED  BY <1>3 DEF Active

\* A commit that opens a session adds it to those that stay active.
LEMMA ActiveOpened ==
    ASSUME TypeOK, NEW r \in Requests, local[r].id # 0,
           NEW S, S \subseteq Committed, NEW why \in {"evicted", "rotated", "ended"},
           NEW parent \in 0..MaxIds,
           session' = Insert(Deactivate(session, S, why), local[r].id, parent, local[r].password)
    PROVE  /\ local[r].id \in Ids /\ local[r].id \notin Committed
           /\ Active' = (Active \ S) \cup {local[r].id}
<1> DEFINE id == local[r].id
           d == Deactivate(session, S, why)
<1>1. /\ id \in Ids /\ session[id].status = "none"
      /\ session'[id].status = "active"
      /\ \A s \in Ids \ {id} : session'[s] = d[s]
  BY Opened
<1>2. \A s \in Ids : d[s].status = IF s \in S THEN "inactive" ELSE session[s].status
  <2>1. \A s \in Ids : session[s] \in Row
    BY DEF TypeOK
  <2> QED  BY <2>1 DEF Deactivate, Row
<1> HIDE DEF d
<1>3. \A s \in Ids : session'[s].status = "active" <=>
                       s = id \/ (s \notin S /\ session[s].status = "active")
  BY <1>1, <1>2 DEF Committed
<1> QED  BY <1>1, <1>3 DEF Active, Committed

\* A handler moves; the others do not.
LEMMA OneMoves ==
    ASSUME TypeOK, NEW r \in Requests, NEW next, NEW values, Goto(r, next, values)
    PROVE  /\ pc'[r] = next /\ local'[r] = values
           /\ \A q \in Requests \ {r} : pc'[q] = pc[q] /\ local'[q] = local[q]
  BY DEF TypeOK, Goto

\* A login that counts sees all the sessions: the others cannot be so many that the
\* bound is exceeded.
LEMMA CapCount ==
    ASSUME TypeOK, CapInv, NEW r \in Requests, LoginCount(r)
    PROVE  CapInv'
<1> DEFINE a == Cardinality(Active)
<1>1. Active' = Active /\ a \in Nat
  <2>1. Active' = Active /\ Active \in SUBSET Ids
    BY DEF LoginCount, Unchanged, Active
  <2> QED  BY <2>1, IdsFinite
<1>2. /\ pc[r] = "login_user" /\ pc'[r] = "login_counted" /\ local'[r].count = a
      /\ \A q \in Requests \ {r} : pc'[q] = pc[q] /\ local'[q] = local[q]
  <2>1. /\ pc[r] = "login_user"
        /\ Goto(r, "login_counted", [local[r] EXCEPT !.count = a])
    BY DEF LoginCount
  <2>2. [local[r] EXCEPT !.count = a].count = a
    BY DEF TypeOK, Local
  <2> HIDE DEF a
  <2> QED  BY <2>1, <2>2, OneMoves
<1> SUFFICES ASSUME NEW j \in Nat
             PROVE  a - j + Cardinality(Ready(j)') <= MaxSessions + Cardinality(Requests) - 1
  BY <1>1 DEF CapInv
<1>3. Cardinality(Requests) \in Nat /\ MaxSessions \in Nat
  BY SessionsAssumption, FS_CardinalityType
<1>4. Ready(j) \in SUBSET Requests /\ Ready(j)' \in SUBSET Requests
  BY DEF Ready
<1> HIDE DEF a
<1>5. CASE a - MaxSessions + 1 <= j
  <2>1. Cardinality(Ready(j)') <= Cardinality(Requests) /\ Cardinality(Ready(j)') \in Nat
    BY <1>4, ReadyFinite
  <2> QED  BY <1>1, <1>3, <1>5, <2>1
<1>6. CASE ~(a - MaxSessions + 1 <= j)
  <2>1. Ready(j)' \subseteq Ready(j)
    BY <1>1, <1>2, <1>6 DEF Ready
  <2>2. Cardinality(Ready(j)') <= Cardinality(Ready(j))
    BY <1>4, <2>1, ReadyFinite, FS_Subset
  <2>3. a - j + Cardinality(Ready(j)) <= MaxSessions + Cardinality(Requests) - 1
    BY DEF CapInv, a
  <2>4. Cardinality(Ready(j)) \in Nat /\ Cardinality(Ready(j)') \in Nat
    BY <1>4, ReadyFinite
  <2> QED  BY <1>1, <1>3, <2>2, <2>3, <2>4
<1> QED  BY <1>5, <1>6

\* A login that picks the rows to evict picks as many as it counted too many, or
\* all there are.
LEMMA CapEvict ==
    ASSUME TypeOK, CapInv, NEW r \in Requests, LoginEvict(r)
    PROVE  CapInv'
<1> DEFINE a == Cardinality(Active)
           n == local[r].count - MaxSessions + 1
           rows == IF local[r].count >= MaxSessions THEN Oldest(Active, n) ELSE {}
<1>1. Active' = Active /\ Active \in SUBSET Ids /\ a \in Nat
  <2>1. Active' = Active /\ Active \in SUBSET Ids
    BY DEF LoginEvict, Unchanged, Active
  <2> QED  BY <2>1, IdsFinite
<1>2. /\ pc[r] = "login_counted" /\ pc'[r] = "login_evicted" /\ local'[r].rows = rows
      /\ \A q \in Requests \ {r} : pc'[q] = pc[q] /\ local'[q] = local[q]
  <2>1. /\ pc[r] = "login_counted"
        /\ Goto(r, "login_evicted", [local[r] EXCEPT !.rows = rows])
    BY DEF LoginEvict
  <2>2. [local[r] EXCEPT !.rows = rows].rows = rows
    BY DEF TypeOK, Local
  <2> HIDE DEF rows
  <2> QED  BY <2>1, <2>2, OneMoves
<1>3. /\ Cardinality(Requests) \in Nat /\ MaxSessions \in Nat \ {0}
      /\ local[r].count \in Nat /\ n \in Int
  BY SessionsAssumption, FS_CardinalityType DEF TypeOK, Local
<1>4. /\ rows \in SUBSET Active /\ Cardinality(rows) \in Nat
      /\ Cardinality(rows) >= n \/ rows = Active
  <2>1. CASE local[r].count >= MaxSessions
    <3>1. n \in Nat
      BY <1>3, <2>1
    <3>2. Oldest(Active, n) \subseteq Active
      BY DEF Oldest
    <3> QED  BY <1>1, <2>1, <3>1, <3>2, OldestSize, IdsFinite
  <2>2. CASE ~(local[r].count >= MaxSessions)
    BY <1>1, <1>3, <2>2, FS_EmptySet
  <2> QED  BY <2>1, <2>2
<1> HIDE DEF rows
<1> SUFFICES ASSUME NEW j \in Nat
             PROVE  a - j + Cardinality(Ready(j)') <= MaxSessions + Cardinality(Requests) - 1
  BY <1>1 DEF CapInv
<1>5. Ready(j) \in SUBSET Requests /\ Ready(j)' \in SUBSET Requests
  BY DEF Ready
<1>6. rows \cap Active = rows
  BY <1>4
<1> HIDE DEF a
<1>7. CASE a <= j
  <2>1. Cardinality(Ready(j)') <= Cardinality(Requests) /\ Cardinality(Ready(j)') \in Nat
    BY <1>5, ReadyFinite
  <2> QED  BY <1>1, <1>3, <1>7, <2>1
<1>8. CASE ~(a <= j)
  <2>1. ASSUME r \in Ready(j)' PROVE r \in Ready(j)
    <3>1. Cardinality(rows) <= j
      BY <1>1, <1>2, <1>6, <2>1 DEF Ready
    <3>2. rows # Active
      BY <1>1, <1>8, <3>1 DEF a
    <3>3. n <= j
      BY <1>3, <1>4, <3>1, <3>2
    <3> QED  BY <1>2, <3>3 DEF Ready
  <2>2. \A q \in Requests \ {r} : q \in Ready(j)' => q \in Ready(j)
    BY <1>1, <1>2 DEF Ready
  <2>3. Ready(j)' \subseteq Ready(j)
    BY <1>5, <2>1, <2>2
  <2>4. Cardinality(Ready(j)') <= Cardinality(Ready(j))
    BY <1>5, <2>3, ReadyFinite, FS_Subset
  <2>5. a - j + Cardinality(Ready(j)) <= MaxSessions + Cardinality(Requests) - 1
    BY DEF CapInv, a
  <2>6. Cardinality(Ready(j)) \in Nat /\ Cardinality(Ready(j)') \in Nat
    BY <1>5, ReadyFinite
  <2> QED  BY <1>1, <1>3, <2>4, <2>5, <2>6
<1> QED  BY <1>7, <1>8

\* A login that commits was ready: its new session takes the place it held.
LEMMA CapCommit ==
    ASSUME IInv, CapInv, NEW r \in Requests, LoginCommit(r)
    PROVE  CapInv'
<1> DEFINE a == Cardinality(Active)
           id == local[r].id
           W == local[r].rows \cap Active
           k == Cardinality(W)
<1>1. TypeOK /\ pc[r] = "login_evicted" /\ id # 0 /\ local[r].rows \subseteq Committed
  BY DEF IInv, InFlight, LoginCommit
<1>2. /\ id \notin Committed /\ Active' = (Active \ local[r].rows) \cup {id}
  <2>1. 0 \in 0..MaxIds
    BY SessionsAssumption
  <2>2. session' = Insert(Deactivate(session, local[r].rows, "evicted"),
                          local[r].id, 0, local[r].password)
    BY DEF LoginCommit
  <2> QED  BY <1>1, <2>1, <2>2, ActiveOpened
<1>3. /\ W \in SUBSET Active /\ W \in SUBSET Ids /\ Active \in SUBSET Ids
      /\ Active \ W \in SUBSET Ids /\ Active' = (Active \ W) \cup {id} /\ id \notin Active
  BY <1>2 DEF Active, Committed
<1>4. a \in Nat /\ k \in Nat /\ Cardinality(Active') = a - k + 1
  <2>1. Active \cap W = W
    BY <1>3
  <2> HIDE DEF W
  <2>2. Cardinality(Active \ W) = a - k
    BY <1>3, <2>1, IdsFinite, FS_Difference
  <2>3. Cardinality((Active \ W) \cup {id}) = Cardinality(Active \ W) + 1
    BY <1>3, IdsFinite, FS_AddElement
  <2> QED  BY <1>3, <2>2, <2>3, IdsFinite
<1>5. /\ pc'[r] = "idle"
      /\ \A q \in Requests \ {r} : pc'[q] = pc[q] /\ local'[q] = local[q]
  BY <1>1, OneMoves DEF LoginCommit, Done
<1>6. Cardinality(Requests) \in Nat /\ MaxSessions \in Nat
  BY SessionsAssumption, FS_CardinalityType
<1> SUFFICES ASSUME NEW j \in Nat
             PROVE  Cardinality(Active') - j + Cardinality(Ready(j)')
                      <= MaxSessions + Cardinality(Requests) - 1
  BY DEF CapInv
<1>7. Ready(j + k) \in SUBSET Requests /\ Ready(j)' \in SUBSET Requests
  BY DEF Ready
<1>8. Ready(j)' \subseteq Ready(j + k)
  <2>1. \A q \in Requests : \/ pc'[q] = pc[q] /\ local'[q] = local[q]
                            \/ pc'[q] \notin Counting
    BY <1>5 DEF Counting
  <2> HIDE DEF W
  <2> QED  BY <1>1, <1>3, <2>1, ReadyBefore
<1>9. r \in Ready(j + k) /\ r \notin Ready(j)'
  BY <1>1, <1>4, <1>5 DEF Ready
<1>10. Cardinality(Ready(j)') <= Cardinality(Ready(j + k)) - 1
  <2>1. Cardinality(Ready(j + k) \ {r}) = Cardinality(Ready(j + k)) - 1
    BY <1>7, <1>9, ReadyFinite, FS_RemoveElement
  <2>2. Ready(j)' \in SUBSET (Ready(j + k) \ {r}) /\ Ready(j + k) \ {r} \in SUBSET Requests
    BY <1>7, <1>8, <1>9
  <2>3. Cardinality(Ready(j)') <= Cardinality(Ready(j + k) \ {r})
    BY <2>2, ReadyFinite, FS_Subset
  <2> QED  BY <2>1, <2>3
<1>11. a - (j + k) + Cardinality(Ready(j + k)) <= MaxSessions + Cardinality(Requests) - 1
  BY <1>4 DEF CapInv
<1>12. Cardinality(Ready(j + k)) \in Nat /\ Cardinality(Ready(j)') \in Nat
  BY <1>7, ReadyFinite
<1> HIDE DEF a, k
<1> QED  BY <1>4, <1>6, <1>10, <1>11, <1>12

\* Only a refresh adds a session without looking at the limit.
LEMMA CapStep ==
    ASSUME IInv, CapInv, [Next]_vars, \A r \in Requests : ~RefreshCommit(r)
    PROVE  CapInv'
<1>1. TypeOK /\ InFlight
  BY DEF IInv
<1>2. ASSUME UNCHANGED session,
             \A q \in Requests : \/ pc'[q] = pc[q] /\ local'[q] = local[q]
                                 \/ pc'[q] \notin Counting
      PROVE  CapInv'
  <2>1. Active' = Active
    BY <1>2 DEF Active
  <2>2. PICK W \in SUBSET Active : W = {}
    OBVIOUS
  <2> QED  BY <1>1, <1>2, <2>1, <2>2, CapKept
<1>3. ASSUME NEW S, NEW why, session' = Deactivate(session, S, why),
             \A q \in Requests : \/ pc'[q] = pc[q] /\ local'[q] = local[q]
                                 \/ pc'[q] \notin Counting
      PROVE  CapInv'
  <2>1. Active' = Active \ S
    BY <1>1, <1>3, ActiveEnded
  <2>2. PICK W \in SUBSET Active : W = S \cap Active
    OBVIOUS
  <2>3. Active' = Active \ W
    BY <2>1, <2>2
  <2> QED  BY <1>1, <1>3, <2>3, CapKept
<1>4. ASSUME NEW r \in Requests, NEW next, NEW values, Goto(r, next, values),
             next \notin Counting
      PROVE  \A q \in Requests : \/ pc'[q] = pc[q] /\ local'[q] = local[q]
                                 \/ pc'[q] \notin Counting
  BY <1>1, <1>4, OneMoves
<1>5. ASSUME NEW r \in Requests, Handler(r) PROVE CapInv'
  <2>1. CASE LoginCount(r)
    BY <1>1, <2>1, CapCount
  <2>2. CASE LoginEvict(r)
    BY <1>1, <2>2, CapEvict
  <2>3. CASE LoginCommit(r)
    BY <2>3, CapCommit
  <2>4. CASE \/ LoginUser(r) \/ RefreshUser(r) \/ LogoutAllStart(r) \/ ChangePasswordRead(r)
             \/ ChangePasswordUpdate(r) \/ Rollback(r) \/ \E s \in Ids : RefreshSession(r, s)
    <3>1. UNCHANGED session
      BY <2>4 DEF LoginUser, RefreshUser, LogoutAllStart, ChangePasswordRead,
                  ChangePasswordUpdate, Rollback, RefreshSession, Unchanged
    <3>2. \E next, values : Goto(r, next, values) /\ next \notin Counting
      BY <2>4 DEF LoginUser, RefreshUser, LogoutAllStart, ChangePasswordRead,
                  ChangePasswordUpdate, Rollback, RefreshSession, Done, Counting
    <3> QED  BY <1>2, <1>4, <3>1, <3>2
  <2>5. CASE \E s \in Ids : Logout(r, s)
    BY <1>2, <2>5 DEF Logout
  <2>6. CASE \E s \in Ids : Revoke(r, s)
    BY <1>3, <2>6 DEF Revoke
  <2>7. CASE LogoutAllCommit(r) \/ ChangePasswordCommit(r)
    <3>1. session' = Deactivate(session, local[r].rows, "ended") /\ Goto(r, "idle", NoLocal)
      BY <2>7 DEF LogoutAllCommit, ChangePasswordCommit, Done
    <3>2. "idle" \notin Counting
      BY DEF Counting
    <3> QED  BY <1>3, <1>4, <3>1, <3>2
  <2> QED  BY <1>5, <2>1, <2>2, <2>3, <2>4, <2>5, <2>6, <2>7 DEF Handler
<1>6. ASSUME NEW s \in Ids, Expire(s) PROVE CapInv'
  <2>1. Active' = Active /\ UNCHANGED <<pc, local>>
    <3>1. session'[s].status = "active" /\ session[s].status = "active"
          /\ \A t \in Ids \ {s} : session'[t] = session[t]
      BY <1>1, <1>6 DEF Expire, TypeOK, Row
    <3> QED  BY <1>6, <3>1 DEF Active, Expire
  <2>2. PICK W \in SUBSET Active : W = {}
    OBVIOUS
  <2> QED  BY <1>1, <2>1, <2>2, CapKept
<1>7. CASE UNCHANGED <<session, pc, local>>
  BY <1>2, <1>7
<1> QED  BY <1>5, <1>6, <1>7 DEF Next, SetActive, vars

RefreshPhases == {"refresh_session", "refresh_user"}

\* A refresh begins with the SELECT of its session.
LEMMA RefreshBegins ==
    ASSUME TypeOK, [Next]_vars, NEW q \in Requests,
           pc[q] \notin RefreshPhases, pc'[q] \in RefreshPhases
    PROVE  \E s \in Ids : RefreshSession(q, s)
<1> SUFFICES ASSUME \A s \in Ids : ~RefreshSession(q, s) PROVE FALSE
  OBVIOUS
<1>1. ASSUME NEW r \in Requests, NEW next, NEW values, Goto(r, next, values),
             r # q \/ next \notin RefreshPhases
      PROVE  FALSE
  BY <1>1, OneMoves
<1>2. ASSUME NEW r \in Requests, Handler(r) PROVE FALSE
  <2>1. CASE \/ LoginUser(r) \/ LoginCount(r) \/ LoginEvict(r) \/ LoginCommit(r)
             \/ RefreshCommit(r) \/ LogoutAllStart(r) \/ LogoutAllCommit(r)
             \/ ChangePasswordRead(r) \/ ChangePasswordUpdate(r)
             \/ ChangePasswordCommit(r) \/ Rollback(r)
    BY <1>1, <2>1
       DEF LoginUser, LoginCount, LoginEvict, LoginCommit, RefreshCommit, LogoutAllStart,
           LogoutAllCommit, ChangePasswordRead, ChangePasswordUpdate,
           ChangePasswordCommit, Rollback, Done, RefreshPhases
  <2>2. CASE RefreshUser(r)
    <3>1. r # q
      BY <2>2 DEF RefreshUser, RefreshPhases
    <3> QED  BY <1>1, <2>2, <3>1 DEF RefreshUser, Done
  <2>3. CASE \E s \in Ids : RefreshSession(r, s)
    <3>1. r # q
      BY <2>3
    <3> QED  BY <1>1, <2>3, <3>1 DEF RefreshSession
  <2>4. CASE \E s \in Ids : Logout(r, s) \/ Revoke(r, s)
    BY <2>4 DEF Logout, Revoke
  <2> QED  BY <1>2, <2>1, <2>2, <2>3, <2>4 DEF Handler
<1> QED  BY <1>2 DEF Next, SetActive, Expire, vars

\* Without sessions and logins there is room.
LEMMA CapInit == Init => CapInv
<1> SUFFICES ASSUME Init, NEW j \in Nat
             PROVE  Cardinality(Active) - j + Cardinality(Ready(j))
                      <= MaxSessions + Cardinality(Requests) - 1
  BY DEF CapInv
<1>1. Active = {} /\ Ready(j) = {}
  BY DEF Init, Active, Ready, NoRow
<1>2. Cardinality(Requests) \in Nat /\ MaxSessions \in Nat \ {0}
  BY SessionsAssumption, FS_CardinalityType
<1> QED  BY <1>1, <1>2, FS_EmptySet

\* The bound on the sessions alone, from the one on sessions above 0 and the
\* logins that evict none.
LEMMA CapImplies == CapInv => LoginCap
<1> SUFFICES ASSUME CapInv PROVE LoginCap
  OBVIOUS
<1>1. Cardinality(Active) - 0 + Cardinality(Ready(0)) <= MaxSessions + Cardinality(Requests) - 1
  BY DEF CapInv
<1>2. Ready(0) \in SUBSET Requests /\ Active \in SUBSET Ids
  BY DEF Ready, Active
<1>3. Cardinality(Ready(0)) \in Nat /\ Cardinality(Active) \in Nat
      /\ Cardinality(Requests) \in Nat /\ MaxSessions \in Nat
  BY <1>2, ReadyFinite, IdsFinite, SessionsAssumption
<1> QED  BY <1>1, <1>3 DEF LoginCap

\* Where nobody refreshes, logins in flight together exceed the limit by the handlers
\* in flight at most, beside every other operation (service.rs:101-120).
THEOREM CapWithoutRefresh ==
    ASSUME "refresh" \notin Operations
    PROVE  Spec => []LoginCap
<1> DEFINE NoRefresh == \A r \in Requests : pc[r] \notin RefreshPhases
<1>1. Init => NoRefresh
  BY DEF Init, RefreshPhases
<1>2. NoRefresh /\ IInv /\ [Next]_vars => NoRefresh'
  BY RefreshBegins DEF RefreshSession, IInv
<1>3. NoRefresh /\ IInv /\ CapInv /\ [Next]_vars => CapInv'
  BY CapStep DEF RefreshCommit, RefreshPhases
<1> HIDE DEF NoRefresh
<1> QED  BY <1>1, <1>2, <1>3, CapInit, CapImplies, Inductive, PTL DEF Spec

-----------------------------------------------------------------------------
(* The worlds are behaviours of Sessions.                                  *)

\* The inductive invariant of Sessions holds in every world.
LEMMA MixedIInv == MixedSpec => []IInv
<1>1. MixedInit => IInv
  BY InitIInv DEF MixedInit
<1>2. IInv /\ [MixedNext]_<<vars, world>> => IInv'
  BY NextIInv DEF MixedNext, vars
<1> QED  BY <1>1, <1>2, PTL DEF MixedSpec

LoginsInv ==
    world = "logins" => CapInv /\ \A r \in Requests : pc[r] \notin RefreshPhases

\* Logins and logout_all in flight together exceed the limit by the handlers in
\* flight at most (service.rs:101-120).
THEOREM LoginsAreCapped == MixedSpec => []LoginsCapped
<1>1. MixedInit => LoginsInv
  BY CapInit DEF MixedInit, Init, LoginsInv, RefreshPhases
<1>2. ASSUME IInv, LoginsInv, MixedNext, world' = "logins"
      PROVE  CapInv' /\ \A r \in Requests : pc'[r] \notin RefreshPhases
  <2>1. [Next]_vars /\ world = "logins" /\ Busy({"refresh_session", "password_read"})' = {}
    BY <1>2 DEF MixedNext
  <2>2. CapInv'
    BY <1>2, <2>1, CapStep DEF LoginsInv, RefreshCommit, RefreshPhases
  <2>3. ASSUME NEW r \in Requests, pc'[r] \in RefreshPhases PROVE FALSE
    <3>1. PICK s \in Ids : RefreshSession(r, s)
      BY <1>2, <2>1, <2>3, RefreshBegins DEF LoginsInv, IInv
    <3>2. pc'[r] = "refresh_session"
      BY <1>2, <3>1, OneMoves DEF IInv, RefreshSession
    <3> QED  BY <2>1, <3>2 DEF Busy
  <2> QED  BY <2>2, <2>3
<1>3. IInv /\ LoginsInv /\ [MixedNext]_<<vars, world>> => LoginsInv'
  <2>1. CASE UNCHANGED <<vars, world>>
    BY <2>1 DEF LoginsInv, CapInv, Ready, Active, vars
  <2> QED  BY <1>2, <2>1 DEF LoginsInv
<1>4. LoginsInv => LoginsCapped
  BY CapImplies DEF LoginsInv, LoginsCapped
<1> QED  BY <1>1, <1>3, <1>4, MixedIInv, PTL DEF MixedSpec

-----------------------------------------------------------------------------
(* One handler at a time: what the handler in flight has read still holds, *)
(* for only the operations of one step run beside it.                      *)

OneBusy == \A q, r \in Requests : pc[q] # "idle" /\ pc[r] # "idle" => q = r

Knows(r) ==
    /\ pc[r] \in {"login_user", "login_counted", "login_evicted", "refresh_session",
                  "refresh_user"} => local[r].password = password
    /\ pc[r] \in {"logout_all", "password_updated"} => local[r].rows = Committed
    /\ pc[r] = "login_evicted" =>
         \A s \in local[r].rows, t \in Active \ local[r].rows : s < t

AloneInv == OneBusy /\ ActiveUnderCurrentPassword /\ \A r \in Requests : Knows(r)

\* Deactivated rows, column by column.
LEMMA EndedRows ==
    ASSUME TypeOK, NEW S, NEW why, NEW s \in Ids
    PROVE  /\ Deactivate(session, S, why)[s].password = session[s].password
           /\ Deactivate(session, S, why)[s].status =
                IF s \in S THEN "inactive" ELSE session[s].status
           /\ s \in S /\ session[s].status = "active" =>
                Deactivate(session, S, why)[s].why = why
<1>1. session[s] \in Row
  BY DEF TypeOK
<1> QED  BY <1>1 DEF Deactivate, Row

\* A commit that opens a session, column by column.
LEMMA OpenedRows ==
    ASSUME IInv, NEW r \in Requests, NEW S, NEW why,
           \/ /\ LoginCommit(r) /\ S = local[r].rows /\ why = "evicted"
           \/ /\ RefreshCommit(r) /\ S = {local[r].parent} /\ why = "rotated"
    PROVE  /\ local[r].id \in Ids \ Committed
           /\ session'[local[r].id].password = local[r].password
           /\ \A s \in Ids \ {local[r].id} : session'[s] = Deactivate(session, S, why)[s]
<1> DEFINE id == local[r].id
           d == Deactivate(session, S, why)
<1>1. id \in Ids \ Committed
  BY CommitsOpen DEF Committed
<1>2. \E parent : session' = Insert(d, id, parent, local[r].password)
  BY DEF LoginCommit, RefreshCommit
<1>3. d = [s \in Ids |-> d[s]]
  BY DEF Deactivate
<1> HIDE DEF d
<1>4. PICK parent : session' = Insert(d, id, parent, local[r].password)
  BY <1>2
<1>5. /\ session'[id] = [status |-> "active", why |-> "", expired |-> FALSE,
                         parent |-> parent, password |-> local[r].password]
      /\ \A s \in Ids \ {id} : session'[s] = d[s]
  BY <1>1, <1>3, <1>4 DEF Insert
<1>6. session'[id].password = local[r].password
  <2>1. [status |-> "active", why |-> "", expired |-> FALSE,
         parent |-> parent, password |-> local[r].password].password = local[r].password
    OBVIOUS
  <2> QED  BY <1>5, <2>1, Zenon
<1>7. \A s \in Ids \ {id} : session'[s] = Deactivate(session, S, why)[s]
  BY <1>5 DEF d
<1> QED  BY <1>1, <1>6, <1>7

\* A step that opens no session and leaves the handlers alone.
LEMMA AloneBeside ==
    ASSUME IInv, AloneInv, UNCHANGED <<password, pc, local>>, Evolves(0),
           Active' \subseteq Active, \A s \in Active' : session'[s].password = session[s].password
    PROVE  AloneInv'
<1>1. OneBusy'
  BY DEF AloneInv, OneBusy
<1>2. ActiveUnderCurrentPassword'
  BY DEF AloneInv, ActiveUnderCurrentPassword
<1>3. Committed' = Committed
  BY DEF Evolves, Committed, Ids
<1>4. ASSUME NEW r \in Requests PROVE Knows(r)'
  <2>1. Knows(r)
    BY DEF AloneInv
  <2> QED  BY <1>3, <2>1 DEF Knows
<1> QED  BY <1>1, <1>2, <1>4 DEF AloneInv

\* A step of the handler in flight: it has to know what its next phase needs.
LEMMA AloneMoves ==
    ASSUME IInv, AloneInv, OneBusy', NEW r \in Requests, NEW next, NEW values,
           Goto(r, next, values), pc[r] # "idle" \/ next # "idle",
           ActiveUnderCurrentPassword', next # "idle" => Knows(r)'
    PROVE  AloneInv'
<1>1. /\ pc'[r] = next
      /\ \A q \in Requests \ {r} : pc'[q] = pc[q]
  BY OneMoves DEF IInv
<1>2. \A q \in Requests \ {r} : pc'[q] = "idle"
  BY <1>1 DEF AloneInv, OneBusy
<1>3. ASSUME NEW q \in Requests, pc'[q] = "idle" PROVE Knows(q)'
  BY <1>3 DEF Knows
<1>4. \A q \in Requests : Knows(q)'
  BY <1>1, <1>2, <1>3
<1> QED  BY <1>4 DEF AloneInv

\* One handler at a time, every step keeps what it knows.
LEMMA AloneStep ==
    ASSUME IInv, AloneInv, [Next]_vars, OneBusy'
    PROVE  AloneInv'
<1> USE DEF IInv
<1>a. /\ TypeOK /\ ActiveUnderCurrentPassword
      /\ \A r \in Requests : Knows(r)
  BY DEF AloneInv
<1>1. ASSUME NEW r \in Requests, Handler(r), UNCHANGED <<session, password>>,
             pc'[r] # pc[r]
      PROVE  AloneInv'
  <2>1. PICK next, values : Goto(r, next, values)
    BY <1>1 DEF Handler, LoginUser, LoginCount, LoginEvict, LoginCommit, RefreshSession,
                Logout, Revoke, RefreshUser, RefreshCommit, LogoutAllStart, LogoutAllCommit,
                ChangePasswordRead, ChangePasswordUpdate, ChangePasswordCommit, Rollback, Done
  <2>2. /\ pc'[r] = next /\ local'[r] = values
        /\ Active' = Active /\ Committed' = Committed
    BY <1>1, <2>1, OneMoves DEF Active, Committed
  <2>3. ActiveUnderCurrentPassword'
    BY <1>1, <1>a, <2>2 DEF ActiveUnderCurrentPassword
  <2>4. ASSUME next # "idle" PROVE Knows(r)'
    <3>1. CASE LoginUser(r)
      <4>1. local'[r] = Begun(nextId + 1, 0, password) /\ pc'[r] = "login_user"
        BY <1>a, <3>1, OneMoves DEF LoginUser
      <4> QED  BY <1>1, <4>1 DEF Knows, Begun
    <3>2. CASE \E s \in Ids : RefreshSession(r, s)
      <4>1. PICK s \in Ids : RefreshSession(r, s)
        BY <3>2
      <4>2. local'[r] = Begun(nextId + 1, s, session[s].password) /\ pc'[r] = "refresh_session"
        BY <1>a, <4>1, OneMoves DEF RefreshSession
      <4>3. session[s].password = password
        BY <1>a, <4>1 DEF RefreshSession, ActiveUnderCurrentPassword, Active
      <4> QED  BY <1>1, <4>2, <4>3 DEF Knows, Begun
    <3>3. CASE LoginCount(r)
      <4>1. /\ local'[r] = [local[r] EXCEPT !.count = Cardinality(Active)]
            /\ pc'[r] = "login_counted" /\ pc[r] = "login_user"
        BY <1>a, <3>3, OneMoves DEF LoginCount
      <4>2. local'[r].password = local[r].password
        BY <1>a, <4>1 DEF TypeOK, Local
      <4> QED  BY <1>1, <1>a, <4>1, <4>2 DEF Knows
    <3>4. CASE LoginEvict(r)
      <4> DEFINE n == local[r].count - MaxSessions + 1
                 rows == IF local[r].count >= MaxSessions THEN Oldest(Active, n) ELSE {}
      <4>1. /\ local'[r] = [local[r] EXCEPT !.rows = rows]
            /\ pc'[r] = "login_evicted" /\ pc[r] = "login_counted"
        BY <1>a, <3>4, OneMoves DEF LoginEvict
      <4>2. local'[r].password = local[r].password /\ local'[r].rows = rows
        <5> HIDE DEF rows
        <5> QED  BY <1>a, <4>1 DEF TypeOK, Local
      <4>3. ASSUME NEW s \in rows, NEW t \in Active \ rows PROVE s < t
        <5>1. local[r].count >= MaxSessions
          BY <4>3
        <5>2. n \in Nat
          BY <1>a, <5>1, SessionsAssumption DEF TypeOK, Local
        <5>3. Active \in SUBSET Ids
          BY DEF Active
        <5> HIDE DEF n
        <5> QED  BY <5>1, <5>2, <5>3, OldestFirst
      <4> HIDE DEF rows
      <4> QED  BY <1>1, <1>a, <2>2, <4>1, <4>2, <4>3 DEF Knows
    <3>5. CASE RefreshUser(r)
      BY <1>1, <1>a, <2>1, <2>2, <2>4, <3>5, OneMoves DEF RefreshUser, Done, Knows
    <3>6. CASE LogoutAllStart(r)
      <4>1. local'[r] = [NoLocal EXCEPT !.rows = Committed] /\ pc'[r] = "logout_all"
        BY <1>a, <3>6, OneMoves DEF LogoutAllStart
      <4>2. local'[r].rows = Committed
        BY <4>1, NoLocalType DEF Local
      <4> QED  BY <2>2, <4>1, <4>2 DEF Knows
    <3>7. CASE ChangePasswordRead(r)
      <4>1. pc'[r] = "password_read"
        BY <1>a, <3>7, OneMoves DEF ChangePasswordRead
      <4> QED  BY <4>1 DEF Knows
    <3>8. CASE ChangePasswordUpdate(r)
      <4>1. local'[r] = [local[r] EXCEPT !.rows = Committed] /\ pc'[r] = "password_updated"
        BY <1>a, <3>8, OneMoves DEF ChangePasswordUpdate
      <4>2. local'[r].rows = Committed
        BY <1>a, <4>1 DEF TypeOK, Local
      <4> QED  BY <2>2, <4>1, <4>2 DEF Knows
    <3>9. CASE \/ LoginCommit(r) \/ RefreshCommit(r) \/ LogoutAllCommit(r)
               \/ ChangePasswordCommit(r) \/ Rollback(r)
      <4>1. pc'[r] = "idle"
        BY <1>a, <3>9, OneMoves DEF LoginCommit, RefreshCommit, LogoutAllCommit,
           ChangePasswordCommit, Rollback, Done
      <4> QED  BY <2>2, <2>4, <4>1
    <3>10. CASE \E s \in Ids : Logout(r, s) \/ Revoke(r, s)
      BY <1>1, <3>10 DEF Logout, Revoke
    <3> QED  BY <1>1, <3>1, <3>2, <3>3, <3>4, <3>5, <3>6, <3>7, <3>8, <3>9, <3>10 DEF Handler
  <2> QED  BY <1>1, <2>1, <2>2, <2>3, <2>4, AloneMoves
<1>2. ASSUME NEW r \in Requests, LoginCommit(r) \/ RefreshCommit(r) PROVE AloneInv'
  <2>1. PICK S, why : \/ LoginCommit(r) /\ S = local[r].rows /\ why = "evicted"
                      \/ RefreshCommit(r) /\ S = {local[r].parent} /\ why = "rotated"
    BY <1>2
  <2>2. /\ session'[local[r].id].password = local[r].password
        /\ \A s \in Ids \ {local[r].id} : session'[s] = Deactivate(session, S, why)[s]
    BY <2>1, OpenedRows
  <2>3. local[r].password = password /\ password' = password
    BY <1>2, <1>a DEF Knows, LoginCommit, RefreshCommit
  <2>4. ASSUME NEW s \in Active' PROVE session'[s].password = password'
    <3>1. s \in Ids /\ session'[s].status = "active"
      BY DEF Active
    <3>2. CASE s = local[r].id
      BY <2>2, <2>3, <3>2
    <3>3. CASE s # local[r].id
      <4>1. /\ session'[s].password = session[s].password
            /\ session'[s].status = IF s \in S THEN "inactive" ELSE session[s].status
        BY <1>a, <2>2, <3>1, <3>3, EndedRows
      <4> QED  BY <1>a, <2>3, <3>1, <4>1 DEF ActiveUnderCurrentPassword, Active
    <3> QED  BY <3>2, <3>3
  <2>5. ActiveUnderCurrentPassword'
    BY <2>4 DEF ActiveUnderCurrentPassword
  <2>6. Goto(r, "idle", NoLocal) /\ pc[r] # "idle"
    BY <1>2 DEF LoginCommit, RefreshCommit, Done
  <2> QED  BY <2>5, <2>6, AloneMoves
<1>3. ASSUME NEW r \in Requests, LogoutAllCommit(r) \/ ChangePasswordCommit(r) PROVE AloneInv'
  <2>1. session' = Deactivate(session, local[r].rows, "ended") /\ local[r].rows = Committed
    BY <1>3, <1>a DEF LogoutAllCommit, ChangePasswordCommit, Knows
  <2>2. Active' = {}
    <3>1. Active' = Active \ local[r].rows
      BY <1>a, <2>1, ActiveEnded
    <3> QED  BY <2>1, <3>1 DEF Active, Committed
  <2>3. ActiveUnderCurrentPassword'
    BY <2>2 DEF ActiveUnderCurrentPassword
  <2>4. Goto(r, "idle", NoLocal) /\ pc[r] # "idle"
    BY <1>3 DEF LogoutAllCommit, ChangePasswordCommit, Done
  <2> QED  BY <2>3, <2>4, AloneMoves
<1>4. ASSUME NEW r \in Requests, NEW s \in Ids, Revoke(r, s) PROVE AloneInv'
  <2>1. Evolves(0)
    <3>1. {s} \subseteq Committed
      BY <1>4 DEF Revoke
    <3> QED  BY <1>a, <1>4, <3>1, SessionEnded DEF Revoke
  <2>2. Active' = Active \ {s}
    BY <1>a, <1>4, ActiveEnded DEF Revoke
  <2>3. \A t \in Ids : session'[t].password = session[t].password
    BY <1>a, <1>4, EndedRows DEF Revoke
  <2> QED  BY <1>4, <2>1, <2>2, <2>3, AloneBeside DEF Revoke, Active
<1>5. ASSUME NEW s \in Ids, Expire(s) PROVE AloneInv'
  <2>1. Evolves(0) /\ Active' \subseteq Active
    BY <1>a, <1>5, SessionExpires DEF Active
  <2>2. \A t \in Ids : session'[t].password = session[t].password
    <3>1. session[s] \in Row /\ session' = [session EXCEPT ![s].expired = TRUE]
          /\ session \in [Ids -> Row]
      BY <1>a, <1>5 DEF Expire, TypeOK
    <3>2. session'[s] = [session[s] EXCEPT !.expired = TRUE]
          /\ \A t \in Ids \ {s} : session'[t] = session[t]
      BY <3>1
    <3>3. session'[s].password = session[s].password
      BY <3>1, <3>2 DEF Row
    <3> QED  BY <3>2, <3>3
  <2> QED  BY <1>5, <2>1, <2>2, AloneBeside DEF Expire, Active
<1>6. CASE UNCHANGED <<session, password, pc, local>>
  BY <1>6, <1>a, SessionKept, AloneBeside DEF Active
<1>7. ASSUME NEW r \in Requests, Handler(r) PROVE AloneInv'
  <2>1. CASE \/ LoginUser(r) \/ LoginCount(r) \/ LoginEvict(r) \/ RefreshUser(r)
             \/ LogoutAllStart(r) \/ ChangePasswordRead(r) \/ ChangePasswordUpdate(r)
             \/ Rollback(r) \/ \E s \in Ids : RefreshSession(r, s)
    <3>1. UNCHANGED <<session, password>>
      BY <2>1 DEF LoginUser, LoginCount, LoginEvict, RefreshUser, LogoutAllStart,
         ChangePasswordRead, ChangePasswordUpdate, Rollback, RefreshSession, Unchanged
    <3>2. pc'[r] # pc[r]
      BY <1>a, <2>1, OneMoves DEF LoginUser, LoginCount, LoginEvict, RefreshUser,
         LogoutAllStart, ChangePasswordRead, ChangePasswordUpdate, Rollback,
         RefreshSession, Done
    <3> QED  BY <1>1, <1>7, <3>1, <3>2
  <2>2. CASE \E s \in Ids : Logout(r, s)
    BY <1>6, <2>2 DEF Logout
  <2> QED  BY <1>2, <1>3, <1>4, <1>7, <2>1, <2>2 DEF Handler
<1> QED  BY <1>5, <1>6, <1>7 DEF Next, SetActive, vars

AtMostOne == Cardinality(Busy(Phase \ {"idle"})) <= 1

\* Two handlers in flight would be two elements of that set.
LEMMA BusyOne == AtMostOne /\ TypeOK => OneBusy
<1> SUFFICES ASSUME Cardinality(Busy(Phase \ {"idle"})) <= 1, TypeOK,
                    NEW q \in Requests, NEW r \in Requests,
                    pc[q] # "idle", pc[r] # "idle", q # r
             PROVE  FALSE
  BY DEF OneBusy, AtMostOne
<1> DEFINE B == Busy(Phase \ {"idle"})
<1>1. B \in SUBSET Requests /\ {q, r} \in SUBSET B
  BY DEF Busy, TypeOK
<1>2. Cardinality({q, r}) = 2
  <2>1. IsFiniteSet({q}) /\ Cardinality({q}) = 1
    BY FS_Singleton
  <2>2. Cardinality({q} \cup {r}) = Cardinality({q}) + 1
    BY <2>1, FS_AddElement
  <2>3. {q} \cup {r} = {q, r}
    OBVIOUS
  <2> QED  BY <2>1, <2>2, <2>3
<1> HIDE DEF B
<1>3. Cardinality({q, r}) <= Cardinality(B) /\ Cardinality(B) \in Nat
  BY <1>1, ReadyFinite, FS_Subset
<1> QED  BY <1>2, <1>3 DEF B

WorldInv == world = "alone" => AloneInv

\* What handlers know one after the other, they know in every reachable state.
LEMMA AloneInvariant == MixedSpec => []WorldInv
<1>1. MixedInit => WorldInv
  <2> SUFFICES ASSUME Init PROVE AloneInv
    BY DEF MixedInit, WorldInv
  <2>1. Active = {} /\ \A r \in Requests : pc[r] = "idle"
    BY DEF Init, Active, NoRow
  <2>2. OneBusy /\ ActiveUnderCurrentPassword
    BY <2>1 DEF OneBusy, ActiveUnderCurrentPassword
  <2>3. ASSUME NEW r \in Requests PROVE Knows(r)
    BY <2>1 DEF Knows
  <2> QED  BY <2>2, <2>3 DEF AloneInv
<1>2. ASSUME IInv, IInv', WorldInv, MixedNext, world' = "alone" PROVE AloneInv'
  <2>1. [Next]_vars /\ AloneInv
    BY <1>2 DEF MixedNext, WorldInv
  <2>2. AtMostOne' /\ TypeOK'
    BY <1>2 DEF MixedNext, IInv, AtMostOne
  <2>3. OneBusy'
    BY <2>2, BusyOne, PTL
  <2> QED  BY <1>2, <2>1, <2>3, AloneStep
<1>3. IInv /\ IInv' /\ WorldInv /\ [MixedNext]_<<vars, world>> => WorldInv'
  <2>1. CASE UNCHANGED <<vars, world>>
    BY <2>1 DEF WorldInv, AloneInv, OneBusy, Knows, ActiveUnderCurrentPassword, Active,
                Committed, vars
  <2> QED  BY <1>2, <2>1 DEF WorldInv
<1> QED  BY <1>1, <1>3, MixedIInv, PTL DEF MixedSpec

\* One handler at a time, no active session was opened with a password that has been
\* changed since: not by a login, and not through refreshes (service.rs:328-339).
THEOREM PasswordsAreCurrent == MixedSpec => []AloneUnderCurrentPassword
<1>1. WorldInv => AloneUnderCurrentPassword
  BY DEF WorldInv, AloneInv, AloneUnderCurrentPassword
<1> QED  BY <1>1, AloneInvariant, PTL

\* One handler at a time, no session is active when logout_all has committed
\* (service.rs:290-297).
THEOREM AllAreTerminated == MixedSpec => AloneAllTerminated
<1>1. ASSUME IInv, WorldInv, NEW r \in Requests, world = "alone", LogoutAllCommit(r)
      PROVE  Active' = {}
  <2>1. local[r].rows = Committed
    BY <1>1 DEF WorldInv, AloneInv, Knows, LogoutAllCommit
  <2>2. Active' = Active \ local[r].rows
    BY <1>1, ActiveEnded DEF LogoutAllCommit, IInv
  <2> QED  BY <2>1, <2>2 DEF Active, Committed
<1>2. IInv /\ WorldInv /\ [MixedNext]_<<vars, world>> =>
        [\A r \in Requests : world = "alone" /\ LogoutAllCommit(r) => Active' = {}]_<<vars, world>>
  BY <1>1
<1> QED  BY <1>2, MixedIInv, AloneInvariant, PTL DEF MixedSpec, AloneAllTerminated

\* A row of which the reason is eviction was picked by the login that commits.
LEMMA EvictedByLogin ==
    ASSUME IInv, [Next]_vars, NEW s \in Active \ Active', NEW t \in Active \cap Active',
           session'[s].why = "evicted"
    PROVE  \E r \in Requests : LoginCommit(r) /\ s \in local[r].rows /\ t \notin local[r].rows
<1> USE DEF IInv
<1>0. /\ s \in Ids /\ session[s].status = "active" /\ session'[s].status # "active"
      /\ t \in Ids /\ session[t].status = "active" /\ session'[t].status = "active"
  BY DEF Active
<1>1. ASSUME NEW S, NEW why, session' = Deactivate(session, S, why), why # "evicted"
      PROVE  FALSE
  BY <1>0, <1>1, EndedRows
<1>2. ASSUME NEW r \in Requests, LoginCommit(r) \/ RefreshCommit(r)
      PROVE  LoginCommit(r) /\ s \in local[r].rows /\ t \notin local[r].rows
  <2>1. PICK S, why : \/ LoginCommit(r) /\ S = local[r].rows /\ why = "evicted"
                      \/ RefreshCommit(r) /\ S = {local[r].parent} /\ why = "rotated"
    BY <1>2
  <2>2. /\ local[r].id \in Ids \ Committed
        /\ \A x \in Ids \ {local[r].id} : session'[x] = Deactivate(session, S, why)[x]
    BY <2>1, OpenedRows
  <2>3. s # local[r].id /\ t # local[r].id
    BY <1>0, <2>2 DEF Committed
  <2>4. /\ session'[s] = Deactivate(session, S, why)[s]
        /\ session'[t] = Deactivate(session, S, why)[t]
    BY <1>0, <2>2, <2>3
  <2>5. s \in S /\ t \notin S /\ why = "evicted"
    BY <1>0, <2>4, EndedRows
  <2> QED  BY <2>1, <2>5
<1>3. ASSUME NEW r \in Requests, Handler(r)
      PROVE  LoginCommit(r) /\ s \in local[r].rows /\ t \notin local[r].rows
  <2>1. CASE \/ LoginUser(r) \/ LoginCount(r) \/ LoginEvict(r) \/ RefreshUser(r)
             \/ LogoutAllStart(r) \/ ChangePasswordRead(r) \/ ChangePasswordUpdate(r)
             \/ Rollback(r) \/ \E x \in Ids : RefreshSession(r, x) \/ Logout(r, x)
    <3>1. UNCHANGED session
      BY <2>1 DEF LoginUser, LoginCount, LoginEvict, RefreshUser, LogoutAllStart,
         ChangePasswordRead, ChangePasswordUpdate, Rollback, RefreshSession, Logout, Unchanged
    <3> QED  BY <1>0, <3>1
  <2>2. CASE LogoutAllCommit(r) \/ ChangePasswordCommit(r)
    BY <1>1, <2>2 DEF LogoutAllCommit, ChangePasswordCommit
  <2>3. CASE \E x \in Ids : Revoke(r, x)
    BY <1>1, <2>3 DEF Revoke
  <2> QED  BY <1>2, <1>3, <2>1, <2>2, <2>3 DEF Handler
<1>4. ASSUME NEW x \in Ids, Expire(x) PROVE FALSE
  <2>1. session[x] \in Row /\ session' = [session EXCEPT ![x].expired = TRUE]
        /\ session \in [Ids -> Row]
    BY <1>4 DEF Expire, TypeOK
  <2>2. session'[s].status = session[s].status
    BY <1>0, <2>1 DEF Row
  <2> QED  BY <1>0, <2>2
<1>5. CASE UNCHANGED session
  BY <1>0, <1>5
<1> QED  BY <1>3, <1>4, <1>5 DEF Next, SetActive, vars

\* One handler at a time, no session that stays active is older than one a login
\* evicts (service.rs:109-115).
THEOREM OldestAreEvicted == MixedSpec => AloneOldestEvicted
<1>1. ASSUME IInv, WorldInv, MixedNext, world = "alone",
             NEW s \in Active \ Active', NEW t \in Active \cap Active',
             session'[s].why = "evicted"
      PROVE  s < t
  <2>1. PICK r \in Requests : LoginCommit(r) /\ s \in local[r].rows /\ t \notin local[r].rows
    BY <1>1, EvictedByLogin DEF MixedNext
  <2> QED  BY <1>1, <2>1 DEF WorldInv, AloneInv, Knows, LoginCommit
<1>2. IInv /\ WorldInv /\ [MixedNext]_<<vars, world>> =>
        [\A s \in Active \ Active', t \in Active \cap Active' :
            world = "alone" /\ session'[s].why = "evicted" => s < t]_<<vars, world>>
  BY <1>1
<1> QED  BY <1>2, MixedIInv, AloneInvariant, PTL DEF MixedSpec, AloneOldestEvicted
=============================================================================
