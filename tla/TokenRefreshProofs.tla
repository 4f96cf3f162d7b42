------------------------- MODULE TokenRefreshProofs -------------------------
(***************************************************************************)
(* Proofs about TokenRefresh, for any number of calls and logins.          *)
(***************************************************************************)
EXTENDS TokenRefresh, TLAPS

\* A call that the server has executed is over, or its response is on the way
\* and is not a 401.
ExecutedIsOver ==
  \A c \in Calls :
     \/ executed[c] = 0
     \/ /\ executed[c] = 1
        /\ \/ phase[c] \in {"done", "gone"}
           \/ phase[c] \in {"first", "retry", "resumed"} /\ answer[c] \in {"ok", "error"}

\* The inductive invariant.
RefreshInv == TypeOK /\ SingleFlight /\ NobodyForgotten /\ ExecutedIsOver

LEMMA RefreshInvInit == Init => RefreshInv
<1> SUFFICES ASSUME Init PROVE RefreshInv
  OBVIOUS
<1> USE DEF Init
<1>1. TypeOK
  BY DEF TypeOK, Phase, Answer
<1>2. SingleFlight /\ NobodyForgotten
  BY DEF SingleFlight, NobodyForgotten
<1>3. ExecutedIsOver
  BY DEF ExecutedIsOver
<1> QED BY <1>1, <1>2, <1>3 DEF RefreshInv

\* Steps of the server and the network leave the client as it is.
LEMMA ServerSteps ==
  ASSUME RefreshInv, NEW c \in Calls, Serve(c) \/ ServeRefresh(c) \/ Lose(c)
  PROVE  RefreshInv'
<1> USE DEF RefreshInv, TypeOK
<1>1. UNCHANGED <<phase, client>>
  BY DEF Serve, ServeRefresh, Lose
<1>2. TypeOK'
  BY DEF Serve, ServeRefresh, Lose, client, Answer
<1>3. SingleFlight' /\ NobodyForgotten'
  BY <1>1 DEF SingleFlight, NobodyForgotten, client
<1>4. ExecutedIsOver'
  <2>1. CASE Serve(c)
    BY <2>1 DEF Serve, ExecutedIsOver, Logins
  <2>2. CASE ServeRefresh(c)
    BY <2>2 DEF ServeRefresh, ExecutedIsOver
  <2>3. CASE Lose(c)
    BY <2>3 DEF Lose, ExecutedIsOver, OnWire
  <2> QED BY <2>1, <2>2, <2>3
<1> QED BY <1>2, <1>3, <1>4

LEMMA OtherSteps ==
  ASSUME RefreshInv, Expire \/ OtherTab \/ Logout \/ UNCHANGED vars
  PROVE  RefreshInv'
<1> USE DEF RefreshInv
<1>1. UNCHANGED <<phase, answer, executed, client>>
  BY DEF Expire, OtherTab, Logout, vars, client
<1>2. TypeOK'
  BY DEF TypeOK, Expire, OtherTab, Logout, vars, client
<1>3. SingleFlight' /\ NobodyForgotten'
  BY <1>1 DEF SingleFlight, NobodyForgotten, client
<1>4. ExecutedIsOver'
  BY <1>1 DEF ExecutedIsOver
<1> QED BY <1>2, <1>3, <1>4

LEMMA UnloadStep ==
  ASSUME RefreshInv, Unload
  PROVE  RefreshInv'
<1> USE DEF RefreshInv, Unload
<1>1. TypeOK'
  BY DEF TypeOK, Phase, Answer
<1>2. SingleFlight' /\ NobodyForgotten'
  BY DEF SingleFlight, NobodyForgotten, TypeOK
<1>3. ExecutedIsOver'
  BY DEF ExecutedIsOver, TypeOK
<1> QED BY <1>1, <1>2, <1>3

\* Starting and settling a call touches neither the list nor the flag.
LEMMA CallSteps ==
  ASSUME RefreshInv, NEW c \in Calls, Call(c) \/ ReceiveFirst(c) \/ ReceiveRetry(c)
  PROVE  RefreshInv'
<1> USE DEF RefreshInv
<1>1. /\ UNCHANGED <<client, executed>>
      /\ phase[c] \in {"idle", "first", "retry", "resumed"}
      /\ \E next \in {"first", "done"}, token \in BOOLEAN :
            /\ Goto(c, next, token)
            /\ next = "first" => phase[c] = "idle"
      /\ access' \in BOOLEAN /\ onLogin' \in BOOLEAN
  BY DEF Call, ReceiveFirst, ReceiveRetry, Settle, TypeOK
<1>2. TypeOK'
  BY <1>1 DEF TypeOK, Goto, client, Phase, Answer
<1>3. SingleFlight' /\ NobodyForgotten'
  BY <1>1 DEF SingleFlight, NobodyForgotten, Goto, TypeOK, client
<1>4. ExecutedIsOver'
  BY <1>1 DEF ExecutedIsOver, Goto, TypeOK
<1> QED BY <1>2, <1>3, <1>4

LEMMA StartSteps ==
  ASSUME RefreshInv, NEW c \in Calls, StartRefresh(c) \/ Subscribe(c)
  PROVE  RefreshInv'
<1> USE DEF RefreshInv
<1>1. CASE StartRefresh(c)
  <2>1. TypeOK'
    BY <1>1 DEF StartRefresh, Goto, TypeOK, Phase, Answer
  <2>2. SingleFlight'
    BY <1>1 DEF StartRefresh, Goto, SingleFlight, TypeOK
  <2>3. NobodyForgotten'
    BY <1>1 DEF StartRefresh, Goto, NobodyForgotten, TypeOK
  <2>4. ExecutedIsOver'
    BY <1>1 DEF StartRefresh, Goto, ExecutedIsOver, TypeOK
  <2> QED BY <2>1, <2>2, <2>3, <2>4
<1>2. CASE Subscribe(c)
  <2>1. TypeOK'
    BY <1>2 DEF Subscribe, Goto, TypeOK, Phase, Answer
  <2>2. SingleFlight'
    BY <1>2 DEF Subscribe, Goto, SingleFlight, TypeOK
  <2>3. NobodyForgotten'
    BY <1>2 DEF Subscribe, Goto, NobodyForgotten, TypeOK
  <2>4. ExecutedIsOver'
    BY <1>2 DEF Subscribe, Goto, ExecutedIsOver, TypeOK
  <2> QED BY <2>1, <2>2, <2>3, <2>4
<1> QED BY <1>1, <1>2

LEMMA RefreshedStep ==
  ASSUME RefreshInv, NEW c \in Calls, Refreshed(c)
  PROVE  RefreshInv'
<1> USE DEF RefreshInv, Refreshed
<1>1. refreshSubscribers = {d \in Calls : phase[d] = "waiting"}
  BY DEF NobodyForgotten
<1>2. /\ phase' = [d \in Calls |-> IF d = c THEN "retry"
                                  ELSE IF d \in refreshSubscribers THEN "resumed" ELSE phase[d]]
      /\ answer' = [d \in Calls |-> IF d = c \/ d \in refreshSubscribers THEN "pending"
                                                                     ELSE answer[d]]
      /\ carries' = [d \in Calls |-> d \in refreshSubscribers \cup {c} \/ carries[d]]
  BY DEF Resume
<1>3. TypeOK'
  <2>1. phase' \in [Calls -> Phase] /\ answer' \in [Calls -> Answer]
    BY <1>2 DEF TypeOK, Phase, Answer
  <2>2. carries' \in [Calls -> BOOLEAN]
    BY <1>2
  <2> QED BY <2>1, <2>2 DEF TypeOK
<1>4. \A d \in Calls : phase[d] = "refresh" => d = c
  BY DEF SingleFlight
<1>5. \A d \in Calls : phase'[d] # "refresh" /\ phase'[d] # "waiting"
  BY <1>1, <1>2, <1>4
<1>6. SingleFlight' /\ NobodyForgotten'
  BY <1>5 DEF SingleFlight, NobodyForgotten
<1>7. ExecutedIsOver'
  <2>1. ASSUME NEW d \in Calls, d = c \/ d \in refreshSubscribers PROVE executed[d] = 0
    BY <1>1, <2>1 DEF ExecutedIsOver
  <2> QED BY <1>2, <2>1 DEF ExecutedIsOver
<1> QED BY <1>3, <1>6, <1>7

LEMMA RefreshFailedStep ==
  ASSUME RefreshInv, NEW c \in Calls, RefreshFailed(c)
  PROVE  RefreshInv'
<1> USE DEF RefreshInv, RefreshFailed
<1>1. TypeOK'
  BY DEF Goto, TypeOK, Phase, Answer
<1>2. SingleFlight'
  BY DEF Goto, SingleFlight, TypeOK
<1>3. NobodyForgotten'
  BY DEF Goto, NobodyForgotten, TypeOK
<1>4. ExecutedIsOver'
  BY DEF Goto, ExecutedIsOver, TypeOK
<1> QED BY <1>1, <1>2, <1>3, <1>4

LEMMA RefreshInvariant == Spec => []RefreshInv
<1>1. RefreshInv /\ [Next]_vars => RefreshInv'
  BY ServerSteps, OtherSteps, UnloadStep, CallSteps, StartSteps, RefreshedStep,
     RefreshFailedStep DEF Next, Receive
<1> QED BY <1>1, RefreshInvInit, PTL DEF Spec

\* Types of the client's variables, for any number of calls.
THEOREM TypeCorrect == Spec => []TypeOK
  BY RefreshInvariant, PTL DEF RefreshInv

\* isRefreshing and the refresh in flight agree, and there is never a second.
THEOREM OneRefreshAtATime == Spec => []SingleFlight
  BY RefreshInvariant, PTL DEF RefreshInv

\* The list of subscribers is the set of waiting calls; on a page that stays, only
\* a refresh that failed on /login leaves any behind.
THEOREM OnlyStrandedWait == Spec => []NobodyForgotten
  BY RefreshInvariant, PTL DEF RefreshInv

\* The server executes no call twice, however refreshes and responses interleave.
THEOREM CallsExecuteOnce == Spec => []ExecutedOnce
<1>1. RefreshInv => ExecutedOnce
  <2> SUFFICES ASSUME RefreshInv, NEW c \in Calls PROVE executed[c] <= 1
    BY DEF ExecutedOnce
  <2>1. executed[c] = 0 \/ executed[c] = 1
    BY DEF RefreshInv, ExecutedIsOver
  <2> QED BY <2>1
<1> QED BY <1>1, RefreshInvariant, PTL
=============================================================================
