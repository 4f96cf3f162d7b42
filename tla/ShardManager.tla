----------------------------- MODULE ShardManager -----------------------------
(***************************************************************************)
(* The shard manager (shard-manager/src/main.rs): handlers behind one      *)
(* tokio Mutex, and for each shard a pool of sqlx connections.             *)
(*                                                                         *)
(* execute_on_shard sets the search path of its organization on one        *)
(* connection of the pool and runs the query on another one it takes from  *)
(* the same pool.  Dropping a PoolConnection hands it to a spawned task,   *)
(* which puts it back at the end of the idle queue some time later; a      *)
(* search path that was SET stays with its connection.                     *)
(***************************************************************************)
EXTENDS Integers, SequencesExt

CONSTANTS
    Requests,    \* each is served once
    Regions,     \* SHARD_REGIONS: how many regions there are, 1 at least
    PerRegion,   \* SHARDS_PER_REGION, 1 at least
    Orgs,        \* organization ids of requests, as split at "-":
                 \* [parts |-> how many, region |-> number or NaN, shard |-> .., name |-> ..]
    MaxSize,     \* max_connections of a pool (50 in the code)
    NaN, Free, Default, NoConn   \* no number, request, organization or connection

VARIABLES
    shards,    \* the shards connected at start-up
    size,      \* connections opened in each pool
    idle,      \* its idle queue
    path,      \* search_path of each connection
    leaving,   \* connections dropped and not yet back in the pool
    waiting,   \* requests that wait for the Mutex, served in turn
    lock,      \* the one that holds it
    at,        \* how far each request is
    org,       \* the organization it names
    conn,      \* its PoolConnection: shard and number
    check,     \* the shards a health check still has to ask
    ran        \* organization and search path of each query executed

pools == <<size, idle, path, leaving>>
vars  == <<shards, pools, waiting, lock, at, org, conn, check, ran>>

Topology == (0..Regions-1) \X (0..PerRegion-1)

\* A pool connects once at start-up; where that fails the shard is left out.
Init ==
    /\ shards \in SUBSET Topology
    /\ size = [s \in Topology |-> IF s \in shards THEN 1 ELSE 0]
    /\ idle = [s \in Topology |-> IF s \in shards THEN <<1>> ELSE << >>]
    /\ path = [s \in Topology |-> [c \in 1..MaxSize |-> Default]]
    /\ leaving = {}
    /\ waiting = << >> /\ lock = Free
    /\ at = [r \in Requests |-> "new"]
    /\ org \in [Requests -> Orgs]
    /\ conn = [r \in Requests |-> NoConn]
    /\ check = {} /\ ran = {}

(* parse_org_id and the two lookups *)

Parses(o)  == o.parts = 3
ShardOf(o) == <<o.region, o.shard>>
Found(o)   == Parses(o) /\ ShardOf(o) \in shards

\* The region is looked up by its number; where it is none, unwrap panics.
Panics(o)  == Parses(o) /\ o.region = NaN
Located(o) == Parses(o) /\ ~Panics(o) /\ o.region < Regions

-----------------------------------------------------------------------------
(* The Mutex *)

Arrive(r) ==
    /\ at[r] = "new"
    /\ at' = [at EXCEPT ![r] = "waiting"]
    /\ waiting' = Append(waiting, r)
    /\ UNCHANGED <<shards, pools, lock, org, conn, check, ran>>

\* r is the next to get the Mutex, and keeps it until it is next; a handler
\* that never waits gives it back at once.
Turn(r, next) ==
    /\ lock = Free /\ waiting # << >> /\ r = Head(waiting)
    /\ waiting' = Tail(waiting)
    /\ lock' = IF next \in {"answered", "refused", "panicked"} THEN Free ELSE r
    /\ at' = [at EXCEPT ![r] = next]

GetShardConnection(r) ==
    /\ Turn(r, IF Found(org[r]) THEN "answered" ELSE "refused")
    /\ UNCHANGED <<shards, pools, org, conn, check, ran>>

GetOrganizationLocation(r) ==
    /\ Turn(r, IF Panics(org[r]) THEN "panicked"
               ELSE IF Located(org[r]) THEN "answered" ELSE "refused")
    /\ UNCHANGED <<shards, pools, org, conn, check, ran>>

(* The pools: external. *)

\* The connection that has been idle longest, or a new one.
Acquire(r, s, next) ==
    /\ lock = r
    /\ \/ /\ idle[s] # << >>
          /\ conn' = [conn EXCEPT ![r] = <<s, Head(idle[s])>>]
          /\ idle' = [idle EXCEPT ![s] = Tail(@)]
          /\ size' = size
       \/ /\ idle[s] = << >> /\ size[s] < MaxSize
          /\ conn' = [conn EXCEPT ![r] = <<s, size[s] + 1>>]
          /\ size' = [size EXCEPT ![s] = @ + 1]
          /\ idle' = idle
    /\ at' = [at EXCEPT ![r] = next]
    /\ UNCHANGED <<shards, path, leaving, waiting, lock, org, check, ran>>

\* A statement, or the handler, is over.
Leave(r, next) ==
    /\ leaving' = leaving \cup ({conn[r]} \ {NoConn})
    /\ conn' = [conn EXCEPT ![r] = NoConn]
    /\ lock' = IF next \in {"answered", "refused", "dropped"} THEN Free ELSE r
    /\ at' = [at EXCEPT ![r] = next]

\* The spawned task has pinged the connection.
Return(k) ==
    /\ k \in leaving
    /\ leaving' = leaving \ {k}
    /\ idle' = [idle EXCEPT ![k[1]] = Append(@, k[2])]
    /\ UNCHANGED <<shards, size, path, waiting, lock, at, org, conn, check, ran>>

PathOf(k) == path[k[1]][k[2]]

(* execute_query and execute_on_shard *)

Execute(r) ==
    /\ Turn(r, IF Found(org[r]) THEN "located" ELSE "refused")
    /\ UNCHANGED <<shards, pools, org, conn, check, ran>>

AcquireForPath(r)  == at[r] = "located" /\ Acquire(r, ShardOf(org[r]), "setting")

SetSearchPath(r) ==
    /\ at[r] = "setting"
    /\ path' = [path EXCEPT ![conn[r][1]][conn[r][2]] = org[r].name]
    /\ Leave(r, "set")
    /\ UNCHANGED <<shards, size, idle, waiting, org, check, ran>>

AcquireForQuery(r) == at[r] = "set" /\ Acquire(r, ShardOf(org[r]), "querying")

Query(r) ==
    /\ at[r] = "querying"
    /\ ran' = ran \cup {[name |-> org[r].name, path |-> PathOf(conn[r])]}
    /\ Leave(r, "answered")
    /\ UNCHANGED <<shards, size, idle, path, waiting, org, check>>

(* health_check: SELECT 1 on every shard, one after the other. *)

HealthCheck(r) ==
    /\ Turn(r, IF shards = {} THEN "answered" ELSE "checking")
    /\ check' = shards
    /\ UNCHANGED <<shards, pools, org, conn, ran>>

HealthAcquire(r) ==
    /\ at[r] = "checking"
    /\ \E s \in check : Acquire(r, s, "selecting")

HealthSelect(r) ==
    /\ at[r] = "selecting"
    /\ check' = check \ {conn[r][1]}
    /\ Leave(r, IF check' = {} THEN "answered" ELSE "checking")
    /\ UNCHANGED <<shards, size, idle, path, waiting, org, ran>>

\* A statement fails or no connection comes within the time allowed, or the
\* client hangs up and the handler is dropped where it waits.
Fails(r) ==
    /\ lock = r
    /\ \E next \in {"refused", "dropped"} : Leave(r, next)
    /\ check' = {}
    /\ UNCHANGED <<shards, size, idle, path, waiting, org, ran>>

HangsUp(r) ==
    /\ at[r] = "waiting"
    /\ at' = [at EXCEPT ![r] = "dropped"]
    /\ waiting' = SelectSeq(waiting, LAMBDA q : q # r)
    /\ UNCHANGED <<shards, pools, lock, org, conn, check, ran>>

Next ==
    \/ \E r \in Requests :
         \/ Arrive(r) \/ GetShardConnection(r) \/ GetOrganizationLocation(r)
         \/ Execute(r) \/ AcquireForPath(r) \/ SetSearchPath(r)
         \/ AcquireForQuery(r) \/ Query(r)
         \/ HealthCheck(r) \/ HealthAcquire(r) \/ HealthSelect(r)
         \/ Fails(r) \/ HangsUp(r)
    \/ \E k \in leaving : Return(k)

Spec == Init /\ [][Next]_vars

-----------------------------------------------------------------------------
(* Property.                                                               *)

\* A query runs under the search path of the organization it was sent for: its
\* unqualified names are those of that organization's schema (main.rs:165-192).
OwnSchema == \A query \in ran : query.path = query.name
=============================================================================
