------------------------------- MODULE Sessions -------------------------------
(***************************************************************************)
(* The login sessions of one user in rust-core (auth/service.rs,           *)
(* auth/handlers.rs) over the tables users and sessions.                   *)
(*                                                                         *)
(* Each handler is one READ COMMITTED transaction: every statement sees    *)
(* the rows committed before it, the writes appear at the commit, and an   *)
(* UPDATE of a set of rows changes only rows that existed when it started. *)
(* Session ids are numbered in the order their transactions begin, which   *)
(* is the order of last_used_at: it defaults to NOW(), the start of the    *)
(* transaction, and no statement changes it.  Row locks of sessions only   *)
(* delay statements; every order they allow is an order of this model.     *)
(***************************************************************************)
EXTENDS Integers, FiniteSets

CONSTANTS
    Requests,      \* handlers in flight together
    MaxSessions,   \* MAX_SESSIONS (5 in the code)
    MaxIds,        \* bound on the sessions ever opened
    MaxPasswords,  \* bound on the password changes
    Operations     \* the endpoints in use, and "expire" where time passes

ASSUME SessionsAssumption ==
    /\ MaxSessions \in Nat \ {0} /\ MaxIds \in Nat /\ MaxPasswords \in Nat
    /\ Operations \subseteq {"login", "refresh", "logout", "logout_all", "revoke",
                             "change_password", "set_active", "expire"}
    /\ IsFiniteSet(Requests)

VARIABLES
    session,     \* committed rows of table sessions
    userActive,  \* users.is_active
    password,    \* number of password changes so far
    held,        \* sessions whose refresh token some client has in its cookies
    nextId,      \* number of transactions begun that will insert a session
    pc, local    \* handlers in flight: position, and the values they carry

vars == <<session, userActive, password, held, nextId, pc, local>>

Ids == 1..MaxIds

\* status: no row, is_active = true, or false; why it was set to false.
Row    == [status : {"none", "active", "inactive"},
           why : {"", "rotated", "evicted", "ended"},
           expired : BOOLEAN, parent : 0..MaxIds, password : 0..MaxPasswords]
NoRow  == [status |-> "none", why |-> "", expired |-> FALSE, parent |-> 0, password |-> 0]
Local  == [id : 0..MaxIds, parent : 0..MaxIds, password : 0..MaxPasswords,
           count : 0..MaxIds, rows : SUBSET Ids]
Begun(id, parent, pw) ==
    [id |-> id, parent |-> parent, password |-> pw, count |-> 0, rows |-> {}]
NoLocal == Begun(0, 0, 0)
Phase  == {"idle", "login_user", "login_counted", "login_evicted", "refresh_session",
           "refresh_user", "logout_all", "password_read", "password_updated"}

Committed == {s \in Ids : session[s].status # "none"}
Active    == {s \in Ids : session[s].status = "active"}

\* Variant: ORDER BY last_used_at DESC.
Newest(S, n) == {s \in S : Cardinality({t \in S : t > s}) < n}

\* The n sessions of S with the least last_used_at.
Oldest(S, n) == {s \in S : Cardinality({t \in S : t < s}) < n}

-----------------------------------------------------------------------------
Init ==
    /\ session = [s \in Ids |-> NoRow]
    /\ userActive = TRUE
    /\ password = 0
    /\ held = {}
    /\ nextId = 0
    /\ pc = [r \in Requests |-> "idle"]
    /\ local = [r \in Requests |-> NoLocal]

Goto(r, next, values) ==
    /\ pc' = [pc EXCEPT ![r] = next]
    /\ local' = [local EXCEPT ![r] = values]

Done(r) == Goto(r, "idle", NoLocal)

Unchanged == UNCHANGED <<session, userActive, password, held, nextId>>

\* UPDATE sessions SET is_active = false on rows S of the table rows.
Deactivate(rows, S, why) ==
    [s \in Ids |-> IF s \in S
                   THEN [rows[s] EXCEPT !.status = "inactive",
                                        !.why = IF rows[s].status = "active" THEN why ELSE @]
                   ELSE rows[s]]

Insert(rows, id, parent, pw) ==
    [rows EXCEPT ![id] = [status |-> "active", why |-> "", expired |-> FALSE,
                          parent |-> parent, password |-> pw]]

(* login *)

\* The user row is read and the password verified against its hash.
LoginUser(r) ==
    /\ "login" \in Operations
    /\ pc[r] = "idle" /\ userActive /\ nextId < MaxIds
    /\ nextId' = nextId + 1
    /\ Goto(r, "login_user", Begun(nextId + 1, 0, password))
    /\ UNCHANGED <<session, userActive, password, held>>

LoginCount(r) ==
    /\ pc[r] = "login_user"
    /\ Goto(r, "login_counted", [local[r] EXCEPT !.count = Cardinality(Active)])
    /\ Unchanged

\* Variant: LIMIT 1, whatever the excess.
LoginEvictOne(r) ==
    /\ pc[r] = "login_counted"
    /\ Goto(r, "login_evicted",
            [local[r] EXCEPT !.rows = IF local[r].count >= MaxSessions
                                      THEN Oldest(Active, 1) ELSE {}])
    /\ Unchanged

\* The subselect picks the rows to evict; a count below the limit evicts none.
LoginEvict(r) ==
    /\ pc[r] = "login_counted"
    /\ Goto(r, "login_evicted",
            [local[r] EXCEPT !.rows = IF local[r].count >= MaxSessions
                                      THEN Oldest(Active, local[r].count - MaxSessions + 1)
                                      ELSE {}])
    /\ Unchanged

\* Commit; the response sets the refresh token cookie.
LoginCommit(r) ==
    /\ pc[r] = "login_evicted"
    /\ session' = Insert(Deactivate(session, local[r].rows, "evicted"),
                         local[r].id, 0, local[r].password)
    /\ held' = held \cup {local[r].id}
    /\ Done(r)
    /\ UNCHANGED <<userActive, password, nextId>>

(* refresh *)

\* Variant: the SELECT without "AND is_active = true".
RefreshAnySession(r, s) ==
    /\ "refresh" \in Operations /\ pc[r] = "idle" /\ nextId < MaxIds
    /\ s \in held /\ ~session[s].expired
    /\ nextId' = nextId + 1
    /\ Goto(r, "refresh_session", Begun(nextId + 1, s, session[s].password))
    /\ UNCHANGED <<session, userActive, password, held>>

\* Variant: the new session takes the id of the old one.
RefreshSameId(r, s) ==
    /\ "refresh" \in Operations /\ pc[r] = "idle"
    /\ s \in held /\ session[s].status = "active" /\ ~session[s].expired
    /\ Goto(r, "refresh_session", Begun(s, s, 0))
    /\ Unchanged

RefreshSession(r, s) ==
    /\ "refresh" \in Operations
    /\ pc[r] = "idle" /\ nextId < MaxIds
    /\ s \in held
    /\ session[s].status = "active" /\ ~session[s].expired
    /\ nextId' = nextId + 1
    /\ Goto(r, "refresh_session", Begun(nextId + 1, s, session[s].password))
    /\ UNCHANGED <<session, userActive, password, held>>

RefreshUser(r) ==
    /\ pc[r] = "refresh_session"
    /\ IF userActive THEN Goto(r, "refresh_user", local[r]) ELSE Done(r)
    /\ Unchanged

\* Variant: the UPDATE of the old row is forgotten.
RefreshCommitKeeping(r) ==
    /\ pc[r] = "refresh_user"
    /\ session' = Insert(session, local[r].id, local[r].parent, local[r].password)
    /\ Done(r)
    /\ UNCHANGED <<userActive, password, held, nextId>>

\* The old row is updated by id alone; the response sets only the access token
\* cookie, so no client holds the new refresh token.
RefreshCommit(r) ==
    /\ pc[r] = "refresh_user"
    /\ session' = Insert(Deactivate(session, {local[r].parent}, "rotated"),
                         local[r].id, local[r].parent, local[r].password)
    /\ Done(r)
    /\ UNCHANGED <<userActive, password, held, nextId>>

(* logout: clears the cookies and leaves the session row as it is. *)

Logout(r, s) ==
    /\ "logout" \in Operations
    /\ pc[r] = "idle"
    /\ s \in held
    /\ held' = held \ {s}
    /\ UNCHANGED <<session, userActive, password, nextId, pc, local>>

(* logout_all, revoke_session, change_password and set_active run behind
   require_auth, which reads the user in a transaction of its own: nothing it
   saw need hold any longer when the handler starts. *)

(* logout_all: one UPDATE of the rows visible when it starts. *)

\* Variant: only sessions that have not expired are terminated.
LogoutUnexpiredStart(r) ==
    /\ "logout_all" \in Operations /\ pc[r] = "idle"
    /\ Goto(r, "logout_all", [NoLocal EXCEPT !.rows = {s \in Committed : ~session[s].expired}])
    /\ Unchanged

LogoutAllStart(r) ==
    /\ "logout_all" \in Operations
    /\ pc[r] = "idle"
    /\ Goto(r, "logout_all", [NoLocal EXCEPT !.rows = Committed])
    /\ Unchanged

LogoutAllCommit(r) ==
    /\ pc[r] = "logout_all"
    /\ session' = Deactivate(session, local[r].rows, "ended")
    /\ Done(r)
    /\ UNCHANGED <<userActive, password, held, nextId>>

(* revoke_session *)
Revoke(r, s) ==
    /\ "revoke" \in Operations
    /\ pc[r] = "idle"
    /\ s \in Committed
    /\ session' = Deactivate(session, {s}, "ended")
    /\ UNCHANGED <<userActive, password, held, nextId, pc, local>>

(* change_password: the UPDATE of the users row locks it until the commit. *)

UserRowFree == \A r \in Requests : pc[r] # "password_updated"

ChangePasswordRead(r) ==
    /\ "change_password" \in Operations
    /\ pc[r] = "idle" /\ password < MaxPasswords
    /\ Goto(r, "password_read", Begun(0, 0, password))
    /\ Unchanged

\* Variant: only the users row is updated.
ChangePasswordKeeping(r) ==
    /\ pc[r] = "password_read" /\ UserRowFree
    /\ Goto(r, "password_updated", local[r])
    /\ Unchanged

ChangePasswordUpdate(r) ==
    /\ pc[r] = "password_read" /\ UserRowFree
    /\ Goto(r, "password_updated", [local[r] EXCEPT !.rows = Committed])
    /\ Unchanged

ChangePasswordCommit(r) ==
    /\ pc[r] = "password_updated" /\ password < MaxPasswords
    /\ password' = password + 1
    /\ session' = Deactivate(session, local[r].rows, "ended")
    /\ Done(r)
    /\ UNCHANGED <<userActive, held, nextId>>

(* users::set_active, which leaves the sessions as they are. *)
SetActive(active) ==
    /\ "set_active" \in Operations
    /\ UserRowFree
    /\ userActive # active
    /\ userActive' = active
    /\ UNCHANGED <<session, password, held, nextId, pc, local>>

\* Time: expires_at passes.  Nothing deactivates the row.
Expire(s) ==
    /\ "expire" \in Operations
    /\ session[s].status = "active" /\ ~session[s].expired
    /\ session' = [session EXCEPT ![s].expired = TRUE]
    /\ UNCHANGED <<userActive, password, held, nextId, pc, local>>

\* An error or a dropped connection rolls the transaction back.
Rollback(r) == pc[r] # "idle" /\ Done(r) /\ Unchanged

Handler(r) ==
    \/ LoginUser(r) \/ LoginCount(r) \/ LoginEvict(r) \/ LoginCommit(r)
    \/ \E s \in Ids : RefreshSession(r, s) \/ Logout(r, s) \/ Revoke(r, s)
    \/ RefreshUser(r) \/ RefreshCommit(r)
    \/ LogoutAllStart(r) \/ LogoutAllCommit(r)
    \/ ChangePasswordRead(r) \/ ChangePasswordUpdate(r) \/ ChangePasswordCommit(r)
    \/ Rollback(r)

Next ==
    \/ \E r \in Requests : Handler(r)
    \/ \E active \in BOOLEAN : SetActive(active)
    \/ \E s \in Ids : Expire(s)

Spec == Init /\ [][Next]_vars

-----------------------------------------------------------------------------
(* Properties.                                                             *)

Successors(s) == {t \in Committed : session[t].parent = s}

\* Types; and a row is inserted under an id that no row and no other handler
\* has (Uuid::new_v4 at service.rs:128 and 251).
TypeOK ==
    /\ session \in [Ids -> Row]
    /\ userActive \in BOOLEAN
    /\ password \in 0..MaxPasswords
    /\ held \in SUBSET Ids
    /\ nextId \in 0..MaxIds
    /\ pc \in [Requests -> Phase]
    /\ local \in [Requests -> Local]
    /\ \A r \in Requests : local[r].id # 0 =>
         /\ session[local[r].id].status = "none"
         /\ \A q \in Requests : local[q].id = local[r].id => q = r

\* Rotation is atomic: a session opened by a refresh never shares its life
\* with the one it replaces, wherever handlers fail (service.rs:261-279).
ParentRetired ==
    \A s \in Active : session[s].parent # 0 => session[session[s].parent].status = "inactive"

\* How far a double refresh goes: the handlers that read the session before
\* the first of them committed, one successor each (service.rs:230-237).
SuccessorsBounded ==
    \A s \in Ids : Cardinality(Successors(s)) <= Cardinality(Requests)

\* Concurrent logins exceed the limit by the handlers in flight at most: the
\* next login sees the excess and evicts it too (service.rs:101-120).
LoginCap ==
    Cardinality(Active) <= MaxSessions + Cardinality(Requests) - 1

\* One handler at a time, no active session goes back to a password that has
\* been changed since (service.rs:328-339).
ActiveUnderCurrentPassword ==
    \A s \in Active : session[s].password = password

\* logout_all answers "All sessions terminated" (handlers.rs:176-177): no
\* session of the user is active when it commits.
AllTerminated ==
    [][\A r \in Requests : LogoutAllCommit(r) => Active' = {}]_vars

\* A session opened by a refresh is never refreshed itself: no response carries
\* its refresh token, so rotation ends a login after one step (handlers.rs:104-112
\* beside service.rs:283).
RotatedOnce ==
    \A s \in Committed : session[s].parent # 0 => session[session[s].parent].parent = 0
=============================================================================
