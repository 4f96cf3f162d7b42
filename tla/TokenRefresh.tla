---------------------------- MODULE TokenRefresh ----------------------------
(***************************************************************************)
(* fetchApi of web/src/lib/api.ts: the requests of one browser tab, of     *)
(* which at most one refreshes the access token while the others wait, and *)
(* the pages around it (stores/auth.svelte.ts, the root layout).           *)
(*                                                                         *)
(* JavaScript runs a continuation to its next await without interruption:  *)
(* a step of this module is the arrival of one response (Receive...), the  *)
(* start of a request, or something the server, the network or the user    *)
(* does.  Responses arrive in any order, and a request may be executed by  *)
(* the server although its response is lost.                               *)
(***************************************************************************)
EXTENDS Naturals

CONSTANTS
    Calls,      \* calls of fetchApi
    GoodLogins, \* those of authApi.login with the right password
    BadLogins   \* those of authApi.login with a wrong one

ASSUME CallsAssumption ==
    /\ GoodLogins \subseteq Calls /\ BadLogins \subseteq Calls
    /\ GoodLogins \cap BadLogins = {}

VARIABLES
    phase,         \* where each call is
    carries,       \* was a valid access token sent with its pending fetch
    answer,        \* the response to its pending fetch
    executed,      \* how often the server has executed it
    isRefreshing, refreshSubscribers,
    access,        \* does the tab hold a valid access token (a cookie)
    onLogin,       \* is the page /login shown
    leaving,       \* has window.location.href been set, the page still running
    stranded       \* history: subscribers left by a refresh that failed on /login

client == <<isRefreshing, refreshSubscribers, leaving, stranded>>
vars == <<phase, carries, answer, executed, client, access, onLogin>>

\* first, retry, resumed: fetch of the call itself, the first time, after its
\* own refresh, and as a subscriber.
Phase  == {"idle", "first", "refresh", "waiting", "retry", "resumed", "done", "gone"}
Answer == {"pending", "ok", "error", "401"}
OnWire == {"first", "refresh", "retry", "resumed"}
Logins == GoodLogins \cup BadLogins

Init ==
    /\ phase = [c \in Calls |-> "idle"]
    /\ carries = [c \in Calls |-> FALSE]
    /\ answer = [c \in Calls |-> "pending"]
    /\ executed = [c \in Calls |-> 0]
    /\ isRefreshing = FALSE /\ refreshSubscribers = {}
    /\ access \in BOOLEAN /\ onLogin \in BOOLEAN
    /\ leaving = FALSE /\ stranded = {}

-----------------------------------------------------------------------------
(* The server and the network.                                             *)

\* A call is executed if it needs no token or carries a valid one; its outcome
\* may be a failure.  A wrong password is answered 401 as well.
Serve(c) ==
    /\ phase[c] \in {"first", "retry", "resumed"} /\ answer[c] = "pending"
    /\ IF c \in GoodLogins \/ (c \notin Logins /\ carries[c])
       THEN /\ executed' = [executed EXCEPT ![c] = @ + 1]
            /\ \E a \in {"ok", "error"} : answer' = [answer EXCEPT ![c] = a]
       ELSE answer' = [answer EXCEPT ![c] = "401"] /\ UNCHANGED executed
    /\ UNCHANGED <<phase, carries, client, access, onLogin>>

ServeRefresh(c) ==
    /\ phase[c] = "refresh" /\ answer[c] = "pending"
    /\ \E a \in {"ok", "error", "401"} : answer' = [answer EXCEPT ![c] = a]
    /\ UNCHANGED <<phase, carries, executed, client, access, onLogin>>

\* The request or its response is lost: fetch rejects, or the proxy of
\* hooks.server.ts answers 502; either is an error to the client.
Lose(c) ==
    /\ phase[c] \in OnWire /\ answer[c] # "error"
    /\ answer' = [answer EXCEPT ![c] = "error"]
    /\ UNCHANGED <<phase, carries, executed, client, access, onLogin>>

\* The token expires; what is on its way carries one no younger.
Expire ==
    /\ access
    /\ access' = FALSE /\ carries' = [c \in Calls |-> FALSE]
    /\ UNCHANGED <<phase, answer, executed, client, onLogin>>

\* Cookies are shared: another tab signs in or refreshes.
OtherTab ==
    /\ ~access
    /\ access' = TRUE
    /\ UNCHANGED <<phase, carries, answer, executed, client, onLogin>>

-----------------------------------------------------------------------------
(* The client.                                                             *)

\* Call c goes on to a fetch or an end; what its last fetch carried is past.
Goto(c, next, token) ==
    /\ phase' = [phase EXCEPT ![c] = next]
    /\ answer' = [answer EXCEPT ![c] = "pending"]
    /\ carries' = [carries EXCEPT ![c] = token]

Call(c) ==
    /\ phase[c] = "idle"
    /\ c \in Logins => onLogin
    /\ Goto(c, "first", access)
    /\ UNCHANGED <<executed, client, access, onLogin>>

\* A login that succeeds brings its cookie and goes to a cabinet page.
Settle(c) ==
    /\ Goto(c, "done", FALSE)
    /\ IF c \in Logins /\ answer[c] = "ok"
       THEN access' = TRUE /\ onLogin' = FALSE
       ELSE UNCHANGED <<access, onLogin>>
    /\ UNCHANGED <<executed, client>>

ReceiveFirst(c) ==
    /\ phase[c] = "first" /\ answer[c] \in {"ok", "error"}
    /\ Settle(c)

ReceiveRetry(c) ==
    /\ phase[c] \in {"retry", "resumed"} /\ answer[c] # "pending"
    /\ Settle(c)

\* Variant: the refresh is started without a look at isRefreshing.
StartRefreshAlways(c) ==
    /\ phase[c] = "first" /\ answer[c] = "401"
    /\ isRefreshing' = TRUE
    /\ Goto(c, "refresh", FALSE)
    /\ UNCHANGED <<executed, refreshSubscribers, leaving, stranded, access, onLogin>>

StartRefresh(c) ==
    /\ phase[c] = "first" /\ answer[c] = "401" /\ ~isRefreshing
    /\ isRefreshing' = TRUE
    /\ Goto(c, "refresh", FALSE)
    /\ UNCHANGED <<executed, refreshSubscribers, leaving, stranded, access, onLogin>>

Subscribe(c) ==
    /\ phase[c] = "first" /\ answer[c] = "401" /\ isRefreshing
    /\ refreshSubscribers' = refreshSubscribers \cup {c}
    /\ Goto(c, "waiting", FALSE)
    /\ UNCHANGED <<executed, isRefreshing, leaving, stranded, access, onLogin>>

\* onTokenRefreshed sends the fetch of every subscriber, then this call its own.
Resume(c) ==
    LET again == refreshSubscribers \cup {c}
    IN  /\ phase' = [d \in Calls |-> IF d = c THEN "retry"
                                     ELSE IF d \in again THEN "resumed" ELSE phase[d]]
        /\ answer' = [d \in Calls |-> IF d \in again THEN "pending" ELSE answer[d]]
        /\ carries' = [d \in Calls |-> d \in again \/ carries[d]]

\* Variant: onTokenRefreshed does not clear the list.
RefreshedKeeping(c) ==
    /\ phase[c] = "refresh" /\ answer[c] = "ok"
    /\ isRefreshing' = FALSE /\ access' = TRUE /\ stranded' = {}
    /\ Resume(c)
    /\ UNCHANGED <<executed, refreshSubscribers, leaving, onLogin>>

\* Variant: onTokenRefreshed clears the list before it runs the callbacks.
RefreshedClearing(c) ==
    /\ phase[c] = "refresh" /\ answer[c] = "ok"
    /\ isRefreshing' = FALSE /\ access' = TRUE
    /\ refreshSubscribers' = {} /\ stranded' = {}
    /\ Goto(c, "retry", TRUE)
    /\ UNCHANGED <<executed, leaving, onLogin>>

Refreshed(c) ==
    /\ phase[c] = "refresh" /\ answer[c] = "ok"
    /\ isRefreshing' = FALSE /\ access' = TRUE
    /\ refreshSubscribers' = {} /\ stranded' = {}
    /\ Resume(c)
    /\ UNCHANGED <<executed, leaving, onLogin>>

\* Variant: the page is not left.
RefreshFailedStaying(c) ==
    /\ phase[c] = "refresh" /\ answer[c] \in {"error", "401"}
    /\ isRefreshing' = FALSE
    /\ Goto(c, "done", FALSE)
    /\ stranded' = IF onLogin THEN refreshSubscribers ELSE stranded
    /\ UNCHANGED <<executed, refreshSubscribers, leaving, access, onLogin>>

\* clearSessionAndRedirect leaves any page but /login; the subscribers stay
\* where they are.
RefreshFailed(c) ==
    /\ phase[c] = "refresh" /\ answer[c] \in {"error", "401"}
    /\ isRefreshing' = FALSE
    /\ Goto(c, "done", FALSE)
    /\ leaving' = (leaving \/ ~onLogin)
    /\ stranded' = IF onLogin THEN refreshSubscribers ELSE stranded
    /\ UNCHANGED <<executed, refreshSubscribers, access, onLogin>>

\* The browser leaves the page: a new one starts with fresh module state.
Unload ==
    /\ leaving
    /\ phase' = [c \in Calls |-> IF phase[c] \in {"idle", "done"} THEN phase[c] ELSE "gone"]
    /\ isRefreshing' = FALSE /\ refreshSubscribers' = {} /\ stranded' = {}
    /\ leaving' = FALSE /\ onLogin' = TRUE
    /\ answer' = [c \in Calls |-> "pending"] /\ carries' = [c \in Calls |-> FALSE]
    /\ UNCHANGED <<executed, access>>

\* auth.logout: the cookies are cleared unless the request fails, goto('/login').
Logout ==
    /\ ~onLogin
    /\ access' \in {access, FALSE} /\ onLogin' = TRUE
    /\ UNCHANGED <<phase, carries, answer, executed, client>>

Receive(c) == ReceiveFirst(c) \/ ReceiveRetry(c) \/ StartRefresh(c) \/ Subscribe(c)
              \/ Refreshed(c) \/ RefreshFailed(c)

Next ==
    \/ \E c \in Calls : Serve(c) \/ ServeRefresh(c) \/ Lose(c) \/ Call(c) \/ Receive(c)
    \/ Expire \/ OtherTab \/ Unload \/ Logout

\* Every fetch is answered or fails, the tab handles what arrives, and a
\* navigation that was started takes place.
Fairness ==
    /\ \A c \in Calls : WF_vars(Serve(c) \/ ServeRefresh(c)) /\ WF_vars(Receive(c))
    /\ WF_vars(Unload)

Spec == Init /\ [][Next]_vars
FairSpec == Spec /\ Fairness

-----------------------------------------------------------------------------
(* Properties.                                                             *)

\* Types.
TypeOK ==
    /\ phase \in [Calls -> Phase]
    /\ carries \in [Calls -> BOOLEAN]
    /\ answer \in [Calls -> Answer]
    /\ executed \in [Calls -> Nat]
    /\ isRefreshing \in BOOLEAN /\ access \in BOOLEAN
    /\ onLogin \in BOOLEAN /\ leaving \in BOOLEAN
    /\ refreshSubscribers \in SUBSET Calls /\ stranded \in SUBSET Calls

\* isRefreshing is TRUE exactly while one call, and only one, refreshes the
\* token (api.ts:70-73), whatever fails and whatever page is left.
SingleFlight ==
    /\ isRefreshing <=> \E c \in Calls : phase[c] = "refresh"
    /\ \A c, d \in Calls : phase[c] = "refresh" /\ phase[d] = "refresh" => c = d

\* No call is executed twice by the server, although it may be sent twice and
\* its callback lies in a list that later refreshes run (api.ts:31-34, 77, 94-112).
ExecutedOnce == \A c \in Calls : executed[c] <= 1

\* A call is on the list exactly while it waits.  While no refresh runs, and the
\* page is not about to be left, the waiting calls are those left by a refresh
\* that failed on /login, where nothing calls them back (api.ts:36-43, 88-90); a
\* login does not, they wait on until a later refresh succeeds.
NobodyForgotten ==
    /\ refreshSubscribers = {c \in Calls : phase[c] = "waiting"}
    /\ isRefreshing \/ leaving \/ refreshSubscribers = stranded
    /\ stranded \subseteq refreshSubscribers

\* A call that waits is resumed or its page is left, whatever becomes of the
\* refresh it waits for, with one exception: a refresh that fails while /login is
\* shown, which is not left (api.ts:39), leaves it waiting.
WaitersMoveOn ==
    \A c \in Calls : phase[c] = "waiting" ~> phase[c] # "waiting" \/ c \in stranded
=============================================================================
