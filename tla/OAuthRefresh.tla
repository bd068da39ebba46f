---------------------------- MODULE OAuthRefresh ----------------------------
(* The daemon's OAuth tokens (bridge/oauth-refresh.ts, credentials.ts): the *)
(* keychain it shares with other clients of the account, the one refresh    *)
(* its callers share, the timers that keep idle bridges supplied, and the   *)
(* attaches of bridge-service.ts that start and stop them, and the plan     *)
(* usage of the desktop's menu, which rides on it (plan-usage.ts).          *)
(* Time is abstract: a token is fresh, due (the proactive lead) or stale    *)
(* (the buffer of ensureFresh), and a timer goes off whenever it does.      *)
EXTENDS Naturals, FiniteSets

CONSTANTS
    Sessions,       \* sessions that can be bridged
    Menu,           \* the menu, which asks on behalf of the plan usage
    NoCreds,        \* the keychain has no credentials
    NoRefresh,      \* no refresh is in flight
    Nobody,         \* no other client is between its refresh and its write
    MaxTokens,      \* bound: refresh tokens the server issues
    MaxFaults,      \* bound: requests, answers and writes that fail
    MaxAsks         \* bound: attaches, and usage fetches that ask

ASSUME OAuthAssumption ==
    /\ {MaxTokens, MaxFaults, MaxAsks} \subseteq Nat
    /\ MaxTokens # 0     \* the one of the login before
    /\ Menu \notin Sessions

VARIABLES
    store,      \* the keychain: a refresh token and the age of its access token
    live,       \* the server: the refresh tokens it accepts
    issued,     \* the newest refresh token
    refresh,    \* this.refreshing: the token sent, and what the server answers
    asks,       \* per caller of ensureFresh: idle, waiting, a token, or the error
    plan,       \* what the menu shows of the plan; "cached" while it is not refetched
    pending,    \* the timer's own refresh is in flight
    running,    \* between start() and stop()
    timers,     \* this.timer, and timers whose handle was overwritten
    sessions,   \* per session: none, attaching or bridged
    rival,      \* a token another client of the account has yet to write
    faults, asked,
    lost,       \* a rotated token never reached the keychain (history)
    rejected    \* the last refresh ended with the token rejected (history)

account == <<store, live, issued, rival>>
manager == <<refresh, asks, pending, running, timers>>
vars == <<account, manager, plan, sessions, faults, asked, lost, rejected>>

Callers == Sessions \cup {Menu}
Tokens == 1..MaxTokens
Ages == {"fresh", "due", "stale"}
Answers == {"none", "granted", "invalid_grant", "network"}
Kinds == {"proactive", "retry"}
Plans == {"none", "cached", "ok", "signed_out", "error"}

Creds == [token : Tokens, age : Ages]
Refreshes == [token : Tokens, answer : Answers]

\* What stands for the absence of a record or a token is none.
ASSUME NullsAssumption ==
    NoCreds \notin Creds /\ NoRefresh \notin Refreshes /\ Nobody \notin Tokens

TypeOK ==
    /\ store \in Creds \cup {NoCreds}
    /\ live \subseteq Tokens /\ issued \in Tokens
    /\ refresh \in Refreshes \cup {NoRefresh}
    /\ asks \in [Callers -> {"idle", "waiting", "token", "failed", "network"}]
    /\ plan \in Plans
    /\ {pending, running, lost, rejected} \subseteq BOOLEAN
    /\ timers \in [set : Kinds \cup {"none"}, stray : SUBSET Kinds]
    /\ sessions \in [Sessions -> {"none", "attaching", "bridged"}]
    /\ rival \in Tokens \cup {Nobody}
    /\ faults \in 0..MaxFaults /\ asked \in 0..MaxAsks

Init ==
    /\ store \in {NoCreds, [token |-> 1, age |-> "fresh"]}
    /\ live = {1} /\ issued = 1
    /\ refresh = NoRefresh
    /\ asks = [c \in Callers |-> "idle"]
    /\ plan = "none"
    /\ pending = FALSE /\ running = FALSE
    /\ timers = [set |-> "none", stray |-> {}]
    /\ sessions = [s \in Sessions |-> "none"]
    /\ rival = Nobody
    /\ faults = 0 /\ asked = 0
    /\ lost = FALSE /\ rejected = FALSE

Fresh(token) == [token |-> token, age |-> "fresh"]

-----------------------------------------------------------------------------
(* Timers.                                                                 *)

\* scheduleProactive: clears the timer there is, and only while running.
Schedule(t) == [t EXCEPT !.set = "proactive"]
ScheduleProactive(t) == IF running THEN Schedule(t) ELSE t

\* Mutant: a refresh that failed is not tried again.
ArmRetry_Never(t) == t

\* armRetry: the handle of a timer set meanwhile is overwritten.
ArmRetry(t) ==
    IF running THEN [set |-> "retry", stray |-> t.stray \cup ({t.set} \ {"none"})] ELSE t

\* A callback clears this.timer, whichever timer that is.
Gone(t, kind) ==
    IF t.set = kind THEN [t EXCEPT !.set = "none"]
    ELSE [set |-> "none", stray |-> (t.stray \ {kind}) \cup ({t.set} \ {"none"})]

Set(t) == ({t.set} \ {"none"}) \cup t.stray

-----------------------------------------------------------------------------
(* Asking for a token.                                                     *)

\* Mutant: every caller sends a refresh of its own.
Joined_Anew == [token |-> store.token, answer |-> "none"]

\* refresh: joins the one in flight, else sends the stored token.
Joined == IF refresh # NoRefresh THEN refresh ELSE [token |-> store.token, answer |-> "none"]

\* ensureFresh, of one caller.
EnsureFresh(c) ==
    \/ /\ store = NoCreds
       /\ asks' = [asks EXCEPT ![c] = "failed"]
       /\ UNCHANGED refresh
    \/ /\ store # NoCreds /\ store.age # "stale"
       /\ asks' = [asks EXCEPT ![c] = "token"]
       /\ UNCHANGED refresh
    \/ /\ store # NoCreds /\ store.age = "stale"
       /\ asks' = [asks EXCEPT ![c] = "waiting"]
       /\ refresh' = Joined

-----------------------------------------------------------------------------
(* The refresh.                                                            *)

\* The server takes the request: a token it accepts is spent for a new one.
Exchange ==
    /\ refresh # NoRefresh /\ refresh.answer = "none"
    /\ IF refresh.token \in live
       THEN /\ issued < MaxTokens
            /\ issued' = issued + 1
            /\ live' = (live \ {refresh.token}) \cup {issued + 1}
            /\ refresh' = [token |-> issued + 1, answer |-> "granted"]
       ELSE /\ refresh' = [refresh EXCEPT !.answer = "invalid_grant"]
            /\ UNCHANGED <<live, issued>>
    /\ UNCHANGED <<store, rival, asks, pending, running, timers, plan, sessions, faults, asked, lost, rejected>>

\* The request does not get there, the server has an error, or its answer
\* is lost.
NetworkFails ==
    /\ refresh # NoRefresh /\ refresh.answer \in {"none", "granted"}
    /\ faults < MaxFaults /\ faults' = faults + 1
    /\ refresh' = [refresh EXCEPT !.answer = "network"]
    /\ lost' = (lost \/ refresh.answer = "granted")
    /\ UNCHANGED <<account, asks, pending, running, timers, plan, sessions, asked, rejected>>

\* The promise settles: the callers get the token or the error.
Settle(outcome) ==
    /\ refresh' = NoRefresh /\ pending' = FALSE
    /\ asks' = [c \in Callers |-> IF asks[c] = "waiting" THEN outcome ELSE asks[c]]
    /\ UNCHANGED <<live, issued, rival, running, plan, sessions, asked>>

\* writeCredentials puts them over whatever is there by now.
Written == Fresh(refresh.token)

\* doRefresh goes on after a grant. Whether the write succeeded is not looked
\* at.
Granted ==
    /\ refresh # NoRefresh /\ refresh.answer = "granted"
    /\ \/ store' = Written /\ UNCHANGED <<faults, lost>>
       \/ /\ faults < MaxFaults /\ faults' = faults + 1
          /\ lost' = TRUE /\ UNCHANGED store
    /\ timers' = ScheduleProactive(timers)
    /\ rejected' = FALSE
    /\ Settle("token")

\* ... after invalid_grant: another client may have written a fresher token.
\* Else the account needs a login, and nothing is scheduled.
Reread == store # NoCreds /\ store.token # refresh.token /\ store.age # "stale"
Rejected ==
    /\ refresh # NoRefresh /\ refresh.answer = "invalid_grant"
    /\ timers' = IF Reread THEN ScheduleProactive(timers) ELSE timers
    /\ rejected' = ~Reread
    /\ Settle(IF Reread THEN "token" ELSE "failed")
    /\ UNCHANGED <<store, faults, lost>>

\* ... after a failure on the way: the timer's own refresh is tried again.
Failed ==
    /\ refresh # NoRefresh /\ refresh.answer = "network"
    /\ timers' = IF pending THEN ArmRetry(timers) ELSE timers
    /\ Settle("network")
    /\ UNCHANGED <<store, faults, lost, rejected>>

\* The proactive timer refreshes, whatever the age. Without credentials it
\* is not set again.
ProactiveFires ==
    /\ "proactive" \in Set(timers)
    /\ timers' = Gone(timers, "proactive")
    /\ IF store = NoCreds /\ refresh = NoRefresh
       THEN UNCHANGED <<refresh, pending>>
       ELSE refresh' = Joined /\ pending' = TRUE
    /\ UNCHANGED <<account, asks, running, plan, sessions, faults, asked, lost, rejected>>

\* The retry timer schedules by what the keychain holds now.
RetryFires ==
    /\ "retry" \in Set(timers)
    /\ timers' = IF store = NoCreds THEN Gone(timers, "retry") ELSE ScheduleProactive(Gone(timers, "retry"))
    /\ UNCHANGED <<account, refresh, asks, pending, running, plan, sessions, faults, asked, lost, rejected>>

-----------------------------------------------------------------------------
(* The plan usage of the menu.                                             *)

\* refreshPlanUsage: an error does not blank a good snapshot.
Shown(result) == IF result = "error" /\ plan \in {"ok", "cached"} THEN plan ELSE result

\* fetchOnce is under way or ends. A second opening of the menu joins it.
Fetching == asks[Menu] # "idle"
FetchEnds(result) ==
    /\ plan' = Shown(result)
    /\ asks' = [asks EXCEPT ![Menu] = "idle"]
    /\ UNCHANGED <<account, refresh, pending, running, timers, sessions, faults, asked, lost, rejected>>

\* The menu is opened, or the poll ticks: what is cached needs no request.
OpenMenu ==
    /\ ~Fetching /\ plan # "cached" /\ asked < MaxAsks
    /\ asked' = asked + 1
    /\ EnsureFresh(Menu)
    /\ UNCHANGED <<account, plan, pending, running, timers, sessions, faults, lost, rejected>>

\* ensureFresh throws: only a network error is not an account that needs login.
NoToken ==
    /\ asks[Menu] \in {"failed", "network"}
    /\ FetchEnds(IF asks[Menu] = "failed" THEN "signed_out" ELSE "error")

\* The endpoint answers: the usage, a 401, anything else, or not at all.
UsageAnswers ==
    /\ asks[Menu] = "token"
    /\ \E result \in {"cached", "signed_out", "error"} : FetchEnds(result)

\* CACHE_TTL_MS pass.
Expires ==
    /\ plan = "cached"
    /\ plan' = "ok"
    /\ UNCHANGED <<account, manager, sessions, faults, asked, lost, rejected>>

-----------------------------------------------------------------------------
(* The bridges that need it.                                               *)

Bridged == {s \in Sessions : sessions[s] = "bridged"}

\* attach: start(), and the first thing the transport does is to ask.
Attach(s) ==
    /\ sessions[s] = "none" /\ asks[s] = "idle" /\ asked < MaxAsks
    /\ asked' = asked + 1
    /\ sessions' = [sessions EXCEPT ![s] = "attaching"]
    /\ running' = TRUE
    /\ timers' = IF running \/ store = NoCreds THEN timers ELSE Schedule(timers)
    /\ EnsureFresh(s)
    /\ UNCHANGED <<account, pending, plan, faults, lost, rejected>>

Stop ==
    /\ running' = FALSE
    /\ timers' = [timers EXCEPT !.set = "none"]

\* stop() if no session is attached. Those still attaching do not count.
StopIfLast(left) == IF left = {} THEN Stop ELSE UNCHANGED <<running, timers>>

Attached(s) ==
    /\ sessions[s] = "attaching" /\ asks[s] = "token"
    /\ sessions' = [sessions EXCEPT ![s] = "bridged"]
    /\ asks' = [asks EXCEPT ![s] = "idle"]
    /\ UNCHANGED <<account, refresh, pending, plan, running, timers, faults, asked, lost, rejected>>

\* No token, or the session cannot be created or connected.
AttachFails(s) ==
    /\ sessions[s] = "attaching" /\ asks[s] \in {"token", "failed", "network"}
    /\ sessions' = [sessions EXCEPT ![s] = "none"]
    /\ asks' = [asks EXCEPT ![s] = "idle"]
    /\ StopIfLast(Bridged)
    /\ UNCHANGED <<account, refresh, pending, plan, faults, asked, lost, rejected>>

\* detach, or the transport is given up.
Detach(s) ==
    /\ sessions[s] = "bridged"
    /\ sessions' = [sessions EXCEPT ![s] = "none"]
    /\ StopIfLast(Bridged \ {s})
    /\ UNCHANGED <<account, refresh, asks, pending, plan, faults, asked, lost, rejected>>

-----------------------------------------------------------------------------
(* The rest of the world.                                                  *)

Older == [fresh |-> "due", due |-> "stale"]
TimePasses ==
    /\ store # NoCreds /\ store.age # "stale"
    /\ store' = [store EXCEPT !.age = Older[@]]
    /\ UNCHANGED <<live, issued, rival, manager, plan, sessions, faults, asked, lost, rejected>>

\* The binary, the CLI or the desktop app of the account refreshes ...
RivalRefreshes ==
    /\ rival = Nobody /\ store # NoCreds /\ store.age # "fresh" /\ store.token \in live
    /\ issued < MaxTokens
    /\ issued' = issued + 1
    /\ live' = (live \ {store.token}) \cup {issued + 1}
    /\ rival' = issued + 1
    /\ UNCHANGED <<store, manager, plan, sessions, faults, asked, lost, rejected>>

\* ... and writes what it got.
RivalWrites ==
    /\ rival # Nobody
    /\ store' = Fresh(rival)
    /\ rival' = Nobody
    /\ UNCHANGED <<live, issued, manager, plan, sessions, faults, asked, lost, rejected>>

Login ==
    /\ issued < MaxTokens
    /\ issued' = issued + 1
    /\ live' = live \cup {issued + 1}
    /\ store' = Fresh(issued + 1)
    /\ UNCHANGED <<rival, manager, plan, sessions, faults, asked, lost, rejected>>

Logout ==
    /\ store # NoCreds
    /\ store' = NoCreds
    /\ UNCHANGED <<live, issued, rival, manager, plan, sessions, faults, asked, lost, rejected>>

-----------------------------------------------------------------------------
Settles == Granted \/ Rejected \/ Failed
Fires == ProactiveFires \/ RetryFires
Bridging(s) == Attach(s) \/ Attached(s) \/ AttachFails(s) \/ Detach(s)
World == TimePasses \/ RivalRefreshes \/ RivalWrites \/ Login \/ Logout
Next ==
    \/ Exchange \/ NetworkFails \/ Settles \/ Fires \/ World
    \/ OpenMenu \/ NoToken \/ UsageAnswers \/ Expires
    \/ \E s \in Sessions : Bridging(s)

Spec == Init /\ [][Next]_vars

\* Requests are answered one way or the other, and timers go off.
LiveSpec == Spec /\ WF_vars(Exchange) /\ WF_vars(Settles) /\ WF_vars(ProactiveFires) /\ WF_vars(RetryFires)

-----------------------------------------------------------------------------
(* Properties.                                                             *)

\* The refresh token of the keychain is one the server accepts, or the one
\* that replaced it is on its way there - from the daemon or from another
\* client - or was lost on the network or by a write that failed: callers,
\* timers and rivals together never throw a rotated token away
\* (oauth-refresh.ts:191-237).
RotationKept ==
    store # NoCreds /\ ~lost =>
        \/ store.token \in live
        \/ rival \in live
        \/ refresh # NoRefresh /\ refresh.answer = "granted" /\ refresh.token \in live

\* An idle bridge whose timer is set gets a fresh token, through failures of
\* the network and rotations by others, unless the account is logged out, the
\* token is rejected, or the bridge goes (oauth-refresh.ts:306-345).
KeepsFresh ==
    (running /\ timers.set # "none" /\ store # NoCreds)
        ~> (~running \/ store = NoCreds \/ store.age = "fresh" \/ rejected \/ issued = MaxTokens)

=============================================================================
