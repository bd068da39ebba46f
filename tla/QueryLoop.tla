----------------------------- MODULE QueryLoop -----------------------------
(***************************************************************************)
(* The life of one session's SDK query: spawned on demand by a prompt      *)
(* (ensureSessionLoop, pushPrompt), consumed by a loop that keeps the      *)
(* session's activity (run-query.ts), reclaimed by the idle-teardown timer *)
(* (session-runtime.ts), interrupted by the user (router.ts interrupt) and *)
(* drained at shutdown (session-runtime-manager.ts shutdown).              *)
(*                                                                         *)
(* runtime.query, inputChannel and loopPromise are always assigned         *)
(* together, so one variable, `slot`, stands for the three.  A query is    *)
(* closed by disposeQuery but its loop goes on until the SDK's iterator    *)
(* ends, so several loops of one runtime can be draining at a time.        *)
(***************************************************************************)
EXTENDS Integers, Sequences, FiniteSets

CONSTANTS
    Prompts,        \* user prompts, by RPC or from the bridge
    Watchers,       \* stream subscribers
    MaxQueries,     \* bound: queries spawned
    MaxInterrupts,  \* bound: interrupt requests
    MaxWakes,       \* bound: turns the SDK starts by itself
    MaxOut          \* bound: messages a query has yielded and no loop has taken

ASSUME BoundsAssumption ==
    /\ MaxQueries \in Nat /\ MaxInterrupts \in Nat
    /\ MaxWakes \in Nat /\ MaxOut \in Nat

Queries == 1 .. MaxQueries
NoQuery == 0
NoTurn  == "none"
OwnTurn == "own"     \* a turn the SDK started by itself (a scheduled task)

Turns    == Prompts \cup {NoTurn, OwnTurn}
Messages == {"frame", "success", "error"}

VARIABLES
    \* --- the runtime
    slot,          \* runtime.query / inputChannel / loopPromise
    activity,      \* runtime.activity
    interrupted,   \* runtime.interrupted
    timer,         \* the teardown timer is armed
    watchers,      \* runtime.subscribers
    \* --- the handlers that are awaiting
    prompts,       \* how far each prompt has come
    interrupting,  \* the query whose interrupt() a handler awaits
    shuttingDown,
    \* --- the SDK, one record per query spawned
    sdk,
    spawned,       \* queries spawned so far
    \* --- history
    interrupts,    \* interrupt requests made
    wakes,         \* turns the SDK started by itself
    swallowed,     \* error results not reported as failures
    lost,          \* prompts pushed onto a closed channel
    strayed        \* a loop that had lost the slot has delivered a message

runtimeVars == <<slot, activity, interrupted, timer, watchers>>
handlerVars == <<prompts, interrupting, shuttingDown>>
sdkVars     == <<sdk, spawned>>
historyVars == <<interrupts, wakes, swallowed, lost, strayed>>
vars == <<runtimeVars, handlerVars, sdkVars, historyVars>>

Unborn == [live |-> FALSE, closed |-> FALSE, looping |-> FALSE,
           inbox |-> <<>>, turn |-> NoTurn, out |-> <<>>]
Fresh  == [Unborn EXCEPT !.live = TRUE, !.looping = TRUE]

Init ==
    /\ slot = NoQuery /\ activity = "idle" /\ interrupted = FALSE
    /\ timer = FALSE /\ watchers = {}
    /\ prompts = [p \in Prompts |-> "unsent"]
    /\ interrupting = NoQuery /\ shuttingDown = FALSE
    /\ sdk = [q \in Queries |-> Unborn] /\ spawned = 0
    /\ interrupts = 0 /\ wakes = 0 /\ swallowed = 0 /\ lost = {} /\ strayed = FALSE

-----------------------------------------------------------------------------
(* Activity and the teardown timer.                                        *)

(* Mutant: a watcher does not keep the timer from being armed.             *)
ArmTimer_Watched(state, subs, query) ==
    IF state = "idle" /\ query # NoQuery THEN TRUE ELSE timer

(* armIfEligibleForTeardown: armed when idle, unwatched, and there is a    *)
(* query to reclaim; otherwise the timer is left as it is.                 *)
ArmTimer(state, subs, query) ==
    IF state = "idle" /\ subs = {} /\ query # NoQuery THEN TRUE ELSE timer

(* Mutant: a turn that begins leaves a pending teardown as it is.          *)
MarkActivity_KeepsTimer(state) ==
    /\ activity' = state
    /\ timer' = IF state = "idle" THEN ArmTimer(state, watchers, slot) ELSE timer

(* setActivity: idle may arm the timer, running always cancels it.         *)
MarkActivity(state) ==
    /\ activity' = state
    /\ timer' = IF state = "idle" THEN ArmTimer(state, watchers, slot) ELSE FALSE

(* runtime.subscribe: a watcher joins and the timer is cancelled.          *)
Subscribe(w) ==
    /\ w \notin watchers
    /\ watchers' = watchers \cup {w}
    /\ timer' = FALSE
    /\ UNCHANGED <<slot, activity, interrupted, handlerVars, sdkVars, historyVars>>

(* Mutant: the last watcher to leave does not start the countdown.         *)
Unsubscribe_NoArm(w) ==
    /\ w \in watchers
    /\ watchers' = watchers \ {w}
    /\ UNCHANGED <<slot, activity, interrupted, timer, handlerVars, sdkVars, historyVars>>

(* The closure subscribe returned: the last watcher to leave an idle       *)
(* session starts the countdown.                                           *)
Unsubscribe(w) ==
    /\ w \in watchers
    /\ watchers' = watchers \ {w}
    /\ timer' = ArmTimer(activity, watchers', slot)
    /\ UNCHANGED <<slot, activity, interrupted, handlerVars, sdkVars, historyVars>>

Close(q) == [sdk EXCEPT ![q].closed = TRUE]

(* Mutant: the slots are left for the old loop's finally to clear.         *)
TimerFires_KeepsSlot ==
    /\ timer
    /\ slot # NoQuery => sdk[slot].inbox = <<>> /\ sdk[slot].out = <<>>
    /\ timer' = FALSE
    /\ sdk' = IF slot = NoQuery THEN sdk ELSE Close(slot)
    /\ UNCHANGED <<slot, activity, interrupted, watchers, handlerVars, spawned, historyVars>>

(* The timer fires: disposeQuery takes the slots at once and closes the    *)
(* query; its loop ends later.  The countdown (15 minutes) is longer than  *)
(* the SDK takes to start what is queued and the loop to take what is      *)
(* yielded.                                                                *)
TimerFires ==
    /\ timer
    /\ slot # NoQuery => sdk[slot].inbox = <<>> /\ sdk[slot].out = <<>>
    /\ timer' = FALSE
    /\ slot' = NoQuery
    /\ sdk' = IF slot = NoQuery THEN sdk ELSE Close(slot)
    /\ UNCHANGED <<activity, interrupted, watchers, handlerVars, spawned, historyVars>>

-----------------------------------------------------------------------------
(* Prompts.                                                                *)

(* The sendPrompt RPC passes the shutdown gate and goes to its awaits      *)
(* (hasSession, the bridge attach, the token); a prompt typed on the cloud *)
(* side (onInboundPrompt) has no gate and awaits the token.                *)
SendPrompt(p) ==
    /\ prompts[p] = "unsent"
    /\ ~shuttingDown
    /\ prompts' = [prompts EXCEPT ![p] = "awaiting"]
    /\ UNCHANGED <<interrupting, shuttingDown, runtimeVars, sdkVars, historyVars>>

InboundPrompt(p) ==
    /\ prompts[p] = "unsent"
    /\ prompts' = [prompts EXCEPT ![p] = "inbound"]
    /\ UNCHANGED <<interrupting, shuttingDown, runtimeVars, sdkVars, historyVars>>

(* The token could not be had: a turn_failed, and no query is spawned.     *)
RefusePrompt(p) ==
    /\ prompts[p] \in {"awaiting", "inbound"}
    /\ prompts' = [prompts EXCEPT ![p] = "refused"]
    /\ UNCHANGED <<interrupting, shuttingDown, runtimeVars, sdkVars, historyVars>>

(* The awaits are over: ensureSessionLoop returns the loop there is or     *)
(* spawns one, and pushPrompt clears the interrupt flag, feeds the channel *)
(* (a closed channel drops it) and marks the session running, all in one   *)
(* segment.                                                                *)
PushPrompt(p) ==
    /\ prompts[p] \in {"awaiting", "inbound"}
    /\ slot = NoQuery => spawned < MaxQueries
    /\ LET q    == IF slot = NoQuery THEN spawned + 1 ELSE slot
           with == IF slot = NoQuery THEN [sdk EXCEPT ![q] = Fresh] ELSE sdk
       IN /\ slot' = q
          /\ spawned' = IF slot = NoQuery THEN q ELSE spawned
          /\ IF with[q].closed
             THEN sdk' = with /\ lost' = lost \cup {p}
             ELSE sdk' = [with EXCEPT ![q].inbox = Append(@, p)] /\ UNCHANGED lost
    /\ prompts' = [prompts EXCEPT ![p] = "pushed"]
    /\ interrupted' = FALSE
    /\ activity' = "running"
    /\ timer' = FALSE
    /\ UNCHANGED <<watchers, interrupting, shuttingDown,
                   interrupts, wakes, swallowed, strayed>>

-----------------------------------------------------------------------------
(* Interrupt: the RPC and the cloud's stop button do the same.             *)

(* The flag is set before interrupt() is awaited; no query, nothing to do. *)
Interrupt ==
    /\ interrupts < MaxInterrupts
    /\ interrupting = NoQuery
    /\ slot # NoQuery
    /\ interrupted' = TRUE
    /\ interrupting' = slot
    /\ interrupts' = interrupts + 1
    /\ UNCHANGED <<slot, activity, timer, watchers, prompts, shuttingDown,
                   sdkVars, wakes, swallowed, lost, strayed>>

(* interrupt() settles: resolved, a turn_canceled is emitted; rejected by  *)
(* a query that is gone, an error answers the RPC.  Neither touches the    *)
(* flag.                                                                   *)
InterruptSettles ==
    /\ interrupting # NoQuery
    /\ interrupting' = NoQuery
    /\ UNCHANGED <<prompts, shuttingDown, runtimeVars, sdkVars, historyVars>>

-----------------------------------------------------------------------------
(* The SDK.                                                                *)

(* Query q yields a message and is then in the given turn.                 *)
Yield(q, msg, turn, inbox) ==
    /\ Len(sdk[q].out) < MaxOut
    /\ sdk' = [sdk EXCEPT ![q].out   = Append(@, msg),
                          ![q].turn  = IF msg = "frame" THEN turn ELSE NoTurn,
                          ![q].inbox = inbox]
    /\ UNCHANGED <<spawned, runtimeVars, handlerVars>>

(* The next prompt of the channel begins a turn.  A turn begins with the   *)
(* first message it yields: a model frame or, failing at once, its result. *)
BeginTurn(q) ==
    /\ sdk[q].live /\ sdk[q].turn = NoTurn
    /\ sdk[q].inbox # <<>>
    /\ \E msg \in Messages : Yield(q, msg, Head(sdk[q].inbox), Tail(sdk[q].inbox))
    /\ UNCHANGED historyVars

(* A scheduled task or a hook wakes the SDK without a prompt.              *)
Wake(q) ==
    /\ wakes < MaxWakes
    /\ sdk[q].live /\ sdk[q].turn = NoTurn
    /\ Yield(q, "frame", OwnTurn, sdk[q].inbox)
    /\ wakes' = wakes + 1
    /\ UNCHANGED <<interrupts, swallowed, lost, strayed>>

(* The turn yields another model frame, or its terminal result.            *)
YieldFrame(q) ==
    /\ sdk[q].live /\ sdk[q].turn # NoTurn
    /\ Yield(q, "frame", sdk[q].turn, sdk[q].inbox)
    /\ UNCHANGED historyVars

YieldResult(q) ==
    /\ sdk[q].live /\ sdk[q].turn # NoTurn
    /\ \E msg \in Messages \ {"frame"} : Yield(q, msg, NoTurn, sdk[q].inbox)
    /\ UNCHANGED historyVars

(* The subprocess is gone: closed and past its grace, or by itself.        *)
Exit(q) ==
    /\ sdk[q].live
    /\ sdk' = [sdk EXCEPT ![q].live = FALSE, ![q].turn = NoTurn]
    /\ UNCHANGED <<spawned, runtimeVars, handlerVars, historyVars>>

-----------------------------------------------------------------------------
(* The consumer loop of query q.                                           *)

Take(q) == [sdk EXCEPT ![q].out = Tail(@)]

(* A stream event or an assistant envelope: the session is running.        *)
HandleFrame(q) ==
    /\ sdk[q].looping
    /\ sdk[q].out # <<>> /\ Head(sdk[q].out) = "frame"
    /\ sdk' = Take(q)
    /\ MarkActivity("running")
    /\ strayed' = (strayed \/ slot # q)
    /\ UNCHANGED <<slot, interrupted, watchers, handlerVars, spawned,
                   interrupts, wakes, swallowed, lost>>

(* Mutant: the flag outlives the envelope it was meant for.                *)
HandleResult_KeepsFlag(q) ==
    /\ sdk[q].looping
    /\ sdk[q].out # <<>> /\ Head(sdk[q].out) # "frame"
    /\ sdk' = Take(q)
    /\ MarkActivity("idle")
    /\ UNCHANGED interrupted
    /\ swallowed' = IF interrupted /\ Head(sdk[q].out) = "error"
                    THEN swallowed + 1 ELSE swallowed
    /\ strayed' = (strayed \/ slot # q)
    /\ UNCHANGED <<slot, watchers, handlerVars, spawned, interrupts, wakes, lost>>

(* Mutant: only a successful turn ends the session's activity.             *)
HandleResult_ErrorStaysRunning(q) ==
    /\ sdk[q].looping
    /\ sdk[q].out # <<>> /\ Head(sdk[q].out) # "frame"
    /\ sdk' = Take(q)
    /\ IF Head(sdk[q].out) = "success" THEN MarkActivity("idle")
       ELSE UNCHANGED <<activity, timer>>
    /\ interrupted' = FALSE
    /\ swallowed' = IF interrupted /\ Head(sdk[q].out) = "error"
                    THEN swallowed + 1 ELSE swallowed
    /\ strayed' = (strayed \/ slot # q)
    /\ UNCHANGED <<slot, watchers, handlerVars, spawned, interrupts, wakes, lost>>

(* A result envelope: the session is idle, the interrupt flag is consumed  *)
(* whatever the outcome, and an error it was set for is not reported.      *)
HandleResult(q) ==
    /\ sdk[q].looping
    /\ sdk[q].out # <<>> /\ Head(sdk[q].out) # "frame"
    /\ sdk' = Take(q)
    /\ MarkActivity("idle")
    /\ interrupted' = FALSE
    /\ swallowed' = IF interrupted /\ Head(sdk[q].out) = "error"
                    THEN swallowed + 1 ELSE swallowed
    /\ strayed' = (strayed \/ slot # q)
    /\ UNCHANGED <<slot, watchers, handlerVars, spawned, interrupts, wakes, lost>>

(* Mutant: the identity guard is missing.                                  *)
LoopEnds_Unguarded(q) ==
    /\ sdk[q].looping /\ ~sdk[q].live /\ sdk[q].out = <<>>
    /\ sdk' = [sdk EXCEPT ![q].looping = FALSE]
    /\ slot' = NoQuery /\ interrupted' = FALSE
    /\ UNCHANGED <<activity, timer, watchers, handlerVars, spawned, historyVars>>

(* The iterator ends or throws; what it throws is an error of the turn,    *)
(* hidden when the user has interrupted.  The finally gives the slots back *)
(* only if they are still this query's; the activity is left as it is.     *)
LoopEnds(q) ==
    /\ sdk[q].looping /\ ~sdk[q].live /\ sdk[q].out = <<>>
    /\ sdk' = [sdk EXCEPT ![q].looping = FALSE]
    /\ \E threw \in BOOLEAN :
         /\ swallowed' = IF threw /\ interrupted THEN swallowed + 1 ELSE swallowed
         /\ strayed' = (strayed \/ (threw /\ slot # q))
    /\ IF slot = q
       THEN slot' = NoQuery /\ interrupted' = FALSE
       ELSE UNCHANGED <<slot, interrupted>>
    /\ UNCHANGED <<activity, timer, watchers, handlerVars, spawned,
                   interrupts, wakes, lost>>

(* Daemon stop(): the gate, then query.close() on what there is.  The      *)
(* slots stay until the loop ends.                                         *)
Stop ==
    /\ ~shuttingDown
    /\ shuttingDown' = TRUE
    /\ sdk' = IF slot = NoQuery THEN sdk ELSE Close(slot)
    /\ UNCHANGED <<prompts, interrupting, spawned, runtimeVars, historyVars>>

-----------------------------------------------------------------------------
Next ==
    \/ \E w \in Watchers : Subscribe(w) \/ Unsubscribe(w)
    \/ TimerFires
    \/ \E p \in Prompts : \/ SendPrompt(p) \/ InboundPrompt(p)
                          \/ RefusePrompt(p) \/ PushPrompt(p)
    \/ Interrupt \/ InterruptSettles
    \/ \E q \in Queries : \/ BeginTurn(q) \/ Wake(q) \/ YieldFrame(q)
                          \/ YieldResult(q) \/ Exit(q)
                          \/ HandleFrame(q) \/ HandleResult(q) \/ LoopEnds(q)
    \/ Stop

Spec == Init /\ [][Next]_vars

(* The event loop takes what the SDK yields, and the SDK ends every turn   *)
(* with a result envelope unless its process ends first.  A query that is  *)
(* closed ends within the SDK's grace period.                              *)
Fairness ==
    \A q \in Queries :
       /\ WF_vars(HandleFrame(q)) /\ WF_vars(HandleResult(q)) /\ WF_vars(LoopEnds(q))
       /\ WF_vars(BeginTurn(q)) /\ SF_vars(YieldResult(q))
       /\ WF_vars(sdk[q].closed /\ Exit(q))

FairSpec == Spec /\ Fairness

-----------------------------------------------------------------------------
(* Properties.                                                             *)

(* Every variable holds a value of its kind, and the slots, once set, are  *)
(* held until the loop that came with them ends or is disposed of.         *)
TypeOK ==
    /\ slot \in 0 .. spawned
    /\ slot # NoQuery => sdk[slot].looping
    /\ activity \in {"idle", "running"}
    /\ interrupted \in BOOLEAN /\ timer \in BOOLEAN
    /\ watchers \subseteq Watchers
    /\ prompts \in [Prompts -> {"unsent", "awaiting", "inbound", "refused", "pushed"}]
    /\ interrupting \in Queries \cup {NoQuery}
    /\ shuttingDown \in BOOLEAN
    /\ sdk \in [Queries -> [live : BOOLEAN, closed : BOOLEAN, looping : BOOLEAN,
                            inbox : Seq(Prompts), turn : Turns,
                            out : Seq(Messages)]]
    /\ spawned \in 0 .. MaxQueries
    /\ interrupts \in 0 .. MaxInterrupts
    /\ wakes \in 0 .. MaxWakes
    /\ swallowed \in Nat
    /\ lost \subseteq Prompts
    /\ strayed \in BOOLEAN

(* A pending teardown means nobody watches and no turn is known to run:    *)
(* the timer never outlives the arrival of a watcher or of a prompt        *)
(* (session-runtime.ts setActivity, subscribe).                            *)
WatchedStaysWarm == timer => activity = "idle" /\ watchers = {}

(* A subprocess that is idle and unwatched always has a teardown pending:  *)
(* in whatever order turns end and watchers leave, none is forgotten       *)
(* (session-runtime.ts armIfEligibleForTeardown and its two callers).      *)
IdleIsReclaimed ==
    (slot # NoQuery /\ activity = "idle" /\ watchers = {}) => timer

(* A query that nobody has closed and whose loop runs is the one the       *)
(* runtime holds: the late end of an old loop never disowns its successor, *)
(* and no subprocess is leaked (run-query.ts, the finally's guard).        *)
LiveQueryOwned ==
    \A q \in Queries :
       (sdk[q].looping /\ ~sdk[q].closed) => slot = q

(* Before shutdown no prompt is pushed onto the channel of a query that    *)
(* has been closed: a prompt that races the teardown gets a new query      *)
(* (session-runtime.ts disposeQuery claims the slots at once).             *)
NoPromptIntoClosedChannel == ~shuttingDown => lost = {}

(* One interrupt hides at most one error from the transcript, whatever     *)
(* turns it races, unless an already disposed query had an error of its    *)
(* own to report late (router.ts interrupt, handleResultEnvelope).         *)
SwallowsBounded == ~strayed => swallowed <= interrupts

(* The teardown never cuts a turn short, unless an already disposed query  *)
(* has reported a late result of its own (session-runtime.ts setActivity). *)
TeardownIsQuiet ==
    [][(slot # NoQuery /\ slot' = NoQuery /\ sdk[slot].live /\ ~shuttingDown /\ ~strayed)
         => sdk[slot].turn = NoTurn]_vars

(* While its loop lives, a session that shows a turn running comes back to *)
(* idle: no outcome of a turn leaves the spinner on, unless a disposed     *)
(* query has marked the session running under its successor                *)
(* (run-query.ts handleSdkMessage).                                        *)
ActivitySettles ==
    (activity = "running") ~> (activity = "idle" \/ slot = NoQuery \/ strayed)

=============================================================================
