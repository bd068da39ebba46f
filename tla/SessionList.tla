---------------------------- MODULE SessionList ----------------------------
(* The session list: one metadata file per session (sidecode-sessions.ts), *)
(* the manager's cache of it and the live runtimes                         *)
(* (session-runtime-manager.ts), the handlers that change them across      *)
(* their awaits (router.ts, index.ts, bridge-service.ts,                   *)
(* startup-reattach.ts), and the stream of states that keeps the list of   *)
(* each device (subscribeSessions, sessions-collection.ts).                *)
(* The bridge writes its part of the file directly; everything else goes   *)
(* through the manager. File writes succeed.                               *)
EXTENDS Naturals, Sequences

CONSTANTS
    Sessions, Devices, Models,
    None,          \* no file, no cache entry, no runtime, no row
    NoModel,       \* no model picked: the SDK's default
    NoBridge,      \* a session's metadata without worker state
    Handlers,      \* sendPrompt commands handled at once
    MaxEdges,      \* activity edges and creations: the clock
    MaxCse,        \* cloud sessions created
    MaxSeq,        \* the inbound sequence number of a cloud session
    MaxRestarts,
    MaxQueue       \* frames on a wire when the daemon acts

ASSUME SessionListAssumption ==
    /\ {MaxEdges, MaxCse, MaxSeq, MaxRestarts, MaxQueue} \subseteq Nat
    /\ MaxCse # 0   \* a session bridged before is found at startup
    /\ NoModel \notin Models /\ None \notin Models \cup {NoModel}

VARIABLES
    file,        \* local_<sid>.json, per session
    states,      \* the manager's cache
    runtimes,    \* the manager's runtimes
    jsonl,       \* sessions the SDK knows (hasSession)
    prompts,     \* the sendPrompt commands under way
    picks,       \* per session, a model whose applyFlagSettings is awaited
    upgrading,   \* per session, the step its bridgeSession awaits
    booting,     \* per session, the startup pass: the cloud session it has
                 \* yet to reach, or whose transport it awaits
    online,      \* devices with a connection, and a listener at the manager
    down,        \* the frames to each device
    rows,        \* a device's collection
    now, minted, restarts,
    excused      \* sessions whose cache or file was overrun (history)

daemon == <<states, runtimes, prompts, picks, upgrading, booting>>
clients == <<online, down, rows>>
vars == <<file, jsonl, daemon, clients, now, minted, restarts, excused>>

-----------------------------------------------------------------------------
Selections == Models \cup {NoModel}
Worker == [cse : 1..MaxCse, seq : 0..MaxSeq, done : BOOLEAN]
Meta == [model : Selections, stamp : 0..MaxEdges, bridge : {NoBridge} \cup Worker]
Runtime == [activity : {"idle", "running"}, live : BOOLEAN, cse : 0..MaxCse,
            model : Selections, stamp : 0..MaxEdges]
Row == [activity : {"idle", "running"}, model : Selections, stamp : 0..MaxEdges, bridged : BOOLEAN]

\* What stands for the absence of a record is not a record.
ASSUME NullsAssumption == None \notin Meta \cup Runtime \cup Row /\ NoBridge \notin Worker

At(phase, s) == [phase |-> phase, s |-> s, exists |-> FALSE, model |-> NoModel, bridged |-> FALSE]
Idle == At("idle", None)
Booting(at, cse) == [at |-> at, cse |-> cse]
Booted == Booting("done", 0)

\* buildPublicState: what a device is told of a session.
Public(meta, runtime) ==
    IF meta = None /\ runtime = None THEN None
    ELSE [activity |-> IF runtime = None THEN "idle" ELSE runtime.activity,
          model    |-> IF runtime # None /\ runtime.model # NoModel THEN runtime.model
                       ELSE IF meta # None THEN meta.model ELSE NoModel,
          stamp    |-> IF runtime # None THEN runtime.stamp ELSE meta.stamp,
          bridged  |-> meta # None /\ meta.bridge # NoBridge]

\* fanoutStateChanged to every listener.
Fanout(s, meta, runtime) ==
    down' = [d \in Devices |->
        IF online[d] THEN Append(down[d], [type |-> "changed", s |-> s, state |-> Public(meta, runtime)])
        ELSE down[d]]

\* getOrCreate: a new runtime takes model and stamp from the cache, or the
\* time of its construction.
Seeded(meta) ==
    [activity |-> "idle", live |-> FALSE, cse |-> 0,
     model |-> IF meta = None THEN NoModel ELSE meta.model,
     stamp |-> IF meta = None THEN now ELSE meta.stamp]
RuntimeOf(s, meta) == IF runtimes[s] = None THEN Seeded(meta) ELSE runtimes[s]

\* Mutant: the full record of the cache is written back as it is.
Merged_FromCache(s, meta) == meta

\* persistMetadata reads the file for the bridge's part of the record.
Merged(s, meta) == [meta EXCEPT !.bridge = IF file[s] = None THEN NoBridge ELSE file[s].bridge]
Persist(s, meta) ==
    /\ states' = [states EXCEPT ![s] = Merged(s, meta)]
    /\ file' = [file EXCEPT ![s] = Merged(s, meta)]
    /\ excused' = [excused EXCEPT ![s] = @ \ {"stale"}]

\* The startup pass lists the bridged sessions once, with their cloud sessions.
Found(s) == IF file[s] # None /\ file[s].bridge # NoBridge THEN file[s].bridge.cse ELSE 0
Listed(s) == IF Found(s) = 0 THEN Booted ELSE Booting("listed", Found(s))

NoRows == [s \in Sessions |-> None]

Init ==
    /\ file \in [Sessions -> {None} \cup [model : {NoModel}, stamp : {0}, bridge : {NoBridge, [cse |-> 1, seq |-> 0, done |-> TRUE]}]]
    /\ states = file
    /\ runtimes = [s \in Sessions |-> None]
    /\ jsonl = [s \in Sessions |-> file[s] # None]
    /\ prompts = [h \in Handlers |-> Idle]
    /\ picks = [s \in Sessions |-> None]
    /\ upgrading = [s \in Sessions |-> "no"]
    /\ booting = [s \in Sessions |-> Listed(s)]
    /\ online = [d \in Devices |-> FALSE]
    /\ down = [d \in Devices |-> <<>>]
    /\ rows = [d \in Devices |-> NoRows]
    /\ now = 0 /\ minted = 1 /\ restarts = 0
    /\ excused = [s \in Sessions |-> {}]

\* The bound on the wires: the daemon goes on when no more wait. (Frames go
\* one way and in order, so what a device ends up with does not depend on it.)
Calm == \A d \in Devices : Len(down[d]) < MaxQueue

-----------------------------------------------------------------------------
(* Activity.                                                               *)

\* Mutant: only the edge to running is told to the manager.
SetActivity_RunningOnly(s, meta, runtime, activity) ==
    LET next == [runtime EXCEPT !.activity = activity, !.stamp = now + 1]
    IN  /\ now < MaxEdges /\ now' = now + 1
        /\ runtimes' = [runtimes EXCEPT ![s] = next]
        /\ IF runtime.activity = activity \/ activity = "idle"
           THEN UNCHANGED <<file, states, down, excused>>
           ELSE IF meta = None
           THEN Fanout(s, meta, next) /\ UNCHANGED <<file, states, excused>>
           ELSE Persist(s, [meta EXCEPT !.stamp = now + 1]) /\ Fanout(s, Merged(s, meta), next)

\* setActivity: both edges stamp the runtime; only a transition is told to
\* the manager, whose notifyStateChanged persists a later stamp and fans out.
SetActivity(s, meta, runtime, activity) ==
    LET next == [runtime EXCEPT !.activity = activity, !.stamp = now + 1]
    IN  /\ now < MaxEdges /\ now' = now + 1
        /\ runtimes' = [runtimes EXCEPT ![s] = next]
        /\ IF runtime.activity = activity
           THEN UNCHANGED <<file, states, down, excused>>
           ELSE IF meta = None
           THEN Fanout(s, meta, next) /\ UNCHANGED <<file, states, excused>>
           ELSE Persist(s, [meta EXCEPT !.stamp = now + 1]) /\ Fanout(s, Merged(s, meta), next)

-----------------------------------------------------------------------------
(* sendPrompt.                                                             *)

\* hasSession is asked; the answer may be old when the handler goes on.
SendPrompt(h, s) ==
    /\ prompts[h] = Idle /\ now < MaxEdges
    /\ \E model \in Selections, bridged \in BOOLEAN :
          /\ jsonl[s] => model = NoModel /\ ~bridged   \* read of a new session only
          /\ prompts' = [prompts EXCEPT ![h] =
                [phase |-> "checking", s |-> s, exists |-> jsonl[s], model |-> model, bridged |-> bridged]]
    /\ UNCHANGED <<file, jsonl, states, runtimes, picks, upgrading, booting, clients, now, minted, restarts, excused>>

\* buildNewSidecodeSession: the record of a session that is created now.
NewSession(model) == [model |-> model, stamp |-> now + 1, bridge |-> NoBridge]

\* createSessionFromPrompt replaces the cache entry and the file, whatever
\* they hold, and fans out; then the runtime is there. A create-bridged one
\* goes on to attach, unless a bridge is attached.
Checked(h) ==
    LET p == prompts[h]
        s == p.s
        meta == NewSession(p.model)
        Goes(runtime) == [prompts EXCEPT ![h] = At(IF p.bridged /\ runtime.cse = 0 THEN "attaching" ELSE "token", s)]
    IN  /\ p.phase = "checking"
        /\ IF p.exists
           THEN /\ runtimes' = [runtimes EXCEPT ![s] = RuntimeOf(s, states[s])]
                /\ prompts' = Goes(RuntimeOf(s, states[s]))
                /\ UNCHANGED <<file, states, down, now, excused>>
           ELSE /\ now < MaxEdges /\ now' = now + 1
                /\ states' = [states EXCEPT ![s] = meta]
                /\ file' = [file EXCEPT ![s] = meta]
                /\ Fanout(s, meta, runtimes[s])
                /\ runtimes' = [runtimes EXCEPT ![s] = RuntimeOf(s, meta)]
                /\ prompts' = Goes(RuntimeOf(s, meta))
                /\ excused' = [excused EXCEPT ![s] = IF states[s] = None THEN @ ELSE @ \cup {"recreated"}]
        /\ UNCHANGED <<jsonl, picks, upgrading, booting, online, rows, minted, restarts>>

\* The token is fresh: the loop is spawned if there is none, the prompt
\* pushed, the command answered.
Spawn(h) ==
    LET s == prompts[h].s
    IN  /\ prompts[h].phase = "token"
        /\ prompts' = [prompts EXCEPT ![h] = Idle]
        /\ SetActivity(s, states[s], [runtimes[s] EXCEPT !.live = TRUE], "running")
        /\ UNCHANGED <<jsonl, picks, upgrading, booting, online, rows, minted, restarts>>

\* No token: turn_failed goes to the transcript, not to the list.
TokenFails(h) ==
    /\ prompts[h].phase = "token"
    /\ prompts' = [prompts EXCEPT ![h] = Idle]
    /\ UNCHANGED <<file, jsonl, states, runtimes, picks, upgrading, booting, clients, now, minted, restarts, excused>>

\* The SDK writes the session's first line.
Write(s) ==
    /\ runtimes[s] # None /\ runtimes[s].live /\ ~jsonl[s]
    /\ jsonl' = [jsonl EXCEPT ![s] = TRUE]
    /\ UNCHANGED <<file, daemon, clients, now, minted, restarts, excused>>

\* A result: the idle edge. The checkpoint is an action of its own.
TurnEnds(s) ==
    /\ runtimes[s] # None /\ runtimes[s].activity = "running"
    /\ SetActivity(s, states[s], runtimes[s], "idle")
    /\ UNCHANGED <<jsonl, prompts, picks, upgrading, booting, online, rows, minted, restarts>>

\* The idle teardown disposes of the query and keeps the runtime.
Teardown(s) ==
    /\ runtimes[s] # None /\ runtimes[s].live /\ runtimes[s].activity = "idle"
    /\ runtimes' = [runtimes EXCEPT ![s].live = FALSE]
    /\ UNCHANGED <<file, jsonl, states, prompts, picks, upgrading, booting, clients, now, minted, restarts, excused>>

\* A transcript subscribe makes the runtime, also before the session exists.
View(s) ==
    /\ runtimes[s] = None
    /\ runtimes' = [runtimes EXCEPT ![s] = Seeded(states[s])]
    /\ UNCHANGED <<file, jsonl, states, prompts, picks, upgrading, booting, clients, now, minted, restarts, excused>>

-----------------------------------------------------------------------------
(* setSessionSelection, and claude.ai's onSetModel.                        *)

\* Mutant: the new model is persisted and nobody is told.
SetModel_Untold(s, model) ==
    IF states[s] = None \/ states[s].model = model
    THEN UNCHANGED <<file, states, runtimes, down, excused>>
    ELSE /\ runtimes' = [runtimes EXCEPT ![s] = IF @ = None THEN None ELSE [@ EXCEPT !.model = model]]
         /\ Persist(s, [states[s] EXCEPT !.model = model])
         /\ UNCHANGED down

\* manager.setModel: a session without metadata or with that model is left.
SetModel(s, model) ==
    IF states[s] = None \/ states[s].model = model
    THEN UNCHANGED <<file, states, runtimes, down, excused>>
    ELSE LET runtime == IF runtimes[s] = None THEN None ELSE [runtimes[s] EXCEPT !.model = model]
         IN  /\ runtimes' = [runtimes EXCEPT ![s] = runtime]
             /\ Persist(s, [states[s] EXCEPT !.model = model])
             /\ Fanout(s, Merged(s, [states[s] EXCEPT !.model = model]), runtime)

\* Without a live query there is nothing to await.
Pick(s, model) ==
    /\ picks[s] = None
    /\ IF runtimes[s] # None /\ runtimes[s].live
       THEN /\ picks' = [picks EXCEPT ![s] = model]
            /\ UNCHANGED <<file, states, runtimes, down, excused>>
       ELSE SetModel(s, model) /\ UNCHANGED picks
    /\ UNCHANGED <<jsonl, prompts, upgrading, booting, online, rows, now, minted, restarts>>

\* applyFlagSettings resolves, or rejects and nothing is changed.
PickApplied(s) ==
    /\ picks[s] # None
    /\ picks' = [picks EXCEPT ![s] = None]
    /\ \/ SetModel(s, picks[s])
       \/ UNCHANGED <<file, states, runtimes, down, excused>>
    /\ UNCHANGED <<jsonl, prompts, upgrading, booting, online, rows, now, minted, restarts>>

-----------------------------------------------------------------------------
(* The bridge's part of the record.                                        *)

\* notifyBridgeChanged: the cache takes the bridge's part of the file.
NotifyBridgeChanged(s, bridge, runtime) ==
    LET meta == IF states[s] = None THEN None ELSE [states[s] EXCEPT !.bridge = bridge]
    IN  /\ states' = [states EXCEPT ![s] = meta]
        /\ excused' = [excused EXCEPT ![s] = @ \ {"stale"}]
        /\ IF Public(meta, runtime) = None THEN UNCHANGED down ELSE Fanout(s, meta, runtime)

\* A fresh attach: the runtime's bridge is set, then worker state written
\* (nothing without a file) and the manager told.
Attach(s) ==
    LET bridge == [cse |-> minted + 1, seq |-> 0, done |-> FALSE]
        kept == IF file[s] = None THEN NoBridge ELSE bridge
        runtime == [runtimes[s] EXCEPT !.cse = minted + 1]
    IN  /\ minted < MaxCse /\ minted' = minted + 1
        /\ runtimes' = [runtimes EXCEPT ![s] = runtime]
        /\ file' = [file EXCEPT ![s] = IF @ = None THEN None ELSE [@ EXCEPT !.bridge = bridge]]
        /\ NotifyBridgeChanged(s, kept, runtime)

\* The create-bridged attach ends, well or not; the prompt goes on.
PromptAttached(h) ==
    /\ prompts[h].phase = "attaching"
    /\ prompts' = [prompts EXCEPT ![h].phase = "token"]
    /\ \/ Attach(prompts[h].s)
       \/ UNCHANGED <<file, states, runtimes, down, minted, excused>>
    /\ UNCHANGED <<jsonl, picks, upgrading, booting, online, rows, now, restarts>>

\* bridgeSession: of a session with metadata, at a turn boundary.
Upgrade(s) ==
    /\ upgrading[s] = "no" /\ states[s] # None
    /\ RuntimeOf(s, states[s]).activity # "running" /\ RuntimeOf(s, states[s]).cse = 0
    /\ runtimes' = [runtimes EXCEPT ![s] = RuntimeOf(s, states[s])]
    /\ upgrading' = [upgrading EXCEPT ![s] = "attaching"]
    /\ UNCHANGED <<file, jsonl, states, prompts, picks, booting, clients, now, minted, restarts, excused>>

UpgradeAttached(s) ==
    /\ upgrading[s] = "attaching"
    /\ \/ Attach(s) /\ upgrading' = [upgrading EXCEPT ![s] = "backfilling"]
       \/ /\ upgrading' = [upgrading EXCEPT ![s] = "no"]
          /\ UNCHANGED <<file, states, runtimes, down, minted, excused>>
    /\ UNCHANGED <<jsonl, prompts, picks, booting, online, rows, now, restarts>>

\* The backfill is flushed, or fails; markBridgeBackfilled writes the file.
UpgradeBackfilled(s) ==
    /\ upgrading[s] = "backfilling"
    /\ upgrading' = [upgrading EXCEPT ![s] = "no"]
    /\ \/ file' = [file EXCEPT ![s] = IF @ = None \/ @.bridge = NoBridge THEN @ ELSE [@ EXCEPT !.bridge.done = TRUE]]
       \/ UNCHANGED file
    /\ UNCHANGED <<jsonl, states, runtimes, prompts, picks, booting, clients, now, minted, restarts, excused>>

\* updateBridgeSequenceNum at a turn's end; never backwards.
Checkpoint(s) ==
    /\ runtimes[s] # None /\ runtimes[s].cse # 0
    /\ file[s] # None /\ file[s].bridge # NoBridge
    /\ \E seq \in 0..MaxSeq :
          /\ seq > file[s].bridge.seq
          /\ file' = [file EXCEPT ![s].bridge.seq = seq]
    /\ UNCHANGED <<jsonl, daemon, clients, now, minted, restarts, excused>>

\* detach: an unbridge, or a close that ends the mirror.
Detach(s) ==
    /\ runtimes[s] # None /\ runtimes[s].cse # 0
    /\ LET runtime == [runtimes[s] EXCEPT !.cse = 0]
       IN  /\ runtimes' = [runtimes EXCEPT ![s] = runtime]
           /\ file' = [file EXCEPT ![s] = IF @ = None THEN None ELSE [@ EXCEPT !.bridge = NoBridge]]
           /\ NotifyBridgeChanged(s, NoBridge, runtime)
    /\ UNCHANGED <<jsonl, prompts, picks, upgrading, booting, online, rows, now, minted, restarts>>

\* The startup pass comes to a session it found bridged: it fails and leaves
\* it, or clears the worker state in the file, past the manager, or attaches
\* to the cloud session it found then, unless one is attached.
Reattach(s) ==
    /\ booting[s].at = "listed"
    /\ LET runtime == RuntimeOf(s, states[s])
       IN  \/ /\ runtimes' = [runtimes EXCEPT ![s] = runtime]
              /\ booting' = [booting EXCEPT ![s] = IF runtime.cse = 0 THEN Booting("attaching", @.cse) ELSE Booted]
              /\ UNCHANGED <<file, excused>>
           \/ /\ booting' = [booting EXCEPT ![s] = Booted]
              /\ file' = [file EXCEPT ![s].bridge = NoBridge]
              /\ excused' = [excused EXCEPT ![s] = @ \cup (IF Found(s) = 0 THEN {} ELSE {"stale"})
                                                     \cup (IF runtime.cse = 0 THEN {} ELSE {"lost"})]
              /\ UNCHANGED runtimes
           \/ /\ booting' = [booting EXCEPT ![s] = Booted]
              /\ UNCHANGED <<file, runtimes, excused>>
    /\ UNCHANGED <<jsonl, states, prompts, picks, upgrading, clients, now, minted, restarts>>

\* Its transport is there, or is not: what was attached meanwhile is replaced
\* and nothing is written, the record on disk being taken for this one's.
Reattached(s) ==
    /\ booting[s].at = "attaching"
    /\ booting' = [booting EXCEPT ![s] = Booted]
    /\ \/ /\ runtimes' = [runtimes EXCEPT ![s].cse = booting[s].cse]
          /\ excused' = [excused EXCEPT ![s] = @ \cup (IF Found(s) = booting[s].cse THEN {} ELSE {"lost"})]
       \/ UNCHANGED <<runtimes, excused>>
    /\ UNCHANGED <<file, jsonl, states, prompts, picks, upgrading, clients, now, minted, restarts>>

-----------------------------------------------------------------------------
(* Devices, and the daemon's restart.                                      *)

\* getAllSessionStates: every session known from disk or by its runtime.
Snapshot == [s \in Sessions |-> Public(states[s], runtimes[s])]

\* The listener is added and the snapshot sent before any change.
SubscribeSessionStates(d) ==
    /\ online' = [online EXCEPT ![d] = TRUE]
    /\ down' = [down EXCEPT ![d] = <<[type |-> "initial", rows |-> Snapshot]>>]

\* A connection, its subscribeSessions and the daemon's answer.
Connect(d) ==
    /\ ~online[d]
    /\ SubscribeSessionStates(d)
    /\ UNCHANGED <<file, jsonl, daemon, rows, now, minted, restarts, excused>>

\* The rows a device keeps while it has no connection are left out: the
\* snapshot of the next one replaces them all.
Disconnect(d) ==
    /\ online[d]
    /\ online' = [online EXCEPT ![d] = FALSE]
    /\ down' = [down EXCEPT ![d] = <<>>]
    /\ rows' = [rows EXCEPT ![d] = NoRows]
    /\ UNCHANGED <<file, jsonl, daemon, now, minted, restarts, excused>>

\* onInitial truncates and inserts; onChange upserts.
OnChange(shown, s, state) == [shown EXCEPT ![s] = state]
Fed(shown, frame) ==
    IF frame.type = "initial" THEN frame.rows ELSE OnChange(shown, frame.s, frame.state)

Deliver(d) ==
    /\ down[d] # <<>>
    /\ down' = [down EXCEPT ![d] = Tail(@)]
    /\ rows' = [rows EXCEPT ![d] = Fed(@, Head(down[d]))]
    /\ UNCHANGED <<file, jsonl, daemon, online, now, minted, restarts, excused>>

\* The daemon is killed and started: setHome fills the cache from the files.
Restart ==
    /\ restarts < MaxRestarts
    /\ restarts' = restarts + 1
    /\ states' = file
    /\ runtimes' = [s \in Sessions |-> None]
    /\ prompts' = [h \in Handlers |-> Idle]
    /\ picks' = [s \in Sessions |-> None]
    /\ upgrading' = [s \in Sessions |-> "no"]
    /\ booting' = [s \in Sessions |-> Listed(s)]
    /\ online' = [d \in Devices |-> FALSE]
    /\ down' = [d \in Devices |-> <<>>]
    /\ rows' = [d \in Devices |-> NoRows]
    /\ excused' = [s \in Sessions |-> {}]
    /\ UNCHANGED <<file, jsonl, now, minted>>

-----------------------------------------------------------------------------
Handle(h) == Checked(h) \/ PromptAttached(h) \/ Spawn(h) \/ TokenFails(h)
Bridge(s) == Upgrade(s) \/ UpgradeAttached(s) \/ UpgradeBackfilled(s) \/ Checkpoint(s) \/ Detach(s)
             \/ Reattach(s) \/ Reattached(s)
Turns(s) == Write(s) \/ TurnEnds(s) \/ Teardown(s) \/ View(s) \/ PickApplied(s)

Daemon ==
    \/ \E h \in Handlers : Handle(h) \/ \E s \in Sessions : SendPrompt(h, s)
    \/ \E s \in Sessions : Bridge(s) \/ Turns(s) \/ \E model \in Selections : Pick(s, model)

Next ==
    \/ Calm /\ Daemon
    \/ \E d \in Devices : Connect(d) \/ Disconnect(d) \/ Deliver(d)
    \/ Restart

Spec == Init /\ [][Next]_vars

-----------------------------------------------------------------------------
(* Properties.                                                             *)

Prompt == [phase : {"checking", "attaching", "token"}, s : Sessions, exists : BOOLEAN,
           model : Selections, bridged : BOOLEAN]
Rows == [Sessions -> Row \cup {None}]
Frame == [type : {"initial"}, rows : Rows]
         \cup [type : {"changed"}, s : Sessions, state : Row \cup {None}]
Boots == [at : {"listed", "attaching", "done"}, cse : 0..MaxCse]
Excuses == {"recreated", "stale", "lost"}

TypeOK ==
    /\ file \in [Sessions -> Meta \cup {None}]
    /\ states \in [Sessions -> Meta \cup {None}]
    /\ runtimes \in [Sessions -> Runtime \cup {None}]
    /\ jsonl \in [Sessions -> BOOLEAN]
    /\ prompts \in [Handlers -> Prompt \cup {Idle}]
    /\ picks \in [Sessions -> Selections \cup {None}]
    /\ upgrading \in [Sessions -> {"no", "attaching", "backfilling"}]
    /\ booting \in [Sessions -> Boots]
    /\ online \in [Devices -> BOOLEAN]
    /\ down \in [Devices -> Seq(Frame)]
    /\ rows \in [Devices -> Rows]
    /\ now \in 0..MaxEdges /\ minted \in 1..MaxCse /\ restarts \in 0..MaxRestarts
    /\ excused \in [Sessions -> SUBSET Excuses]

\* A device that has taken in all that was sent to it lists every session the
\* daemon owns as the daemon has it, whatever handlers, turns, bridge changes
\* and reconnects went on: no change of the public state goes untold
\* (session-runtime-manager.ts:414-463), except that a prompt pushed into a
\* running turn stamps the runtime in silence until the turn ends.
Shown(state) == [state EXCEPT !.stamp = IF state.activity = "running" THEN 0 ELSE @]
ListConverges ==
    \A d \in Devices, s \in Sessions :
        online[d] /\ down[d] = <<>> /\ states[s] # None =>
            rows[d][s] # None /\ Shown(rows[d][s]) = Shown(Public(states[s], runtimes[s]))

\* What the list shows is what a restart would show: the file, written by
\* the manager and by the bridge behind its back, has the model, the bridged
\* flag and, of an idle session, an activity as recent - unless the session
\* was created a second time, or the startup pass cleared the file past the
\* manager. And a mirror that runs is on file under its own cloud session -
\* unless the session was created a second time under it, or the startup pass
\* cleared a file whose mirror runs, or its attach landed on a session whose
\* file named another cloud session by then
\* (session-runtime-manager.ts:465-507, bridge-service.ts:477-500).
DurableList ==
    \A s \in Sessions :
        /\ states[s] # None /\ excused[s] \cap {"recreated", "stale"} = {} =>
               LET shown == Public(states[s], runtimes[s])
                   kept == Public(file[s], None)
               IN  /\ file[s] # None
                   /\ kept.model = shown.model /\ kept.bridged = shown.bridged
                   /\ shown.activity = "idle" => kept.stamp >= shown.stamp
        /\ runtimes[s] # None /\ runtimes[s].cse # 0
           /\ excused[s] \cap {"recreated", "lost"} = {} =>
               Found(s) = runtimes[s].cse

\* While a cloud session is on file, its checkpoint does not go back and a
\* backfill is not forgotten, whoever rewrites the record
\* (sidecode-sessions.ts:343-397, session-runtime-manager.ts:477-507).
CheckpointKept ==
    [][\A s \in Sessions : Found(s) # 0 /\ Found(s)' = Found(s) =>
          /\ file'[s].bridge.seq >= file[s].bridge.seq
          /\ file[s].bridge.done => file'[s].bridge.done]_vars

=============================================================================
