# sidecode, specified

TLA+ specifications of sidecode ("Thinkite"): a daemon on the user's computer
that runs Claude Agent SDK sessions, phones and desktops that watch and drive
those sessions, and a cloud mirror (the "bridge") through which a session can
also be followed and prompted from claude.ai. Paths below are relative to the
repository; daemon files without a directory are under `packages/daemon/src`,
client files under `packages/app/src/lib` (phone) or `packages/desktop`.

Contents: [inventory](#1-inventory), [modules and code](#2-modules-and-code),
[runs](#3-runs-and-what-they-show), [bounds](#4-bounds),
[fairness](#5-fairness), [proofs](#6-proofs), [what the code does not
keep](#7-what-the-code-does-not-keep), [limits](#8-what-is-not-modelled),
[plan](#9-plan).

To run: `tlc -config X.cfg M` with a row of section 3, `tlapm M_proofs.tla` for
the proofs.

## 1. Inventory

The daemon is one Node process. Every handler, timer and callback runs without
interruption to its next `await`; that segment is the grain of atomicity of all
modules. Nothing is locked: what makes the code hard is what happens between
the segments, and that the daemon, the connections and the SDK subprocesses die
independently of one another.

| Component | State | What makes it correct | Module |
|---|---|---|---|
| **Session runtime** `runtime/session-runtime.ts`, `messages/fold.ts` | ring of the last 500 events, cursor counter, `settled` snapshot, subscribers | cursors are dense; the ring is a suffix of the log; a snapshot is what was on disk with the log folded over it; a replay misses nothing | SessionRuntime |
| **Subscribe / unsubscribe handlers** `router.ts` 286-541 | subsMap per connection, `onDisconnect` callbacks | no gap and no duplicate between snapshot, replay and live tail | TranscriptStream |
| **Client subscriptions and transcript** `daemon-client.ts`, `transcript-collection-factory.ts`; `src/lib/daemon-rpc.ts`, `transcript-collections.ts` | Subscription objects with resume hint, keyed rows, optimistic prompts | what is shown is what the cursor says was seen, each row once, across reconnections, restarts and the user's own prompts | TranscriptStream, Timeline, Desktop |
| **Query loop** `runtime/run-query.ts`, `async-message-input.ts` | query slots, activity, interrupted flag, teardown timer, streaming state | no prompt lost, no subprocess leaked or killed in a turn; the streamed transcript is the one on disk | QueryLoop, Timeline |
| **Normalisation and tool detail** `messages/normalize.ts`, `tool-detail.ts` | none | the cold read agrees with the live stream | Timeline, ToolDetail |
| **Runtime manager, metadata, session list** `session-runtime-manager.ts`, `sidecode-sessions.ts`, `sessions-collection.ts` | runtimes, cache, one JSON file per session, the list on each device | cache, file and lists agree; nothing is lost to a read-merge-write | SessionList |
| **Bridge service and transport** `bridge/bridge-service.ts`, `bridge-transport.ts`; **startup re-attach** `bridge/startup-reattach.ts` | map of AttachedSession, timers, backoff ladder, sequence numbers, worker state on disk | the mirror is the one tracked; a dead transport is replaced; inbound messages neither lost nor repeated | BridgeService |
| **OAuth refresh, credentials, plan usage** `bridge/oauth-refresh.ts`, `credentials.ts`, `plan-usage.ts` | tokens, in-flight promise, timers, usage cache | no rotated token lost; idle bridges stay supplied | OAuthRefresh |
| **Git watcher and status bar** `git-watch.ts`, `use-git-status.ts` | handles, debounce, self-heal, cached status, callback slots | the last change is eventually shown; nothing watches for nobody | GitWatch |
| **Phone supervisor, transport, pairing; peer server** `daemon-client-context.tsx`, `daemon-client.ts` 212-945, `wire-transport.ts`, `iroh-wire.ts`; `iroh-peer-server.ts`, `known-clients.ts` | epochs, timers, pending requests, keepalive; peers, hello timers | one live connection; the app is never left alone | Connection |
| **Terminal** `server/pty.ts`, `TerminalPane.tsx` | shells, headless mirror, sockets, flow control | the client hears every chunk once; a pane comes back | Terminal |
| **Daemon lock, processes, desktop page** `daemon-lock.ts`, `bin/thinkite.ts`, `server/index.ts`, `server/rpc.ts`, `local-connection.ts`, `daemon-rpc.ts`, `transcript-collections.ts` | lock file, process phases, page requests and collections | the lock is true of who wrote it; a sent prompt stays visible; requests settle; the page follows its connection | Desktop |
| **Wire framing**, **identity**, **schemas**, **diff, updater, user interface** | — | — | section 8 |

How they interact:

- a client's *sendPrompt* → router → (bridge attach, if asked) → `pushPrompt`,
  which echoes the prompt into the session runtime, spawns a query if there is
  none and pushes onto its channel;
- SDK message → `handleSdkMessage` → `addEvent` → every subscriber's callback →
  its connection; the same message goes to `runtime.bridge`, if set;
- cloud message → transport → `onInboundPrompt` → `pushPrompt`;
- an edge of the activity, a model, a bridge change → manager → cache and file →
  every listed device;
- last unsubscribe, or the end of a turn, arms the teardown timer of the idle
  session; subscribe and a running turn disarm it; it ends in `disposeQuery`;
- a result checkpoints the bridge's sequence number to the session's file;
- transport `onClose` and two timers end in the bridge's `reconnect`; attaches,
  spawns and the menu ask the OAuth manager for a token;
- stop: gate, bridge shutdown, drain of the runtimes, lock.

Hard behaviours, each with its line and the properties that watch it, are the
"hazards" of `PROJECT.json`.

## 2. Modules and code

    SessionRuntime ──▶ TranscriptStream
    ToolDetail ──▶ Timeline ── implements ──▶ Conversation
    QueryLoop   SessionList   BridgeService   OAuthRefresh
    Desktop     Connection    GitWatch        Terminal
    (each X that runs has an MCX with the constants of its runs;
    OAuthRefresh, GitWatch and Terminal share Services_proofs, the others that
    run have an X_proofs)

The modules are views of one system, cut so that each can be explored. Where two
of them meet, the neighbour is abstracted to what it can do there: to
TranscriptStream a turn is a few events, to QueryLoop a message is a frame or a
result, to SessionList a bridge is an attach that lands or does not.

### SessionRuntime and TranscriptStream

SessionRuntime is the pure part of a runtime, as operators on a record `[log,
buffer, nextCursor, settled, settledCursor]`: `AddEvent` (number, ring with
`Evict`, fold into the snapshot if there is one), `Replay`, `BufferOk` (the
completeness test of the warm path), `Install`, which sets a snapshot. `log` is
history, everything ever emitted; so are `held` and `start`: a snapshot read
from the JSONL has the first `held` events and, from `start` on, every one that
was folded into it, and what lies between it lacks. `FoldDeltas` is a fold, not
a RECURSIVE operator, so that the proofs can use the module.

TranscriptStream follows one session from the daemon's event log to each
device's collection: the daemon (`rt`, the timelines the JSONL has held), the
router (`reads`: handlers awaiting the JSONL, `regs`: the callbacks, `subsMap`),
the network (`conn`, `down`) and the client (`sub`, `owner`, `coll`).
`HandleSubscribe` is the handler's first segment with the `isNew`, warm and cold
branches; `ResumeSubscribe` and `FailSubscribe` the cold path after its await,
which answers whatever the file held at some moment since the await began;
`Deliver` one frame at the device; `Restart` a new process with a new epoch. The
uplink is merged with the handler: a delay of the request is indistinguishable
from a delay of the answer, which `down` has. Two history fields name the code's
defects (section 7): `coll.sound`, the view was based on a snapshot taken at the
response's own cursor; `doubled`, two cold subscribes of one connection raced.

### QueryLoop

One session's SDK query. `slot` stands for `query`, `inputChannel` and
`loopPromise`, which the code assigns together; `sdk[q]` is the subprocess, its
channel and its loop, and goes on after `disposeQuery`, so several loops can be
draining. `SendPrompt`, `InboundPrompt`, then `PushPrompt` or `RefusePrompt`,
split the handlers at their awaits; `HandleFrame` and `HandleResult` are
`handleSdkMessage`; `LoopEnds` is the `finally` with its identity guard. The SDK
is external: a turn begins with its first message, may be started by the SDK
itself, and a subprocess may die at any time. The one timing assumption: the
fifteen-minute teardown does not run out while a queued prompt waits to be
started or a yielded message to be taken. `strayed` records that a *disposed*
loop delivered a message (`run-query.ts:740` sets the activity from any loop).

### Timeline, ToolDetail, Conversation

One query from its spawn: the SDK streams messages block by block, runs tools,
is interrupted, compacts; the daemon turns that into deltas (`TextStart`,
`TextDelta`, `HandleAssistant`, `HandleUser`: the `handle*` functions of
`run-query.ts` with their `StreamingState`), folds them into `settled`, sends
them to the phone, forwards the raw messages to the cloud; the SDK writes its
JSONL, of which `Normalize` is the cold read. A text's line goes by another id
(`Uuid`) than the text that was streamed; calls and prompts keep theirs. Each
line holds one block. `ToolDetail` is what
`tool-detail.ts` keeps of a call, live and cold. The phone has synced rows with
an order, and an overlay of optimistic prompts (`Send`, `OnAck`, `Drop`).

Conversation is the abstract specification: a list of items that only grows, in
which each key appears once, a call settles once and a text only gets longer.
`IsConversation` says that Timeline implements it, under the refinement mapping
`items <- settled`.

### SessionList

Per session the metadata file, the manager's cache, the runtime and the rows of
every device. The bridge writes its part of the file directly and tells the
manager through the wrapped seams (`NotifyBridgeChanged`); everything else goes
through `Persist`, which merges the cache with the bridge's part of the file.
`SendPrompt`, `Checked`, `PromptAttached`, `Spawn` are the handler between its
awaits (several at once), `Pick`/`PickApplied` the model, `Upgrade*` the
bridgeSession command. The startup pass works off the list it read once:
`Reattach` is its turn at a session, which clears the file, leaves it, or begins
an attach unless one is there; `Reattached` is that attach once its transport
is, over whatever was attached meanwhile.
`excused` names sessions whose record was overrun (section 7).

### BridgeService

The service's map, the AttachedSession objects, the transports and the worker
state. A reconnect keeps its AttachedSession across awaits while the map may
already hold another, so entries have an identity: the number of the attach that
made them. `Attach` … `MarkBackfilled` are `attach` / `upgrade` cut at their
awaits; `RefreshDue`, `RetryDue` and `CloseFires` start or join a reconnect;
`Probed`, `Swapped`, `Reattached` are `reconnectInternal` between its awaits;
`Boot*` is the startup re-attach; `Restart` a kill and a new process. External,
modelled from their use: a dead transport reports itself twice, a closed one not
at all, a flush on a dead one fails, and the cloud redelivers from the sequence
number a transport starts with. A handle gives messages from the moment it is
opened, while the attach still polls for its connection; it may be closed for
good before it connects (`Refuse`), and its attach then leaves it as it is, with
what it has still to report (`Dropped`). `raced` records that two lifecycle
operations of a session overlapped, or that a late clean close of such a handle
let the session go; the code has no guard against either. `spilt` are the
messages given by a reconnect's handle whose connect then failed.

### OAuthRefresh

The keychain and the server's set of live refresh tokens; `refresh` is the
promise callers share; `Granted`, `Rejected`, `Failed` are `doRefresh` after its
await. Time is abstract: a token is fresh, due (the proactive lead) or stale. A
timer whose handle was overwritten (`armRetry` over a proactive timer) stays as
a `stray`. Attaches start and stop the refreshing;
`RivalRefreshes`/`RivalWrites` are another client of the account between its
request and its write; `OpenMenu`, `NoToken`, `UsageAnswers`, `Expires` are the
plan usage with its cache and its single fetch, and `Shown` what the menu keeps.

### GitWatch

The repository as two version counters, one that fs.watch sees and one that it
does not; the watcher with its handles, debounce, interval, cache and joined
fetches (`Join`, `FetchBegins`, `FetchSettles`); the router's three commands,
both directions of each wire, and the hook: `Mount`, `Unmount`, `OnAck` with the
ownership test, the query's retry and its staleTime.

### Connection

An attempt and the connection it makes live in a slot, which stands for its
epoch. `StartConnect`, `Load`, `Dial`, `Attach` are `connect()` cut at its
awaits, `StartPair`, `Greeted`, `Store`, `Swap` are `pair()`,
`Unpair`/`Forgotten` is `unpair()`; the daemon's side admits, waits for the
hello, refuses and notices the end. `Reset` is the button of the update screen,
also during a retry. `StoreFails` is the secure store rejecting the record of a
pairing, or its reading back: the slot is then `leaked`, its connection open and
nobody's. `Read` waits for a transport, `Write` does not; a request on a closed
iroh wire stays pending. `misled` records that pairing with a second Mac failed
or lost its connection unheard.

### Terminal

The shell, its headless mirror and the one socket attached to it; per socket
both ends and the frames in flight; per pane its socket, retry timer,
unacknowledged chunks and screen. Output is counted in chunks.

### Desktop

Processes of the app and of `thinkite up` on one home, with the lock file, on a
machine that gives the number of a process that ended to any other program
(`others`; of the free numbers only the lock's is told from the rest); the lock
counts while its number is anybody's (`ActiveLock`), and
what tells a lock's writer from another process is `startedAt`. A page (also one
that outlives the app) with its connection, pending requests, the session list
and one transcript, opened and closed, with the drafts of the prompts it sends.
`up` and `down` are the frames in flight, `running` the handlers at an await. A
prompt is pushed to the session (`log`) and written to the JSONL some time later
(`disk`); a subscribe reads the JSONL during its await (`ReadHistory`) and
answers what it read, or the runtime's snapshot (`Settled`), at the newest
cursor. `overlapped` records that two daemons ran at once, `missed` the prompts
that a snapshot lacked.

## 3. Runs and what they show

| Run | Module, cfg | Checks |
|---|---|---|
| transcript | MCTranscriptStream, `Transcript.cfg` | `RuntimeOK` (the ring is the end of the log; a snapshot is served without a replay and is what was on disk with the log folded over it, once and in order, but for the events its read came too early for); `ViewMatchesCursor` (a device shows its base snapshot plus every later event to its cursor, once, in order); `WireContiguous` (exactly the missing events are in flight); `RecoveryIsComplete` (a view is kept only within one process, and only if the ring has all that followed); `CatchesUp` |
| query_loop | MCQueryLoop, `QueryLoop.cfg` | `WatchedStaysWarm` and `IdleIsReclaimed` (the teardown is pending exactly when it should be); `LiveQueryOwned`; `NoPromptIntoClosedChannel`; `SwallowsBounded` (n interrupts hide at most n errors); `TeardownIsQuiet`; `ActivitySettles` |
| timeline | MCTimeline, `Timeline.cfg` | `LiveIsCold` (between turns the JSONL reads back as the live snapshot, item by item, every text under its other id); `PhoneShowsAll` (every item once, in order, beside the phone's own prompts); `CloudShowsAll` (the cloud has what the phone has, summaries of compactions apart); `IsConversation` (the refinement) |
| session_list | MCSessionList, `SessionList.cfg` | `ListConverges` (a device's list is the daemon's); `DurableList` (a restart would show the same, and the running mirror is on file); `CheckpointKept` (no read-merge-write takes a checkpoint back) |
| bridge_safety | MCBridgeService, `BridgeSafety.cfg` | `MirrorIsTracked` (one open transport per mirrored session, owned, persisted, no orphaned timer); `InboundOnce` (no cloud message skipped over deaths, retries and restarts, and none repeated but those in `spilt`); `BackfilledIsTrue` |
| bridge_recovery | MCBridgeService, `BridgeRecovery.cfg` | `DeadIsBeingRecovered` (no close is lost to coalescing) and `Recovers`, overlapping operations included |
| oauth | MCOAuthRefresh, `OAuth.cfg` | `RotationKept` (callers, timers and rivals never throw a rotated token away); `KeepsFresh` (an idle bridge gets a fresh token through failures) |
| git_watch | MCGitWatch, `GitWatch.cfg` | `WatchesForSomeone` (no leaked watcher, no listener taken from a mounted bar); `NeverGoesBack`; `CatchesUp` (whatever fs.watch missed) |
| connection | MCConnection, `Connection.cfg` | `OneTransport` (an overtaken attempt closes what it opened, unless it is `leaked`); `NeverStranded`; `ComesBack` (when trouble ends, the app serves, is unpaired, or shows an error) |
| terminal | MCTerminal, `Terminal.cfg` | `ClientHearsAll`; `BacklogIsOwed` (flow control does not drift over take-overs); `ComesBack` |
| desktop | MCDesktop, `Desktop.cfg` | `LockIsTrue` (while the writer of the lock lives it runs a daemon that answers; a daemon that overlapped with none is the one the lock names); `BubbleStays` (a sent prompt does not blink, unless the JSONL was read without it); `RequestsSettle`; `PageFollows` |
| dead_subscribers | MCTranscriptStream, `DeadSubscribers.cfg` | violated: section 7 |

`CHECK_DEADLOCK FALSE` everywhere: the environment's actions are bounded, and a
daemon with nothing left to do is idle, not stuck. That something which must
happen does happen is what the liveness properties are for.

Every property of a passing run is broken by a plausible bug: the operators
named `X_Something` beside a definition `X` are such bugs (a dropped guard, a
missing reset, a swapped order), and `PROJECT.json` "mutants" says which
property finds which. Each module with actions has its type invariant, `TypeOK`;
no run lists it, but it is proved wherever section 6 has a proof module, as the
first thing every other proof needs.

## 4. Bounds

| Run | Constants | Why they are enough |
|---|---|---|
| transcript | a phone and a desktop; ring of 1; 3 events in the first process and 2 in a later one; 5 connections, Subscriptions and processes together (`MaxChurn`), at most 3 of them a phone's | the two clients differ in how they unsubscribe and settle a late answer; with the smallest ring the second event evicts, so a complete and an incomplete resume are one event away; the phone reconnects before or after a restart |
| query_loop | two prompts, one watcher, two queries, two interrupts, one self-started turn, two messages in flight | the overlap of a loop and its successor, two interrupts against two turns, a frame and a result not yet taken |
| timeline | one message of two blocks and one delta, one tool that may fail, one prompt of the phone and one of others; two upsets; one frame of lag | a text and a call in one message, a prompt behind another or in a running turn, interrupt and compaction and drop in pairs |
| session_list | one session, one device, two sendPrompt handlers, one model, two cloud sessions, three edges, one restart, one frame in flight when the daemon acts | sessions share nothing but the maps; two handlers create twice; frames go one way and in order, so what a device ends with does not depend on the lag. The handlers are symmetric, and only invariants and an action property are checked |
| bridge_safety / bridge_recovery | one session; 2 / 1 attaches, 3 transports, 1 / 2 deaths, 1 / 0 inbound messages, 2 / 1 processes, ladder of 1 / 2 (3 in production) | an entry and its successor, each with a replaced transport; one message to lose or repeat |
| oauth | two sessions and the menu, three refresh tokens, one fault, three questions | a rotation by each side; one session's attach fails under another's |
| git_watch | one device with three mounts and one lost connection, one edit | two listeners of one connection in turn, a change at every point of a fetch |
| connection | two slots, two Macs, one request, one cut or restart, one pair offer | a connection and the attempt that replaces it; a pairing over a retry |
| terminal | two panes, three sockets, two shells, three chunks, an acknowledgement per two | a take-over and a take-back; a shell that ends with a client |
| desktop | one app and one `thinkite up`, two launches between them, two process numbers, two connections, one transcript, one prompt | twins on one home, or an app and its successor, or another program that is given the number of one that crashed; a transcript across a reconnection, a prompt before, during and after a read of the JSONL |

The constraint `Calm` of bridge_safety cuts behaviours off where `raced` becomes
true. `raced` is never reset and every property there excuses the session, so
nothing is hidden by it. Bounds that name what the daemon waits for (`MaxQueue`,
`MaxLag`) let the daemon act only while few frames wait.

## 5. Fairness

Only the program's own steps and the network's are fair; nobody is obliged to
connect, prompt, watch, bridge, pair or interrupt.

- *TranscriptStream*: a frame on a connection that lasts is delivered (an ordered
  reliable stream), and an awaited read of the JSONL resolves.
- *QueryLoop*: the event loop takes a yielded message and runs the `finally` of
  an ended iterator; the SDK starts a queued prompt and, strongly fair because
  frames interleave with it, ends every turn; a closed subprocess exits.
- *BridgeService*: timers fire, awaited requests settle one way or the other, and
  a dead transport reports itself (its heartbeat fails).
- *OAuthRefresh*: requests are answered one way or the other, timers go off.
- *GitWatch*: handlers run, the debounce and the self-heal interval elapse, git
  ends, connections deliver while they last.
- *Connection*: every await of an attempt has a deadline or reads a local store,
  the armed timer fires, the ping interval ticks, the daemon runs its handlers.
  How dials and handshakes end is not assumed: `ComesBack` is conditioned on
  their failures ceasing.
- *Terminal*: sockets open and deliver, close frames are read, the retry timer
  fires, the headless terminal parses.
- *Desktop*: handlers and timers run, a closed connection is noticed, the grace
  period of a quitting process ends (`ForceExit`: a timer that races the drain).
  A drain need not end.

## 6. Proofs

All theorems hold for every value of the constants under the modules' named
assumptions, which TLC evaluates on every run: the bounds are numbers
(`BoundsAssumption`, `OAuthAssumption`, `DesktopAssumption`,
`SessionListAssumption`, `LadderAssumption`, `ConnectionAssumption`,
`GitWatchAssumption`, `TerminalAssumption`), a ring holds at least one event
(`BufferCapAssumption`), and what stands for "nothing" is none of the values it
is told from (`NoSettledAssumption`, `NullsAssumption`, `SessionsAssumption`,
`KeysAssumption`, `NoStatusAssumption`). `TimelineAssumption` adds that the
tools, their results and the two sets of prompts are what the code takes them
for. Every strengthening below was checked by TLC as an invariant before it was
proved. Its definition opens the proof module.

What a history variable excuses in a property (section 7) its theorem excuses
too; the variable says when, and nothing else is taken away.

**TranscriptStream_proofs**, first the runtime. `GoodRuntime` — type,
`HoldsNewest` (the ring is the newest events, under their own cursors) and a
snapshot under the newest cursor — holds of a new runtime, of `AddEvent`
(`EvictHoldsNewest` is the arithmetic) and of both ways to set a snapshot.
`AddEventHolds` and `InstallHolds` do the same for what the snapshot has under
that cursor (`SettledHolds`): a step of the log is one more fold, and a read
installed with k of m events lacks the m - k. `ReplayComplete`: if `BufferOk(r,
since)`, then `Replay(r, since)` is exactly the events past `since`, each once
and in order. `FoldDeltasAppend` says that a fold over one more delta is one
more fold step. It is an induction, done in first order: the fold of every
prefix exists and is unique because a least prefix without one is impossible
(`LeastNumber`, from the well-foundedness of `<`).

Then the stream. `RuntimeCorrect` (`Spec => []RuntimeOK`) from
`SessionInv`, `GoodRuntime` and `SettledHolds` of the running process carried
through every action, which needs that the file only ever held prefixes of the
log folded over what the process found (`DisksAreLog`);
`TypeCorrect` from the same invariant and the frames' types. The other three,
`ViewIsTheLog`, `WireHasNoGap` and `RecoveryIsWhole`, are about one device and
its connection, which a record (`Link(c)`) collects, so that an action is proved
once for the device it is about and leaves the others' links as they are. The
invariant is `Wired`: every link is `Sane` (serials, one callback per
connection, frames true to the log, a resume hint that is the view's cursor, a
view that is its base and the log behind it), and while the client has a
subscription it is `Attended`: it has at most one answer to come, the answer
comes before any event, and what follows the answer — or, once it has come, the
cursor — is the log without a gap (`AnswerContinues`, `StreamContinues`). A step
that emits an event extends all queues at once (`GrownWired`); answers are added
by `Answered`, and each kind of frame taken by the client is a lemma.

**QueryLoop_proofs.** Every safety property of the module. `QueryTypeCorrect`
comes first, with the fact that a slot that is set belongs to a loop that runs.
`WarmWhileWatched` and `IdleGetsReclaimed` follow action by action from the two
places that arm or disarm the timer. The others need strengthenings:

- `OwnedIsOpen` — the query in the slot has not been closed, before shutdown —
  makes `NoPromptIntoClosedChannel` inductive;
- `InterruptBudget` — errors hidden plus the pending flag do not exceed the
  interrupts made — makes `SwallowsBounded` inductive: a flag set twice is
  consumed once;
- `TurnIsKnown` — a turn of the query in the slot is known (activity running),
  or its first frame is still to be taken — gives the action property
  `TeardownIsQuiet`;
- `LiveQueriesOwned` uses a classification of the actions by what they do to
  one query (kept, torn down, born, ended, drained), so that each property looks
  at five cases and not at twenty.

**Timeline_proofs.** The refinement of Conversation, what the phone and the
cloud show, and what is read back from disk.

- *`Told`* (`KeysOnce`) is what makes a step of the daemon a step of a
  conversation: no key is used twice. A text is a block that has not streamed
  yet (`TextsPassed`), a call is appended once (`CallsKnown`), a prompt is pushed
  once (`PromptsDone`), a summary is lifted once (`SummaryIsNew`), and the block
  that streams is the last text (`StreamsNewest`, `OpenIsLast`). `CloudHas` goes
  with it: an item is in the cloud, is cut by an interrupt, or is still open.
- *`Conversational`* maps each action's deltas to an append, a growth or a
  settlement of the abstract list, or to a stutter. Abstractly `settled` is the
  list of items; the mapping is the identity on it.
- *`CloudComplete`* is read off `CloudHas`.
- *`PhoneComplete`* (`PhoneShowsAll`) rests on `Shown`: there is a history of the
  snapshot, one entry per event (`Replays`), the frames on the wire lead the
  phone's cursor through it to the newest (`Leads`, a path), and the rows it has
  are the entry at its cursor (`Displays`), in that order unless a prompt was
  crossed (`InOrder`). A frame then is either the next event, a snapshot of some
  entry, or an acknowledgement; each is a lemma. `Waiting` is about the phone's
  own prompts: the only one not confirmed stands after all that are.
- *`ReadBack`* (`LiveIsCold`) relates two folds: the snapshot over the deltas,
  and `Normalize` over the lines on disk. `ReadAlways` and `NormalizeAppend` say
  that reading one line more is one more step of `Normalized`, whatever the
  lines are: lines that cannot be read would have a shortest such list. `Stored`
  is what then holds at every moment, turns included: what is read is shown,
  complete, not queued and read once (`ReadIsShown`), a text under its line's id
  (`AsWritten`), with the text and the result it is shown with unless it was cut
  or runs (`ReadAsShown`), in the order it is shown in (`ReadInOrder`); and what
  is shown is read unless it is cut, compacted, queued, open or empty
  (`ShownIsRead`). It needs to know where the queue and the open block stand in
  the snapshot, as they are what is written next (`QueueIsNew`, `OpenIsItem`),
  and that nothing that is gone runs (`GoneWasShown`). Between turns these
  excuses are those of `LiveIsCold`.

**SessionList_proofs.** Every safety property of the module. `TypeOK` is
inductive with `Grounded` (a handler past the creation has a runtime, and so has
a startup attach under way; one that attaches has a file). `CheckpointIsKept` is an action
property: every writer of a file is the bridge's own, or merges what it finds.
`ListIsDurable` follows from `Kept`: cache, runtime and file of a session name
the same record up to the bridge's part, which only the named overruns
(`excused`) may separate. `ListIsInformed` turns "a device with nothing on the
wire is up to date" into "the last frame about a session that a device still has
to read, or its row if there is none, is the manager's state" (`Informed`).

**Services_proofs** has the components that serve the sessions from beside. It
extends OAuthRefresh, GitWatch and Terminal, for which the parts of the last two
specifications are called `Watch...` and `Pty...`.

- *OAuthRefresh*: `RotationIsKept`, inductive with `OneHolder`: a token that was
  granted and is not yet written is held by one client only, and neither the
  keychain nor another refresh has it.
- *GitWatch*: `WatchedForSomeone` from `Heard`: a bar that is mounted on a live
  connection owns the callback slot from the moment its subscribe is sent, and
  the last thing on the wire that is not a question is that subscribe, or there
  is no such thing and the listener is there (`Subscribed`). So a late
  acknowledgement of an earlier mount finds a slot that is not its own.
  `NeverOlder`, an action property, from `Dated`: every status that is cached, on
  its way or shown is `Behind` the repository, the cache and the one fetch that
  is reading, and a wire carries statuses in order of age (`InTurn`). That the
  fetches are one at a time (`OneFetch`) is what makes it inductive.
- *Terminal*: `ClientHears` and `BacklogOwed`, both from `Plumbed`. A pane's
  present socket is the only one of its that can still bring anything (`Tied`:
  its end is closed before the pane lets go of it), an open socket of the live
  shell is its client, and ids of shells are not used again (`Clients`). So a
  chunk or a late close disturbs one screen at most, and what that screen will
  show is unfolded frame by frame (`Hears`: a function gives what it shows after
  each of the frames on their way): a greeting starts it anew, a chunk lengthens
  it, a frame that is read moves from the wire to the screen. The backlog needs
  sums over both directions of the wire (`SumAppend`, `SumTail`, `LiveAppend`,
  `LiveTail`). That two computations that begin alike and go on alike agree
  (`GoOnAlike`) is, like `LeastNumber` above, an induction in first order.

**Desktop_proofs.** `LockIsTrusted` is inductive once no two processes are the
same launch and two daemons at once are an overlap (`Numbered`); nothing is
assumed of the process numbers, which are given away at will. `BubblesStay`
rests on the order of one connection's frames (`Ordered`): a subscription is
answered by one snapshot, what the session recorded and no snapshot lacked
(`Recalled`) is in the snapshot or behind it, and the row of a prompt comes
before its acknowledgement (`InOrder`, `Told`).

**Connection_proofs.** Both invariants, `SpeaksOnOne` and `AlwaysAttended`, from
`Supervised`: a connect of the current epoch finds the facade empty
(`Detached`), what the facade holds came through its handshake (`InUse`), a
pairing in flight is of the current epoch (`OnePairing`), a retry of it is armed
only when its attempt is over (`RetryWaits`), and who does not want to reconnect
shows an error, is unpairing or unpaired (`Resigned`). A press of `Reset` during
a retry makes another attempt current; what the overtaken one opens it closes at
its next look at the epoch. A leaked connection is one of the `Adrift`: nothing
at the phone touches it again. `Covered` is `NeverStranded`, also of a record
that was stored and not read yet. Five lemmas say what the classes of steps keep
(nothing of an attempt moves, it gets further, it ends, it is attached, another
begins); each action is then put into its class, and the closing of a transport
is argued by itself.

**BridgeService_proofs.** Every safety property of the module, in three layers.

- *Whatever overlaps*: `Held` (an awaiting attach, reconnect or entry has a
  transport of its own session in the right state), `Apart` (no two of them the
  same one) and `Owned` (a transport that connects, and may give messages, is an
  attach's or a reconnect's); `Watched`, the session-wise form of
  `DeadIsBeingRecovered`, is then inductive without any condition. `Homes`: a
  cloud session is named once and used for one session only.
- *A session whose operations never overlapped*: `Alone` (at most one operation,
  and never beside an entry of another attach), `Mirrored` (what
  `MirrorIsTracked` says, also during the operations) and `Flushed`. Each action
  is shown to leave every other session's part of the state alone (`Untouched`)
  and its own in order (`Settles`); `Silent` and `Stamps` are what that needs of
  transports and files. `MirrorTracked` and `BackfilledTrue` follow.
- *While no session's have*: `InStep`. Every place in a stream that somebody
  holds on to — an attach about to connect, a transport that replaces a dead
  one, the entry's, the file's — is no further than the newest message ever
  given, so the next one skips nothing. And it `Fits`: whatever this process was
  given past it was spilt by a connect that failed, or, for an entry whose
  reconnect is connecting, was given by the transport that is to replace the
  entry's (`EntryFits`, `More`). So the next message repeats none but a spilt
  one (`GivenOnce`), and a restart, which resumes from the file, keeps all this.

Model-checked only: the liveness properties, as fairness and ENABLED are out of
the prover's reach.

## 7. What the code does not keep

One run keeps a counterexample, as no property of a passing run has it.
*dead_subscribers*: `router.ts:512` says
"ws.onclose → unsubscribe automatically"; but a connection that dies during the
cold path's await has run its disconnect callbacks when the handler registers
one more, which nothing removes: the runtime counts a subscriber forever and is
never torn down.

The rest was seen in the models while they were built. Where a passing property
would be affected, it is conditioned on a history variable that names the case,
so that it still says: this holds *unless* that happened. Take the condition out
of the property and TLC shows the case.

*Transcript.* Two cold subscribes of one connection register twice (`doubled`).
A cold subscribe reads the JSONL (`router.ts:462`), takes the newest cursor
after the await (465) and, if a loop runs by then, installs what it read as the
snapshot (480-482), over one that may be there: events emitted meanwhile, and
those Claude Code has not written yet, are missing from it for as long as it
lives, though it carries the newest cursor. `session-runtime.ts:221-223` says
"settled reflects every event so far" and "settled IS the full snapshot", and
`fold.ts:7-10` that the snapshot is what is shown live. `RuntimeOK` says which
events a snapshot can lack (`held`, `start`), and `ViewMatchesCursor` leaves
views based on one out (`sound`). A first subscribe that was never answered
reconnects with `isNew` and no hint, and a new daemon process answers it with an
empty transcript, against `router.ts:325`.

*Query loop.* A prompt past the shutdown gate spawns after the drain list was
taken, against `index.ts:511`. An interrupt that finds no turn leaves its flag
for a later error. A loop that throws in a turn leaves the session `running`. A
disposed loop's late message sets its successor's activity (`strayed`).

*Timeline.* A prompt pushed behind another, or into a running turn, stands
elsewhere on disk than it did live (`queued`). A call without a result reads
back as completed. A compaction takes items from the disk and from no live
client; the pruning the protocol documents with `compact_applied`
(`protocol/src/index.ts: 803-810`) is not done by the phone
(`transcript-collection-factory.ts:204-207`). The compaction summary comes as a
user envelope and is forwarded to the cloud (`run-query.ts:706-711`), which the
comment at 669-672 excludes ("isCompactSummary / compact_boundary are
local-only, not cloud transcript"); `CloudShowsAll` leaves summaries out on both
sides. Two rows can have one order while a prompt is unconfirmed, and rows may
change places when it is rolled back (`crossed`).

*Session list.* Two prompts that create one session both run
`createSessionFromPrompt`; the second record replaces the first, bridge included
("recreated"). The startup pass clears or attaches by a list it read once, past
the manager, whose cached flag stays until the session's next write ("stale").
`attach` tests whether the session is attached before its await
(`bridge-service.ts:420`) and installs its transport unconditionally after it
(477-478): the startup pass lands over an upgrade that landed meanwhile, and as
it writes nothing the file names the other cloud session ("lost"), although
396-398 calls a second attach "a no-op, not a double-open / epoch-steal". A
prompt pushed into a running turn stamps the runtime and tells nobody until the
turn ends. An inbound prompt spawns without the session's picked model.

*Bridge.* An unbridge during a reconnect leaves a transport in `runtime.bridge`
that no entry tracks, against `bridge-service.ts:1026`; lifecycle operations
overlap unguarded (`raced`). A reconnect's handle gives messages while it
connects; if the connect fails, the next reconnect resumes from the old
transport's number (`bridge-service.ts:799`) and they are given again (`spilt`),
against "without re-processing already-handled ones" (`bridge-transport.ts:
155-157`). A close before the connect has no transport to compare, so it passes
the guard against stale closes; the comment there says that "no session is in
the map" (`bridge-service.ts:873-875`), but a reconnect's is, and a late close
of the refused handle starts another recovery or, with code 1000, forgets the
session (`raced`). A failing attach stops the token refresh under another
session's attach (`bridge-service.ts:467`), so a bridge may idle without it. A
failure to get credentials for an inbound prompt is not mirrored to claude.ai,
though `index.ts:256` says so.

*OAuth.* `armRetry` overwrites the handle of a timer set meanwhile; both fire. A
refresh has no timeout. Whether a write of the credentials succeeded is not
looked at; a write that fails after a rotation loses the token (`lost`).

*Git.* A fetch that read HEAD before a change is joined by the refresh that the
change asked for (`git-watch.ts:159`), and what it caches is stale until the
next event or the 60-second interval: `CatchesUp` holds thanks to the interval
alone. A bar that comes back within staleTime shows its old entry first, though
`use-git-status.ts:16-19` describes a fresh read. A retry of a query on a
transport that has just died hangs.

*Connection.* While paired, a failed `pair()` with another Mac, or one whose
connection is lost while the record is stored, leaves the app without a timer
(`misled`; the comment at `daemon-client-context.tsx:164-166` promises one). A
request granted on a wire that has closed is neither sent nor rejected. The
daemon's refusal may lose its race with the close behind it: the phone then
retries instead of showing the update screen. When the secure store rejects a
pairing's record, or its reading back, `pair()` rethrows and nobody closes the
transport it opened (`daemon-client-context.tsx:448-453`): it goes on pinging
beside the current one (`leaked`).

*Terminal.* A new client's snapshot lacks output the headless terminal has not
parsed yet (`ClientHearsAll` allows that gap and no other). Two mounted panes of
one session take it from each other for ever.

*Desktop.* Two processes may both find the home free and run twin daemons, and
each deletes the lock when it ends, also the other's (`overlapped`). A lock left
by a crash counts as active once its number is given to any other program
(`daemon-lock.ts:61-71`, EPERM included): the app then comes up without a
daemon, where the exit hook's comment says a leftover would "just be recognized
as stale" (`index.ts:469-472`). `LockIsTrue` is therefore about the writer of
the lock and not about its number. A prompt pushed and acknowledged while a cold
subscribe reads the JSONL, or not yet written by Claude Code, is in neither the
snapshot nor the stream behind it: its draft goes and no row is there
(`missed`), against "the synced row exists by the time the optimistic
transaction settles" (`desktop/src/lib/transcript-collections.ts:180-181`). An
app relaunched while the first drains comes up without a daemon. A prompt in
flight when its connection drops is reported as failed and carried out. A prompt
refused for want of a login is answered as a success, and its drawn copy
vanishes (`router.ts:765`). A refused transcript subscribe is only logged.

## 8. What is not modelled

- *Wire framing* (`protocol/src/wire-frame.ts`): a length prefix over exact
  reads, without state between frames.
- *Schemas, models, slash commands, identity, offers, home*: conversions and
  tables. *Language detection, formatting of tool payloads*: wording.
- *Directory picker and one-shot diff* (`router.ts` 617-645, 992-1094): requests
  without state.
- *Unpairing*: the deletion of the stored record is taken to succeed.
- *Drains*: that quitting ends is the grace timer's doing, which nothing
  disables; no property restates it, and `RequestsSettle` relies on it.
- *Bridge*: state and metadata reports, best effort and unread by the daemon. A
  metadata file that cannot be written (`bridge-service.ts:491` leaves the attach
  half wired): files are written or the process dies.
- *Updater, windows, trays, rendering, on-screen components*: no state another
  process relies on.
- *Terminal*: sizes, themes, the answers to terminal queries.
- *Composition across views*: a bridge whose credentials rotate appears in
  BridgeService as a transport that dies; a session's turns appear in SessionList
  as edges. The token refresh and the bridge meet in OAuthRefresh, the metadata
  and the bridge in SessionList; no module has all of them at once.

What the properties leave open although the modules have it: `ActivitySettles`
excuses a loop that has ended, `KeepsFresh` starts from a timer that is set,
`PageFollows` takes a refusal for an end, and `ComesBack` of the connection
would not notice a deadline that outlives its wire.

## 9. Plan

Proved so far: every safety property of TranscriptStream, QueryLoop,
SessionList, BridgeService, OAuthRefresh, GitWatch, Terminal, Desktop and
Connection, and of Timeline with its refinement of Conversation. What is left is
the liveness properties, which stay with TLC.
