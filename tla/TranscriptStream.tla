-------------------------- MODULE TranscriptStream --------------------------
(***************************************************************************)
(* The live transcript of one session, end to end: the runtime's event log *)
(* (SessionRuntime), the daemon's subscribe / unsubscribe handlers         *)
(* (daemon/src/router.ts), each device's ordered connection, and the       *)
(* device's Subscription with the collection it feeds                      *)
(* (app/src/lib/daemon-client.ts, transcript-collection-factory.ts and     *)
(* their desktop counterpart desktop/src/lib/daemon-rpc.ts).               *)
(*                                                                         *)
(* A handler runs without interruption up to its next await, so one action *)
(* is one such segment.  The only await of the subscribe handler is the    *)
(* cold path's read of the session's JSONL; it is split in two steps.      *)
(***************************************************************************)
EXTENDS SessionRuntime, FiniteSets, FiniteSetsExt

CONSTANTS
    Phones,      \* devices running the iOS client
    Desktops,    \* devices running the desktop client
    MaxEvents,   \* bound: events of each daemon process
    MaxMoves,    \* bound: connections and Subscriptions of each device
    MaxChurn     \* bound: daemon processes, and the moves of all devices

Devices == Phones \cup Desktops

VARIABLES
    \* --- the daemon
    epoch,     \* which daemon process is running (deps.epoch)
    rt,        \* the session's SessionRuntime
    items,     \* timeline items ever appended to the session
    loop,      \* runtime.query !== null
    disks,     \* timelines the JSONL has held under this process, newest last
    reads,     \* subscribe handlers awaiting getMessages
    regs,      \* runtime.subscribers
    subsMap,   \* the connection's SubsMap entry for the session, 0 = absent
    doubled,   \* history: a second callback was registered on the connection
    \* --- the devices
    conn,      \* live connection, 0 = offline
    conns,     \* connections made so far
    down,      \* frames in flight from the daemon, in order
    sub,       \* the facade's Subscription object
    owner,     \* which Subscription eventCallbacks routes to, 0 = none
    coll       \* the transcript collection and what it was built from

daemonVars == <<epoch, rt, items, loop, disks>>
routerVars == <<reads, regs, subsMap, doubled>>
clientVars == <<conn, conns, down, sub, owner, coll>>
vars == <<daemonVars, routerVars, clientVars>>

NoCursor == -1

Disk == disks[Len(disks)]

(* How much has happened around the daemon, which the bounds limit.        *)
Moves(c)   == conns[c] + sub[c].serial
Churn      == epoch + MapThenSumSet(Moves, Devices)
CanMove(c) == Moves(c) < MaxMoves[c] /\ Churn < MaxChurn

-----------------------------------------------------------------------------
(* Frames.  `floor` is a history field of a response: the cursor its       *)
(* snapshot was taken at, which the daemon keeps to itself.                *)
EventFrame(e) == [type |-> "event", cursor |-> e.cursor, delta |-> e.delta]

Response(serial, settled, cursor, floor, recovered) ==
    [type |-> "response", serial |-> serial, settled |-> settled,
     cursor |-> cursor, floor |-> floor, epoch |-> epoch,
     recovered |-> recovered]

ErrorFrame(serial) == [type |-> "error", serial |-> serial]

EventFrames(events) == [i \in DOMAIN events |-> EventFrame(events[i])]

Registration == [device : Devices, conn : Nat \ {0}, serial : Nat \ {0}]

RegsOn(rs, c, k) == {r \in rs : r.device = c /\ r.conn = k}

(* Frames sent to a connection that is gone are dropped.                   *)
Queue(c, k, frames) ==
    IF conn[c] = k THEN [down EXCEPT ![c] = @ \o frames] ELSE down

(* The fanout of addEvent: one frame per subscriber callback.              *)
Broadcast(queues, event) ==
    [c \in Devices |->
       LET n == Cardinality(RegsOn(regs, c, conn[c]))
       IN queues[c] \o [i \in 1 .. n |-> EventFrame(event)]]

(* runtime.addEvent(d) on the runtime r.                                   *)
NextEvent(r, d) == [cursor |-> r.nextCursor, delta |-> d]

Emit(r, d) ==
    /\ rt' = AddEvent(r, d)
    /\ down' = Broadcast(down, NextEvent(r, d))

NoCollection == [view |-> <<>>, base |-> <<>>, floor |-> 0, sound |-> FALSE]
NoSubscription == [state |-> "none", serial |-> 0, cursor |-> NoCursor,
                   epoch |-> 0, isNew |-> FALSE]
NewSubscription(serial, isNew) ==
    [state |-> "subscribing", serial |-> serial, cursor |-> NoCursor,
     epoch |-> 0, isNew |-> isNew]

(* A registered Subscription whose transport is gone: _detachTransport.    *)
Detached(s) == IF s.state = "none" THEN s ELSE [s EXCEPT !.state = "subscribing"]

Init ==
    /\ epoch = 1
    /\ rt = NewRuntime
    /\ items = 0
    /\ loop = FALSE
    /\ disks = <<(<<>>)>>
    /\ reads = {}
    /\ regs = {}
    /\ subsMap = [c \in Devices |-> 0]
    /\ doubled = [c \in Devices |-> FALSE]
    /\ conn = [c \in Devices |-> 0]
    /\ conns = [c \in Devices |-> 0]
    /\ down = [c \in Devices |-> <<>>]
    /\ sub = [c \in Devices |-> NoSubscription]
    /\ owner = [c \in Devices |-> 0]
    /\ coll = [c \in Devices |-> NoCollection]

-----------------------------------------------------------------------------
(* The session's own steps: prompts, the SDK loop, the JSONL, restarts.    *)

(* sendPrompt with a token at hand: ensureSessionLoop, which seeds the      *)
(* snapshot only if it spawns, and pushPrompt, synchronously.  The mode    *)
(* was decided by hasSession some awaits ago: `create` says the JSONL did  *)
(* not exist at some moment of this process, not that it does not now.     *)
SendPrompt(mode) ==
    /\ mode = "create" => disks[1] = <<>>
    /\ mode = "resume" => Disk # <<>>
    /\ CurrentCursor(rt) + 2 <= MaxEvents[epoch]
    /\ LET spawned  == IF ~loop /\ mode = "create" THEN SeedSettled(rt) ELSE rt
           prompt   == AppendItem(items + 1)
           prompted == AddEvent(spawned, prompt)
       IN /\ rt' = AddEvent(prompted, Marker)
          /\ down' = Broadcast(Broadcast(down, NextEvent(spawned, prompt)),
                               NextEvent(prompted, Marker))
    /\ items' = items + 1
    /\ loop' = TRUE
    /\ UNCHANGED <<epoch, disks, routerVars>>
    /\ UNCHANGED <<conn, conns, sub, owner, coll>>

(* sendPrompt without a token: a turn_failed marker and no loop.           *)
RefusePrompt ==
    /\ CurrentCursor(rt) < MaxEvents[epoch]
    /\ Emit(rt, Marker)
    /\ UNCHANGED <<epoch, items, loop, disks, routerVars>>
    /\ UNCHANGED <<conn, conns, sub, owner, coll>>

(* One SDK message handled by the loop: a new item, a patch of the newest  *)
(* item, or a turn boundary.                                               *)
SdkMessage ==
    /\ loop
    /\ CurrentCursor(rt) < MaxEvents[epoch]
    /\ \/ /\ Emit(rt, AppendItem(items + 1))
          /\ items' = items + 1
       \/ /\ Has(rt.log, items)
          /\ Emit(rt, PatchItem(items))
          /\ UNCHANGED items
       \/ /\ Emit(rt, Marker)
          /\ UNCHANGED items
    /\ UNCHANGED <<epoch, loop, disks, routerVars>>
    /\ UNCHANGED <<conn, conns, sub, owner, coll>>

(* The loop ends by itself or by a throw (a turn_failed marker); its       *)
(* finally drops the snapshot.                                             *)
LoopEnd ==
    /\ loop
    /\ \/ /\ rt' = ClearSettled(rt)
          /\ UNCHANGED down
       \/ /\ CurrentCursor(rt) < MaxEvents[epoch]
          /\ rt' = ClearSettled(AddEvent(rt, Marker))
          /\ down' = Broadcast(down, NextEvent(rt, Marker))
    /\ loop' = FALSE
    /\ UNCHANGED <<epoch, items, disks, routerVars>>
    /\ UNCHANGED <<conn, conns, sub, owner, coll>>

(* Idle teardown: only the subprocess goes, the snapshot stays.            *)
DisposeQuery ==
    /\ loop
    /\ regs = {}
    /\ loop' = FALSE
    /\ UNCHANGED <<epoch, rt, items, disks, routerVars, clientVars>>

(* The SDK subprocess appends the next event of this process to the JSONL. *)
Flush ==
    /\ Len(disks) <= Len(rt.log)
    /\ disks' = Append(disks, FoldDelta(Disk, rt.log[Len(disks)]))
    /\ UNCHANGED <<epoch, rt, items, loop, routerVars, clientVars>>

(* The daemon stops and another process starts: only the JSONL survives.   *)
Restart ==
    /\ Churn < MaxChurn
    /\ epoch' = epoch + 1
    /\ rt' = NewRuntime
    /\ loop' = FALSE
    /\ disks' = <<Disk>>
    /\ reads' = {}
    /\ regs' = {}
    /\ subsMap' = [c \in Devices |-> 0]
    /\ doubled' = [c \in Devices |-> FALSE]
    /\ conn' = [c \in Devices |-> 0]
    /\ down' = [c \in Devices |-> <<>>]
    /\ owner' = [c \in Devices |-> 0]
    /\ sub' = [c \in Devices |-> Detached(sub[c])]
    /\ UNCHANGED <<items, conns, coll>>

-----------------------------------------------------------------------------
(* The router's handlers.  Each is written for the connection k of device  *)
(* c, whose frames in flight are `queued`.                                 *)

(* Answer, replay the ring past `floor`, register the callback, record the *)
(* unsubscribe closure in the SubsMap: in that order, in one segment.      *)
Attach(c, k, serial, rs, queued, response, floor) ==
    /\ down' = [down EXCEPT ![c] =
                  queued \o <<response>> \o EventFrames(Replay(rt, floor))]
    /\ regs' = rs \cup {[device |-> c, conn |-> k, serial |-> serial]}
    /\ subsMap' = [subsMap EXCEPT ![c] = serial]
    /\ doubled' = [doubled EXCEPT ![c] = @ \/ RegsOn(rs, c, k) # {}]

HasHint(s) == s.cursor # NoCursor /\ s.epoch # 0

(* Mutant: the epoch is not compared.                                      *)
CanRecover_AnyEpoch(s) == HasHint(s) /\ BufferOk(rt, s.cursor)

CanRecover(s) == HasHint(s) /\ s.epoch = epoch /\ BufferOk(rt, s.cursor)

(* The subscribe handler up to its response, or up to its await.           *)
HandleSubscribe(c, k, s, queued) ==
    LET previous == [device |-> c, conn |-> k, serial |-> subsMap[c]]
        rs       == regs \ {previous}
        current  == CurrentCursor(rt)
        fast     == s.isNew /\ ~HasHint(s)
        warm     == CanRecover(s)
        answer(settled, floor, recovered) ==
            /\ Attach(c, k, s.serial, rs, queued,
                      Response(s.serial, settled, current, floor, recovered),
                      floor)
            /\ UNCHANGED reads
    IN  \/ /\ fast
           /\ IF rt.settled = NoSettled
              THEN answer(<<>>, 0, FALSE)
              ELSE answer(rt.settled, rt.settledCursor, FALSE)
        \/ /\ ~fast /\ warm
           /\ answer(<<>>, s.cursor, TRUE)
        \/ /\ ~fast /\ ~warm /\ rt.settled # NoSettled
           /\ answer(rt.settled, rt.settledCursor, FALSE)
        \/ /\ ~fast /\ ~warm /\ rt.settled = NoSettled
           /\ reads' = reads \cup {[device |-> c, conn |-> k, serial |-> s.serial,
                                   from |-> Len(disks)]}
           /\ regs' = rs
           /\ down' = [down EXCEPT ![c] = queued]
           /\ UNCHANGED <<subsMap, doubled>>

(* The subscribe handler resumes after getMessages, which read the file at *)
(* some moment since: the cursor is taken now, the snapshot is memoized if *)
(* a loop runs, the callback registered.  Nothing re-checks the connection *)
(* or the Subscription.                                                    *)
ResumeSubscribe(rd, n) ==
    /\ n \in rd.from .. Len(disks)
    /\ reads' = reads \ {rd}
    /\ regs' = regs \cup {[device |-> rd.device, conn |-> rd.conn,
                           serial |-> rd.serial]}
    /\ LET live == conn[rd.device] = rd.conn
           got    == disks[n]
           now    == CurrentCursor(rt)
           answer == Response(rd.serial, got, now, now, FALSE)
       IN /\ rt' = IF loop THEN Memoize(rt, got, n - 1) ELSE rt
          /\ down' = Queue(rd.device, rd.conn, <<answer>>)
          /\ subsMap' = IF live THEN [subsMap EXCEPT ![rd.device] = rd.serial]
                        ELSE subsMap
          /\ doubled' = [doubled EXCEPT ![rd.device] =
                           @ \/ (live /\ RegsOn(regs, rd.device, rd.conn) # {})]
    /\ UNCHANGED <<epoch, items, loop, disks>>
    /\ UNCHANGED <<conn, conns, sub, owner, coll>>

(* getMessages rejects: an error frame and no registration.                *)
FailSubscribe(rd) ==
    /\ reads' = reads \ {rd}
    /\ down' = Queue(rd.device, rd.conn, <<ErrorFrame(rd.serial)>>)
    /\ UNCHANGED <<regs, subsMap, doubled, daemonVars>>
    /\ UNCHANGED <<conn, conns, sub, owner, coll>>

(* The unsubscribe handler; nothing registered is a silent ack.            *)
HandleUnsubscribe(c) ==
    /\ regs' = regs \ {[device |-> c, conn |-> conn[c], serial |-> subsMap[c]]}
    /\ subsMap' = [subsMap EXCEPT ![c] = 0]
    /\ UNCHANGED <<reads, doubled>>

-----------------------------------------------------------------------------
(* The devices.                                                            *)

(* A transport comes up: the registered Subscription is re-issued on it    *)
(* with its resume hint.                                                   *)
Connect(c) ==
    /\ conn[c] = 0
    /\ CanMove(c)
    /\ LET k == conns[c] + 1 IN
       /\ conn' = [conn EXCEPT ![c] = k]
       /\ conns' = [conns EXCEPT ![c] = k]
       /\ IF sub[c].state = "none"
          THEN UNCHANGED <<down, owner, routerVars>>
          ELSE /\ HandleSubscribe(c, k, sub[c], <<>>)
               /\ owner' = [owner EXCEPT ![c] = sub[c].serial]
    /\ UNCHANGED <<daemonVars, sub, coll>>

(* The connection dies: frames in flight are lost, the daemon runs the     *)
(* onDisconnect callbacks registered so far.  A handler that is awaiting   *)
(* is not told.                                                            *)
Disconnect(c) ==
    /\ conn[c] # 0
    /\ conn' = [conn EXCEPT ![c] = 0]
    /\ down' = [down EXCEPT ![c] = <<>>]
    /\ owner' = [owner EXCEPT ![c] = 0]
    /\ sub' = [sub EXCEPT ![c] = Detached(@)]
    /\ regs' = regs \ RegsOn(regs, c, conn[c])
    /\ subsMap' = [subsMap EXCEPT ![c] = 0]
    /\ doubled' = [doubled EXCEPT ![c] = FALSE]
    /\ UNCHANGED <<daemonVars, reads, conns, coll>>

(* The session's screen mounts: a new Subscription, sent at once if there  *)
(* is a transport.  A phone sets isNew on a session it has just created.   *)
Subscribe(c, isNew) ==
    /\ sub[c].state = "none"
    /\ CanMove(c)
    /\ isNew => c \in Phones /\ sub[c].serial = 0 /\ Disk = <<>>
    /\ LET s == NewSubscription(sub[c].serial + 1, isNew) IN
       /\ sub' = [sub EXCEPT ![c] = s]
       /\ IF conn[c] = 0
          THEN UNCHANGED <<down, owner, routerVars>>
          ELSE /\ HandleSubscribe(c, conn[c], s, down[c])
               /\ owner' = [owner EXCEPT ![c] = s.serial]
    /\ UNCHANGED <<daemonVars, conn, conns, coll>>

(* The collection is garbage-collected.  The phone sends the unsubscribe   *)
(* RPC only if its subscribe was answered; the desktop sends it whenever   *)
(* its socket is open.                                                     *)
Unsubscribe(c) ==
    /\ sub[c].state # "none"
    /\ sub' = [sub EXCEPT ![c] = [NoSubscription EXCEPT !.serial = sub[c].serial]]
    /\ coll' = [coll EXCEPT ![c] = NoCollection]
    /\ IF conn[c] # 0 /\ (c \in Desktops \/ sub[c].state = "subscribed")
       THEN /\ HandleUnsubscribe(c)
            /\ owner' = [owner EXCEPT ![c] = 0]
       ELSE UNCHANGED <<routerVars, owner>>
    /\ UNCHANGED <<daemonVars, conn, conns, down>>

(* An event frame: routed by session to the owning callback, which moves   *)
(* the resume cursor and folds the delta into its collection.              *)
OnEvent(c, frame) ==
    /\ IF owner[c] = sub[c].serial /\ sub[c].state # "none"
       THEN /\ sub' = [sub EXCEPT ![c].cursor = frame.cursor]
            /\ coll' = [coll EXCEPT
                  ![c].view  = FoldDelta(@, frame.delta),
                  ![c].sound = (@ \/ frame.cursor = coll[c].floor + 1)
                               /\ ~doubled[c]]
       ELSE UNCHANGED <<sub, coll>>
    /\ UNCHANGED <<routerVars, owner>>

(* Mutant: a late answer releases the slot whoever owns it.                *)
StillOwns_Unchecked(c, serial) == TRUE

(* The identity check of the phone's unsubscribe: does the callback slot   *)
(* still belong to the Subscription whose answer this is?                  *)
StillOwns(c, serial) == owner[c] = serial

Subscribed(s, frame) ==
    [s EXCEPT !.state = "subscribed", !.epoch = frame.epoch,
              !.cursor = IF frame.recovered THEN @ ELSE frame.cursor]

(* A subscribe response.  If the Subscription was dropped meanwhile the    *)
(* phone releases what it still owns; otherwise it records the epoch and,  *)
(* on the cold path, the cursor, and rebuilds the collection.              *)
OnResponse(c, frame) ==
    IF frame.serial = sub[c].serial /\ sub[c].state # "none"
    THEN /\ sub' = [sub EXCEPT ![c] = Subscribed(@, frame)]
         /\ coll' = IF frame.recovered THEN coll
                    ELSE [coll EXCEPT ![c] =
                            [view  |-> frame.settled, base |-> frame.settled,
                             floor |-> frame.floor,
                             sound |-> frame.floor = frame.cursor /\ ~doubled[c]]]
         /\ UNCHANGED <<routerVars, owner>>
    ELSE /\ IF c \in Phones /\ StillOwns(c, frame.serial)
            THEN /\ HandleUnsubscribe(c)
                 /\ owner' = [owner EXCEPT ![c] = 0]
            ELSE UNCHANGED <<routerVars, owner>>
         /\ UNCHANGED <<sub, coll>>

(* A rejected subscribe: the phone forgets the callback if it still owns   *)
(* it and waits for the next transport; the desktop keeps its entry.       *)
OnError(c, frame) ==
    /\ owner' = [owner EXCEPT ![c] =
                   IF c \in Phones /\ @ = frame.serial THEN 0 ELSE @]
    /\ UNCHANGED <<sub, coll, routerVars>>

(* The device takes the next frame off its connection.                     *)
Deliver(c) ==
    /\ down[c] # <<>>
    /\ LET frame == Head(down[c]) IN
       CASE frame.type = "event"    -> OnEvent(c, frame)
         [] frame.type = "response" -> OnResponse(c, frame)
         [] frame.type = "error"    -> OnError(c, frame)
    /\ down' = [down EXCEPT ![c] = Tail(@)]
    /\ UNCHANGED <<daemonVars, conn, conns>>

-----------------------------------------------------------------------------
Next ==
    \/ \E mode \in {"create", "resume"} : SendPrompt(mode)
    \/ RefusePrompt
    \/ SdkMessage
    \/ LoopEnd
    \/ DisposeQuery
    \/ Flush
    \/ Restart
    \/ \E rd \in reads : \/ \E n \in DOMAIN disks : ResumeSubscribe(rd, n)
                         \/ FailSubscribe(rd)
    \/ \E c \in Devices : \/ Connect(c) \/ Disconnect(c)
                          \/ \E isNew \in BOOLEAN : Subscribe(c, isNew)
                          \/ Unsubscribe(c) \/ Deliver(c)

Spec == Init /\ [][Next]_vars

(* The event loop runs what is ready and the network delivers while the    *)
(* connection lasts; nobody is obliged to prompt, connect or subscribe.    *)
Fairness ==
    /\ \A c \in Devices : WF_vars(Deliver(c))
    /\ WF_vars(\E rd \in reads, n \in DOMAIN disks : ResumeSubscribe(rd, n))

FairSpec == Spec /\ Fairness

-----------------------------------------------------------------------------
(* Properties.                                                             *)

Subscription == [state : {"none", "subscribing", "subscribed"},
                 serial : Nat, cursor : Nat \cup {NoCursor},
                 epoch : Nat, isNew : BOOLEAN]

Collection == [view : Seq(Delta), base : Seq(Delta), floor : Nat, sound : BOOLEAN]

PendingRead == [device : Devices, conn : Nat \ {0}, serial : Nat \ {0},
                from : Nat]

Frame == [type : {"event"}, cursor : Nat, delta : Delta]
         \cup [type : {"response"}, serial : Nat \ {0},
               settled : Seq(Delta), cursor : Nat, floor : Nat,
               epoch : Nat \ {0}, recovered : BOOLEAN]
         \cup [type : {"error"}, serial : Nat \ {0}]

DaemonTypes ==
    /\ epoch \in Nat \ {0}
    /\ rt \in Runtime
    /\ items \in Nat
    /\ loop \in BOOLEAN
    /\ disks \in Seq(Seq(Delta)) /\ disks # <<>>

RouterTypes ==
    /\ reads \subseteq PendingRead
    /\ regs \subseteq Registration
    /\ subsMap \in [Devices -> Nat]
    /\ doubled \in [Devices -> BOOLEAN]

ClientTypes ==
    /\ conn \in [Devices -> Nat]
    /\ conns \in [Devices -> Nat]
    /\ down \in [Devices -> Seq(Frame)]
    /\ sub \in [Devices -> Subscription]
    /\ owner \in [Devices -> Nat]
    /\ coll \in [Devices -> Collection]

(* Every variable holds a value of its kind; in particular no cursor ever  *)
(* goes below zero and no frame carries a connection's or a Subscription's *)
(* placeholder.                                                            *)
TypeOK == DaemonTypes /\ RouterTypes /\ ClientTypes

(* The ring holds the newest events under their own cursors; the snapshot, *)
(* when there is one, is served without a replay and is what its base held *)
(* with every event since, each folded once and in order.  The base is the *)
(* file as a read found it, which may lack events emitted before the read  *)
(* came back: those and no others are missing, whatever the order of       *)
(* prompts, flushes, loop exits, teardowns and memoizing subscribers       *)
(* (session-runtime.ts addEvent; router.ts, the lazy init).                *)
RuntimeOK ==
    /\ RingIsLogSuffix(rt)
    /\ SettledIsCurrent(rt)
    /\ SettledHolds(rt, disks[1])

(* What a device shows is its last full snapshot plus every later event up *)
(* to its resume cursor, each applied once and in order: across lost       *)
(* connections, warm replays out of the ring and daemon restarts           *)
(* (daemon-client.ts attachSubscription, router.ts subscribe).             *)
ViewMatchesCursor ==
    \A c \in Devices :
       (coll[c].sound /\ sub[c].state # "none" /\ sub[c].epoch = epoch) =>
          coll[c].view = FoldDeltas(coll[c].base,
                                    SubSeq(rt.log, coll[c].floor + 1, sub[c].cursor))

(* The event frames of a queue behind its i-th frame.                      *)
EventsPast(q, i) == {j \in DOMAIN q : j > i /\ q[j].type = "event"}

(* They are the events from m to n, each once and in order.                *)
Carries(q, i, m, n) ==
    /\ m <= n + 1
    /\ {q[j].cursor : j \in EventsPast(q, i)} = m .. n
    /\ \A j, l \in EventsPast(q, i) : j < l => q[j].cursor < q[l].cursor

(* A subscribed device has exactly the events it is missing in flight to   *)
(* it: no gap between a replay and the live tail, no duplicate             *)
(* (session-runtime.ts subscribe: replay, then register, in one segment).  *)
WireContiguous ==
    \A c \in Devices :
       (conn[c] # 0 /\ sub[c].state = "subscribed" /\ coll[c].sound /\ ~doubled[c]) =>
          Carries(down[c], 0, sub[c].cursor + 1, CurrentCursor(rt))

(* A cursor counts events of one daemon process: an answer that keeps the  *)
(* device's view (recovered) is only ever given to a device whose view was *)
(* built in this process, and there is no event the ring skips             *)
(* (router.ts epochOk, bufferOk).                                          *)
RecoveryIsComplete ==
    \A c \in Devices : \A i \in DOMAIN down[c] :
       LET frame == down[c][i]
       IN (/\ frame.type = "response" /\ frame.recovered
           /\ frame.serial = sub[c].serial /\ sub[c].state # "none") =>
             /\ sub[c].epoch = epoch
             /\ ~doubled[c] =>
                   Carries(down[c], i, frame.floor + 1, CurrentCursor(rt))

(* A device whose subscribe was answered is caught up sooner or later, or  *)
(* is no longer subscribed: no event is stranded in the daemon.            *)
CatchesUp ==
    \A c \in Devices :
       (sub[c].state = "subscribed")
          ~> (sub[c].state # "subscribed" \/ sub[c].cursor = CurrentCursor(rt))

-----------------------------------------------------------------------------
(* A statement of the source that the code does not keep.                  *)

(* "ws.onclose -> unsubscribe automatically" (router.ts, end of the        *)
(* subscribe handler): no callback outlives its connection.                *)
NoDeadSubscribers ==
    \A r \in regs : conn[r.device] = r.conn

=============================================================================
