------------------------------ MODULE Desktop -------------------------------
(* The processes that run a daemon on one home, and a desktop page that    *)
(* talks to one of them.                                                   *)
(* A process is the desktop app (desktop/server/index.ts) or the command   *)
(* line's `up` (daemon/src/bin/thinkite.ts); daemon.lock tells the others  *)
(* who owns the home (daemon-lock.ts).  The page's DaemonRpc               *)
(* (desktop/src/lib/daemon-rpc.ts) reaches the app's daemon through        *)
(* server/rpc.ts and a LocalConnection (daemon/src/local-connection.ts).   *)
(* The page is any page of the app's port: a browser tab outlives the app. *)
EXTENDS Integers, Sequences, FiniteSets

CONSTANTS
    Apps, Clis,    \* processes of the app and of the command line
    MaxLaunches,   \* bound: processes ever launched
    MaxPids,       \* bound: process numbers of the machine
    MaxOpens,      \* bound: connections the page opens
    MaxEntries,    \* bound: transcripts the page opens
    MaxPrompts     \* bound: prompts the page sends

Procs == Apps \cup Clis

ASSUME DesktopAssumption ==
    /\ IsFiniteSet(Procs) /\ Apps \cap Clis = {}
    /\ {MaxLaunches, MaxPids, MaxOpens, MaxEntries, MaxPrompts} \subseteq Nat

VARIABLES
    procs,     \* per process: its phase, its pid, and which launch it is
    launches,  \* processes launched so far
    others,    \* the pids of the machine's other programs
    lock,      \* what daemon.lock says
    overlapped, \* history: the last start() was made beside another daemon's process
    conn,      \* the page's connection and its LocalConnection
    page,      \* the page's DaemonRpc and the collections it feeds
    log,       \* the prompts the session's history holds
    disk,      \* those of them claude has written to the JSONL
    missed,    \* history: prompts that a snapshot read from the JSONL lacked
    opens, prompts  \* connections opened and prompts sent so far

procVars == <<procs, launches, others, lock, overlapped>>
session == <<log, disk, missed>>
vars == <<procVars, conn, page, session, opens, prompts>>

-----------------------------------------------------------------------------
(* State.                                                                  *)

\* A process is off, booting (the home was free, it looks for the claude
\* binary), up (it runs a daemon), local (an app without one), draining
\* (asked to quit) or drained (daemon.stop has closed the connections).
Off == [phase |-> "off", pid |-> 0, run |-> 0]

\* The numbers in use.  Who ends gives its own back, and anybody may get it.
\* Only the lock remembers a number: any other that is free stands for all.
Pids == ({procs[p].pid : p \in Procs} \ {0}) \cup others
Unused == (1 .. MaxPids) \ Pids
FreePids == {n \in Unused : n = lock.pid \/ \A m \in Unused \ {lock.pid} : n <= m}

\* Who has run start(), and deletes the lock when it exits.
Daemons == {p \in Procs : procs[p].phase \in {"up", "draining", "drained"}}
Serving == {p \in Apps : procs[p].phase \in {"up", "draining", "drained"}}

\* A request is named by its kind and what it is about: 0 for the session
\* list, an entry for a transcript, a number for a prompt.  The frame of an
\* appended bubble has the form of an answer nobody waits for.
Request(kind, n) == [kind |-> kind, n |-> n]
Answer(request, ok, rows) == [to |-> request, ok |-> ok, rows |-> rows]
Bubble(n) == Answer(Request("append", n), TRUE, {n})

\* `up` and `down` are the frames in flight, `running` the handlers at an
\* await, `sub` says whether the daemon streams the session to it, `read` the
\* prompts that the handler of a subscribe found in the JSONL.
NoConn == [host |-> 0, closed |-> FALSE, sub |-> FALSE, up |-> <<>>, running |-> {}, down |-> <<>>,
           read |-> [n \in 1 .. MaxEntries |-> {}]]
Open == conn.host # 0

\* The session list's consumer is there from the start; `listed` says that
\* this connection delivered the list to it.  `entry`
\* is the collection that follows the session, 0 = none; `attached` is the
\* one onSubscribed was last called for, `refused` the one a subscribe
\* failed for.  `rows` are its synced bubbles, `acked` the prompts whose
\* sendPrompt returned.
NewPage == [timer |-> TRUE, pending |-> {}, listed |-> FALSE, entry |-> 0, entries |-> 0,
            attached |-> 0, refused |-> 0, rows |-> {}, acked |-> {}]

\* startedAt tells one start() from another.
NoLock == [pid |-> 0, startedAt |-> 0]

Init ==
    /\ procs = [p \in Procs |-> Off] /\ launches = 0 /\ others = {}
    /\ lock = NoLock /\ overlapped = FALSE
    /\ conn = NoConn /\ page = NewPage /\ log = {} /\ disk = {} /\ missed = {}
    /\ opens = 0 /\ prompts = 0

-----------------------------------------------------------------------------
(* The page's side of its connection.                                      *)

\* Mutant: what was in flight is left pending.
Lost_KeepsPending(pg) ==
    [pg EXCEPT !.timer = TRUE, !.listed = FALSE, !.attached = 0, !.refused = 0]

\* ws.onclose: every pending request is rejected, the reconnect timer set.
Lost(pg) ==
    [pg EXCEPT !.pending = {}, !.timer = TRUE, !.listed = FALSE, !.attached = 0, !.refused = 0]

\* The socket closes, for both ends: server/rpc.ts closes the
\* LocalConnection with it.
Hangup ==
    /\ conn' = NoConn
    /\ page' = Lost(page)

\* The connections to a process end with it.
HangupOf(p) ==
    IF Open /\ conn.host = procs[p].run THEN Hangup ELSE UNCHANGED <<conn, page>>

\* #request on an open socket.
Sent(pg, requests) ==
    [pg EXCEPT !.pending = @ \cup {requests[i] : i \in DOMAIN requests}]
Queued(c, requests) == [c EXCEPT !.up = @ \o requests]

\* Mutant: only the session list is subscribed again.
Reissued_ListOnly(pg) == <<Request("list", 0)>>

\* What onopen issues again: the session list and the open transcript.
Reissued(pg) ==
    <<Request("list", 0)>> \o (IF pg.entry = 0 THEN <<>> ELSE <<Request("subscribe", pg.entry)>>)

\* connect() while an app with a daemon listens; with none, or with an app
\* that answers 503, it fails and the timer runs again.
Connect(p) ==
    /\ p \in Serving /\ page.timer /\ opens < MaxOpens
    /\ opens' = opens + 1
    /\ conn' = Queued([NoConn EXCEPT !.host = procs[p].run], Reissued(page))
    /\ page' = [Sent(page, Reissued(page)) EXCEPT !.timer = FALSE]
    /\ UNCHANGED <<procVars, session, prompts>>

Drop == Open /\ Hangup /\ UNCHANGED <<procVars, session, opens, prompts>>

\* A request on an open socket, none without one.
Issue(pg, requests) ==
    LET rs == IF Open THEN requests ELSE <<>>
    IN page' = Sent(pg, rs) /\ conn' = Queued(conn, rs)

\* subscribeSession: at once if the socket is open, else by onopen.
SubscribeSession(pg) == Issue(pg, <<Request("subscribe", pg.entry)>>)
Unsubscribe(pg) ==
    Issue([pg EXCEPT !.entry = 0, !.attached = 0, !.refused = 0, !.rows = {}],
          <<Request("unsubscribe", pg.entry)>>)

\* getTranscriptCollection: the first consumer starts the sync, later ones
\* share it.
OpenTranscript ==
    /\ page.entry = 0 /\ page.entries < MaxEntries
    /\ SubscribeSession([page EXCEPT !.entry = page.entries + 1, !.entries = page.entries + 1])
    /\ UNCHANGED <<procVars, session, opens, prompts>>

\* Nobody looked at it for gcTime: the collection is cleaned up and evicted.
CloseTranscript ==
    /\ page.entry # 0
    /\ Unsubscribe(page)
    /\ UNCHANGED <<procVars, session, opens, prompts>>

\* sendUserMessage.  The bubble is drawn until its sendPrompt returns or is
\* rejected, which without an open socket is at once.
Drafts == {n \in 1 .. MaxPrompts : Request("prompt", n) \in page.pending}

SendPrompt ==
    /\ Open /\ page.entry # 0 /\ prompts < MaxPrompts
    /\ prompts' = prompts + 1
    /\ Issue(page, <<Request("prompt", prompts')>>)
    /\ UNCHANGED <<procVars, session, opens>>

\* onSubscribed replaces the rows by the snapshot (what a replay amounts to
\* is the concern of TranscriptStream).
Truncated(pg, rows) == [pg EXCEPT !.attached = pg.entry, !.rows = rows]

\* issueSubscribeSession resumes: an answer for an entry that was dropped or
\* replaced meanwhile is ignored; a failure is only logged.
Subscribed(pg, answer) ==
    IF answer.to.n # pg.entry THEN pg
    ELSE IF answer.ok THEN Truncated(pg, answer.rows)
                      ELSE [pg EXCEPT !.refused = pg.entry]

\* onEvent: the bubble is inserted, unless the collection is gone.
Appended(pg, frame) ==
    IF pg.entry = 0 THEN pg ELSE [pg EXCEPT !.rows = @ \cup frame.rows]

\* onInitial of the session list.
Listed(pg) == [pg EXCEPT !.listed = TRUE]

\* sendPrompt resolves, or rejects.
Acked(pg, answer) == IF answer.ok THEN [pg EXCEPT !.acked = @ \cup {answer.to.n}] ELSE pg

\* The one who waits for an answer goes on.
Resumed(pg, answer) ==
    CASE answer.to.kind = "subscribe"   -> Subscribed(pg, answer)
      [] answer.to.kind = "list"        -> Listed(pg)
      [] answer.to.kind = "prompt"      -> Acked(pg, answer)
      [] answer.to.kind = "unsubscribe" -> pg

\* onFrame: an event goes to the collection, an answer settles its request.
OnFrame ==
    /\ conn.down # <<>>
    /\ conn' = [conn EXCEPT !.down = Tail(@)]
    /\ LET frame == Head(conn.down)
       IN page' = IF frame.to.kind = "append" THEN Appended(page, frame)
                  ELSE Resumed([page EXCEPT !.pending = @ \ {frame.to}], frame)
    /\ UNCHANGED <<procVars, session, opens, prompts>>

-----------------------------------------------------------------------------
(* The LocalConnection and the handlers behind it.                         *)

\* send: nothing once the connection is closed.
Replied(c, frames) == IF c.closed THEN c ELSE [c EXCEPT !.down = @ \o frames]

\* subscribeSessions and unsubscribe run to their answer at once, subscribe
\* and sendPrompt come to an await: subscribe to that of getMessages.
Started(c, request) ==
    CASE request.kind = "list"        -> Replied(c, <<Answer(request, TRUE, {})>>)
      [] request.kind = "unsubscribe" -> Replied([c EXCEPT !.sub = FALSE], <<Answer(request, TRUE, {})>>)
      [] request.kind = "subscribe"   -> [c EXCEPT !.running = @ \cup {request}, !.read[request.n] = disk]
      [] request.kind = "prompt"      -> [c EXCEPT !.running = @ \cup {request}]

\* dispatchText: the command is handed to the router, unless the connection
\* is closed.
Dispatch ==
    /\ conn.up # <<>>
    /\ LET c == [conn EXCEPT !.up = Tail(@)]
       IN conn' = IF conn.closed THEN c ELSE Started(c, Head(conn.up))
    /\ UNCHANGED <<procVars, page, session, opens, prompts>>

Finished(request) == [conn EXCEPT !.running = @ \ {request}]

\* A handler throws, or refuses: the page is answered with an error.
Fail(request) ==
    /\ conn' = Replied(Finished(request), <<Answer(request, FALSE, {})>>)
    /\ UNCHANGED <<procVars, page, session, opens, prompts>>

\* claude writes a prompt to the JSONL, some time after it was pushed.
Write(n) ==
    /\ n \in log \ disk
    /\ disk' = disk \cup {n}
    /\ UNCHANGED <<procVars, conn, page, log, missed, opens, prompts>>

\* getMessages reads the file at some moment of the await.
ReadHistory(request) ==
    /\ request \in conn.running /\ request.kind = "subscribe"
    /\ conn' = [conn EXCEPT !.read[request.n] = disk]
    /\ UNCHANGED <<procVars, page, session, opens, prompts>>

\* What subscribe answers: the runtime's snapshot, which lacks what it may
\* have been memoized without, or what was read; a runtime that has
\* no snapshot has no other choice.
Settled(request) == {log, log \ missed, conn.read[request.n]}

\* subscribe wires the connection up at the newest cursor: nothing that was
\* pushed before is replayed.
FinishSubscribe(request) ==
    /\ request.kind = "subscribe"
    /\ \E rows \in Settled(request) :
          /\ conn' = Replied([Finished(request) EXCEPT !.sub = ~conn.closed], <<Answer(request, TRUE, rows)>>)
          /\ missed' = missed \cup (log \ rows)
    /\ UNCHANGED <<procVars, page, log, disk, opens, prompts>>

\* Mutant: the acknowledgement overtakes the event.
Recorded_AckFirst(n) == <<Answer(Request("prompt", n), TRUE, {}), Bubble(n)>>

\* pushPrompt sends the bubble to the stream, then sendPrompt is answered.
Recorded(n) == <<Bubble(n), Answer(Request("prompt", n), TRUE, {})>>

\* A connection that is not subscribed has no stream.
FinishPrompt(request) ==
    /\ request.kind = "prompt"
    /\ log' = log \cup {request.n}
    /\ conn' = Replied(Finished(request),
                       IF conn.sub THEN Recorded(request.n) ELSE <<Answer(request, TRUE, {})>>)
    /\ UNCHANGED <<procVars, page, disk, missed, opens, prompts>>

\* No token could be had: the prompt is acknowledged and goes nowhere.
FinishSignedOut(request) ==
    /\ request.kind = "prompt"
    /\ conn' = Replied(Finished(request), <<Answer(request, TRUE, {})>>)
    /\ UNCHANGED <<procVars, page, session, opens, prompts>>

Finish(request) ==
    /\ request \in conn.running
    /\ Fail(request) \/ FinishSubscribe(request) \/ FinishPrompt(request) \/ FinishSignedOut(request)

-----------------------------------------------------------------------------
(* The processes.                                                          *)

\* readActiveDaemonLock: the lock counts while some process has its number.
ActiveLock(pids) == IF lock.pid \in pids THEN lock ELSE NoLock

Enter(p, phase, pid) ==
    /\ launches < MaxLaunches
    /\ procs[p] = Off /\ pid \in FreePids
    /\ launches' = launches + 1
    /\ procs' = [procs EXCEPT ![p] = [phase |-> phase, pid |-> pid, run |-> launches']]

\* start() announces itself; it does not look at the lock.
Announced(pid, run) ==
    /\ lock' = [pid |-> pid, startedAt |-> run]
    /\ overlapped' = (Daemons # {})

\* The app is launched, alone of its kind (requestSingleInstanceLock), and
\* reads the lock: a home with an owner is left to it.
LaunchApp(p) ==
    /\ p \in Apps /\ \A q \in Apps : procs[q] = Off
    /\ \E pid \in FreePids :
          Enter(p, IF ActiveLock(Pids \cup {pid}) # NoLock THEN "local" ELSE "booting", pid)
    /\ UNCHANGED <<others, lock, overlapped, conn, page, session, opens, prompts>>

\* resolveClaude returns and start() runs.
Boot(p) ==
    /\ procs[p].phase = "booting"
    /\ procs' = [procs EXCEPT ![p].phase = "up"]
    /\ Announced(procs[p].pid, procs[p].run)
    /\ UNCHANGED <<launches, others, conn, page, session, opens, prompts>>

\* `thinkite up`: start() at once.
Up(p) ==
    /\ p \in Clis
    /\ \E pid \in FreePids : Enter(p, "up", pid) /\ Announced(pid, launches')
    /\ UNCHANGED <<others, conn, page, session, opens, prompts>>

\* Other programs come and go on the machine; only one that is given the
\* number in the lock can be taken for anything.
OtherStarts == \E pid \in FreePids \cap {lock.pid} : others' = others \cup {pid}
OtherEnds == \E pid \in others : others' = others \ {pid}
Elsewhere ==
    /\ OtherStarts \/ OtherEnds
    /\ UNCHANGED <<procs, launches, lock, overlapped, conn, page, session, opens, prompts>>

\* before-quit or a signal, the first one.
Quit(p) ==
    /\ procs[p].phase = "up"
    /\ procs' = [procs EXCEPT ![p].phase = "draining"]
    /\ UNCHANGED <<launches, others, lock, overlapped, conn, page, session, opens, prompts>>

\* Mutant: the lock is left to the exit.
LockAfterStop_Kept == lock
LockAfterStop == NoLock

\* daemon.stop() once the queries are drained: the lock is deleted, whoever
\* wrote it, and every local connection is closed, its socket is not.
Stop(p) ==
    /\ procs[p].phase = "draining"
    /\ procs' = [procs EXCEPT ![p].phase = "drained"]
    /\ lock' = LockAfterStop
    /\ conn' = IF Open /\ conn.host = procs[p].run
               THEN [conn EXCEPT !.closed = TRUE] ELSE conn
    /\ UNCHANGED <<launches, others, overlapped, page, session, opens, prompts>>

\* The process ends.  Once it has run start() its exit hook deletes the
\* lock, whoever wrote it.  What claude had not written yet is lost.
End(p, hook) ==
    /\ procs' = [procs EXCEPT ![p] = Off]
    /\ lock' = IF hook THEN NoLock ELSE lock
    /\ HangupOf(p)
    /\ \E kept \in SUBSET log : disk \subseteq kept /\ log' = kept /\ disk' = kept
    /\ UNCHANGED <<launches, others, overlapped, missed, opens, prompts>>

\* iroh.stop() returns.  An app without a daemon has nothing to drain.
Exit(p) == \/ procs[p].phase = "drained" /\ End(p, TRUE)
           \/ procs[p].phase = "local" /\ End(p, FALSE)

\* The app's race of 5 s, the command line's forced exit of 10 s.
ForceExit(p) == procs[p].phase \in {"draining", "drained"} /\ End(p, TRUE)

\* The port is taken: the app exits as soon as its daemon runs.
PortTaken(p) == p \in Apps /\ procs[p].phase = "up" /\ ~Open /\ End(p, TRUE)

Crash(p) == procs[p] # Off /\ End(p, FALSE)

-----------------------------------------------------------------------------
Next ==
    \/ \E p \in Procs : \/ LaunchApp(p) \/ Boot(p) \/ Up(p) \/ Quit(p) \/ Stop(p)
                        \/ Exit(p) \/ ForceExit(p) \/ PortTaken(p) \/ Crash(p)
                        \/ Connect(p)
    \/ Drop \/ OpenTranscript \/ CloseTranscript \/ SendPrompt
    \/ OnFrame \/ Dispatch
    \/ \E request \in conn.running : ReadHistory(request) \/ Finish(request)
    \/ \E n \in 1 .. MaxPrompts : Write(n)
    \/ Elsewhere

Spec == Init /\ [][Next]_vars

AllRequests ==
    [kind : {"list"}, n : {0}] \cup [kind : {"subscribe", "unsubscribe"}, n : 1 .. MaxEntries]
    \cup [kind : {"prompt"}, n : 1 .. MaxPrompts]

(* Loopback delivers, a handler ends, and the timers that end a process    *)
(* run.  A drain may hang, and nobody has to launch or quit anything.      *)
Fairness ==
    /\ WF_vars(OnFrame) /\ WF_vars(Dispatch)
    /\ \A request \in AllRequests : WF_vars(Finish(request))
    /\ \A p \in Procs : WF_vars(ForceExit(p))

LiveSpec == Spec /\ Fairness

-----------------------------------------------------------------------------
(* Properties.                                                             *)

Frames ==
    [to : AllRequests \cup [kind : {"append"}, n : 1 .. MaxPrompts],
     ok : BOOLEAN, rows : SUBSET (1 .. MaxPrompts)]

Conns ==
    [host : 0 .. MaxLaunches, closed : BOOLEAN, sub : BOOLEAN,
     up : Seq(AllRequests), running : SUBSET AllRequests, down : Seq(Frames),
     read : [1 .. MaxEntries -> SUBSET (1 .. MaxPrompts)]]

Pages ==
    [timer : BOOLEAN, pending : SUBSET AllRequests, listed : BOOLEAN,
     entry : 0 .. MaxEntries, entries : 0 .. MaxEntries,
     attached : 0 .. MaxEntries, refused : 0 .. MaxEntries,
     rows : SUBSET (1 .. MaxPrompts), acked : SUBSET (1 .. MaxPrompts)]

Processes == [phase : {"off", "booting", "up", "local", "draining", "drained"},
              pid : 0 .. MaxPids, run : 0 .. MaxLaunches]

(* Every variable holds a value of its kind.                               *)
TypeOK ==
    /\ procs \in [Procs -> Processes]
    /\ launches \in 0 .. MaxLaunches
    /\ others \subseteq 1 .. MaxPids
    /\ lock \in [pid : 0 .. MaxPids, startedAt : 0 .. MaxLaunches] /\ overlapped \in BOOLEAN
    /\ conn \in Conns /\ page \in Pages
    /\ log \subseteq 1 .. MaxPrompts /\ disk \subseteq log /\ missed \subseteq 1 .. MaxPrompts
    /\ opens \in 0 .. MaxOpens /\ prompts \in 0 .. MaxPrompts

(* What the lock says can be relied on, both ways: as long as the process  *)
(* that wrote it lives, it runs a daemon that still answers; and a daemon  *)
(* that runs is the one the lock names, unless one of two processes on one *)
(* home may have deleted it (daemon-lock.ts; index.ts start, stop and exit *)
(* hook; pair-command.ts mints offers on its word).                        *)
LockIsTrue ==
    /\ \A p \in Procs :
          (procs[p] # Off /\ procs[p].run = lock.startedAt) => procs[p].phase \in {"up", "draining"}
    /\ \A p \in Procs :
          (~overlapped /\ procs[p].phase \in {"up", "draining"}) =>
              lock = [pid |-> procs[p].pid, startedAt |-> procs[p].run]

(* No request of the page waits for ever: it is answered, failed by its    *)
(* handler or rejected with its connection, also while the app is quitting *)
(* and no longer answers (daemon-rpc.ts #request, onclose;                 *)
(* local-connection.ts dispatchText).                                      *)
RequestsSettle ==
    \A request \in AllRequests :
        (request \in page.pending) ~> (request \notin page.pending)

(* A page follows its connections: each one is asked for the session list  *)
(* and for the open transcript, and either delivers or refuses it, or is   *)
(* closed (daemon-rpc.ts onopen, issueSubscribeSession).                   *)
PageFollows ==
    /\ Open ~> (page.listed \/ ~Open \/ conn.closed)
    /\ \A n \in 1 .. MaxEntries :
          (page.entry = n /\ Open) ~> (page.entry # n \/ ~Open \/ conn.closed
                                        \/ page.attached = n \/ page.refused = n)

(* A prompt's bubble never blinks in an attached transcript: the drawn one *)
(* goes when sendPrompt returns, and by then the daemon's copy is there,   *)
(* if the session has the prompt at all and the JSONL was not read without *)
(* it (transcript-collections.ts sendUserMessage; router.ts sendPrompt).   *)
BubbleStays ==
    page.attached # 0 => ((page.acked \cap log) \ missed) \subseteq (page.rows \cup Drafts)

=============================================================================
