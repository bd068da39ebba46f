--------------------------- MODULE Desktop_proofs ---------------------------
(***************************************************************************)
(* Theorems about Desktop, for every number of processes and every bound:  *)
(* what daemon.lock says can be relied on while its writer lives, and a    *)
(* prompt's bubble never blinks unless the JSONL was read without it.  The *)
(* first is inductive once the launches are known to be in order and two   *)
(* daemons at once to be an overlap (Numbered); the second rests on the    *)
(* order in which a connection carries subscriptions, snapshots, bubbles   *)
(* and answers (Ordered).                                                  *)
(***************************************************************************)
EXTENDS Desktop, TLAPS

-----------------------------------------------------------------------------
(* The strengthenings.                                                     *)

\* Two processes are never the same launch, the lock was written by one that
\* was launched, and two daemons at once are an overlap.
Numbered ==
    /\ \A p \in Procs : procs[p] = Off \/ (procs[p].run \in 1 .. launches /\ procs[p].phase # "off")
    /\ \A p, q \in Procs : p # q /\ procs[p].run = procs[q].run => procs[p].run = 0
    /\ lock.startedAt <= launches
    /\ ~overlapped => \A p, q \in Daemons : p = q

\* A page without a socket has nothing in flight and no attached transcript.
Connected ==
    /\ ~Open => conn = NoConn /\ page.attached = 0
    /\ page.timer => ~Open
    /\ page.attached # 0 => page.attached = page.entry
    /\ page.entry <= page.entries

Prompt(n) == Request("prompt", n)
Subscribe(n) == Request("subscribe", n)

\* The request is on its way to the daemon, or its handler runs.
Underway(request) == request \in conn.running \/ \E i \in DOMAIN conn.up : conn.up[i] = request

\* Frame i acknowledges the prompt.
Acks(i, n) == conn.down[i].to = Prompt(n) /\ conn.down[i].ok

\* The page has not heard of the prompt, and no answer is on its way.
Silent(n) == n \notin page.acked /\ \A i \in DOMAIN conn.down : ~Acks(i, n)

\* A prompt is handled once: until then nothing can tell of it.
Once ==
    \A n \in 1 .. MaxPrompts :
        /\ Underway(Prompt(n)) => n <= prompts /\ n \notin log /\ Silent(n)
        /\ n > prompts => n \notin log /\ Silent(n)
        /\ \A i \in DOMAIN conn.up : conn.up[i] = Prompt(n) =>
              /\ Prompt(n) \notin conn.running
              /\ \A j \in DOMAIN conn.up : conn.up[j] = Prompt(n) => i = j

\* Frame i shows the open transcript a snapshot.
Snapshot(i) == conn.down[i].to = Subscribe(page.entry) /\ conn.down[i].ok

\* Transcripts are numbered as they are opened.
Opened ==
    /\ \A n \in 1 .. MaxEntries : Underway(Subscribe(n)) => n <= page.entries
    /\ \A n \in 1 .. MaxEntries, i \in DOMAIN conn.down :
          conn.down[i].to = Subscribe(n) => n <= page.entries
    /\ \A i \in DOMAIN conn.up : conn.up[i].kind = "unsubscribe" => conn.up[i].n <= page.entries

\* An unsubscription is of an earlier transcript, and overtakes nothing.
InOrder ==
    /\ \A i \in DOMAIN conn.up : conn.up[i].kind = "unsubscribe" =>
          /\ conn.up[i].n # page.entry
          /\ page.attached = 0
          /\ Subscribe(page.entry) \notin conn.running
          /\ \A j \in DOMAIN conn.down : ~Snapshot(j)
          /\ \A j \in DOMAIN conn.up : conn.up[j] = Subscribe(page.entry) => i < j
    /\ (page.attached # 0 \/ \E i \in DOMAIN conn.down : Snapshot(i)) => conn.sub \/ conn.closed

\* The prompts of the history that no snapshot lacked.
Recalled == log \ missed

\* `rows` is what the transcript shows after the first k frames in flight.
\* Of a recalled prompt that it lacks the page has not heard, and it will
\* not hear of it before its bubble has come.
Told(k, rows) ==
    \A n \in Recalled : n \in rows \/
        /\ n \notin page.acked
        /\ \A j \in DOMAIN conn.down : Acks(j, n) =>
              \E i \in DOMAIN conn.down : k < i /\ i < j /\ conn.down[i] = Bubble(n)

Owed ==
    /\ page.attached # 0 => Told(0, page.rows)
    /\ \A k \in DOMAIN conn.down : Snapshot(k) => Told(k, conn.down[k].rows)

Ordered == Connected /\ Once /\ Opened /\ InOrder /\ Owed

-----------------------------------------------------------------------------
(* Type correctness.                                                       *)

USE DEF session

LEMMA Bounds ==
    /\ MaxLaunches \in Nat /\ MaxPids \in Nat /\ MaxOpens \in Nat /\ MaxEntries \in Nat /\ MaxPrompts \in Nat
  BY DesktopAssumption

LEMMA Singletons ==
  ASSUME NEW S, NEW x \in S, NEW y \in S
  PROVE  <<x>> \in Seq(S) /\ <<x, y>> \in Seq(S)
  OBVIOUS

LEMMA Queueing ==
  ASSUME NEW S, NEW s \in Seq(S), NEW t \in Seq(S)
  PROVE  /\ s \o t \in Seq(S) /\ Len(s \o t) = Len(s) + Len(t)
         /\ \A i \in 1 .. Len(s) : (s \o t)[i] = s[i]
         /\ \A i \in 1 .. Len(t) : (s \o t)[Len(s) + i] = t[i]
  OBVIOUS

LEMMA Joining ==
  ASSUME NEW S, NEW s \in Seq(S), NEW x \in S
  PROVE  /\ s \o <<x>> \in Seq(S) /\ Len(s \o <<x>>) = Len(s) + 1
         /\ (s \o <<x>>)[Len(s) + 1] = x
         /\ \A i \in 1 .. Len(s) : (s \o <<x>>)[i] = s[i]
         /\ \A i \in DOMAIN (s \o <<x>>) : \/ i \in 1 .. Len(s) /\ (s \o <<x>>)[i] = s[i]
                                           \/ i = Len(s) + 1 /\ (s \o <<x>>)[i] = x
  <1>1. /\ s \o <<x>> \in Seq(S) /\ Len(s \o <<x>>) = Len(s) + 1
        /\ (s \o <<x>>)[Len(s) + 1] = x
        /\ \A i \in 1 .. Len(s) : (s \o <<x>>)[i] = s[i]
    OBVIOUS
  <1>2. DOMAIN (s \o <<x>>) = 1 .. Len(s) + 1 /\ Len(s) \in Nat
    BY <1>1
  <1>3. \A i \in 1 .. Len(s) + 1 : i \in 1 .. Len(s) \/ i = Len(s) + 1
    BY <1>2
  <1> QED BY <1>1, <1>2, <1>3

LEMMA RequestTypes ==
    /\ Request("list", 0) \in AllRequests
    /\ \A n \in 1 .. MaxEntries :
          Request("subscribe", n) \in AllRequests /\ Request("unsubscribe", n) \in AllRequests
    /\ \A n \in 1 .. MaxPrompts :
          Request("prompt", n) \in AllRequests /\ Bubble(n) \in Frames
    /\ \A request \in AllRequests, ok \in BOOLEAN, rows \in SUBSET (1 .. MaxPrompts) :
          Answer(request, ok, rows) \in Frames
  <1>1. \A n \in 1 .. MaxPrompts : Request("prompt", n) \in AllRequests
    BY DEF Request, AllRequests
  <1>2. \A request \in AllRequests, ok \in BOOLEAN, rows \in SUBSET (1 .. MaxPrompts) :
          Answer(request, ok, rows) \in Frames
    BY DEF Answer, Frames
  <1>3. \A n \in 1 .. MaxPrompts : Bubble(n) \in Frames
    BY DEF Bubble, Answer, Request, Frames
  <1> QED BY <1>1, <1>2, <1>3 DEF Request, AllRequests

\* What a request is, by its kind.
LEMMA RequestKinds ==
  ASSUME NEW request \in AllRequests
  PROVE  \/ request = Request("list", 0)
         \/ request.n \in 1 .. MaxEntries
            /\ (request = Request("subscribe", request.n) \/ request = Request("unsubscribe", request.n))
         \/ request.n \in 1 .. MaxPrompts /\ request = Request("prompt", request.n)
  BY DEF AllRequests, Request

LEMMA TypeInit == Init => TypeOK
  <1> SUFFICES ASSUME Init PROVE TypeOK
    OBVIOUS
  <1>1. 0 \in 0 .. MaxLaunches /\ 0 \in 0 .. MaxOpens /\ 0 \in 0 .. MaxEntries /\ 0 \in 0 .. MaxPrompts
    BY Bounds
  <1>2. NoConn \in Conns
    BY <1>1 DEF NoConn, Conns
  <1>3. NewPage \in Pages
    BY <1>1 DEF NewPage, Pages
  <1>4. 0 \in 0 .. MaxPids
    BY Bounds
  <1>5. Off \in Processes /\ NoLock \in [pid : 0 .. MaxPids, startedAt : 0 .. MaxLaunches]
    BY <1>1, <1>4 DEF Off, Processes, NoLock
  <1> QED BY <1>1, <1>2, <1>3, <1>5 DEF Init, TypeOK

LEMMA HangupType ==
  ASSUME TypeOK
  PROVE  /\ NoConn \in Conns /\ Lost(page) \in Pages
         /\ Hangup => conn' \in Conns /\ page' \in Pages
         /\ \A p : HangupOf(p) => conn' \in Conns /\ page' \in Pages
  <1>1. 0 \in 0 .. MaxLaunches /\ 0 \in 0 .. MaxEntries
    BY Bounds
  <1>2. NoConn \in Conns
    BY <1>1 DEF NoConn, Conns
  <1>3. page \in Pages
    BY DEF TypeOK
  <1>4. Lost(page) \in Pages
    BY <1>1, <1>3 DEF Lost, Pages
  <1> QED BY <1>2, <1>4 DEF Hangup, HangupOf, TypeOK

LEMMA SentType ==
  ASSUME NEW pg \in Pages, NEW c \in Conns, NEW requests \in Seq(AllRequests)
  PROVE  Sent(pg, requests) \in Pages /\ Queued(c, requests) \in Conns
  <1>1. {requests[i] : i \in DOMAIN requests} \subseteq AllRequests
    OBVIOUS
  <1>2. Sent(pg, requests) \in Pages
    BY <1>1 DEF Sent, Pages
  <1>3. c.up \o requests \in Seq(AllRequests)
    BY DEF Conns
  <1> QED BY <1>2, <1>3 DEF Queued, Conns

LEMMA ReissuedType ==
  ASSUME NEW pg \in Pages
  PROVE  Reissued(pg) \in Seq(AllRequests)
  <1>1. pg.entry # 0 => Request("subscribe", pg.entry) \in AllRequests
    BY RequestTypes, Bounds DEF Pages
  <1> QED BY <1>1, RequestTypes DEF Reissued

LEMMA RepliedType ==
  ASSUME NEW c \in Conns, NEW frames \in Seq(Frames)
  PROVE  Replied(c, frames) \in Conns
  <1>1. c.down \o frames \in Seq(Frames)
    BY DEF Conns
  <1> QED BY <1>1 DEF Replied, Conns

LEMMA PageType ==
  ASSUME TypeOK, OpenTranscript \/ CloseTranscript \/ SendPrompt \/ OnFrame
                 \/ Drop \/ \E p \in Procs : Connect(p)
  PROVE  TypeOK'
  <1>0. page \in Pages /\ conn \in Conns
    BY DEF TypeOK
  <1>1. ASSUME NEW pg \in Pages, NEW requests \in Seq(AllRequests), Issue(pg, requests)
        PROVE  page' \in Pages /\ conn' \in Conns
    <2>1. (IF Open THEN requests ELSE <<>>) \in Seq(AllRequests)
      OBVIOUS
    <2> QED BY <1>0, <1>1, <2>1, SentType DEF Issue
  <1>2. CASE OpenTranscript
    <2> DEFINE pg == [page EXCEPT !.entry = page.entries + 1, !.entries = page.entries + 1]
    <2>1. page.entries + 1 \in 1 .. MaxEntries
      BY <1>0, <1>2, Bounds DEF OpenTranscript, Pages
    <2>2. page.entries + 1 \in 0 .. MaxEntries
      BY <2>1
    <2>2a. pg \in Pages /\ pg.entry = page.entries + 1
      BY <1>0, <2>2 DEF Pages
    <2>3. Issue(pg, <<Request("subscribe", pg.entry)>>)
          /\ UNCHANGED <<procVars, session, opens, prompts>>
      BY <1>2 DEF OpenTranscript, SubscribeSession
    <2> HIDE DEF pg
    <2>4. <<Request("subscribe", pg.entry)>> \in Seq(AllRequests)
      BY <2>1, <2>2a, RequestTypes
    <2> QED BY <1>1, <2>2a, <2>3, <2>4 DEF TypeOK, procVars
  <1>3. CASE CloseTranscript
    <2> DEFINE pg == [page EXCEPT !.entry = 0, !.attached = 0, !.refused = 0, !.rows = {}]
    <2>0. 0 \in 0 .. MaxEntries /\ {} \in SUBSET (1 .. MaxPrompts)
      BY Bounds
    <2>1. pg \in Pages
      BY <1>0, <2>0 DEF Pages
    <2>2. Issue(pg, <<Request("unsubscribe", page.entry)>>)
          /\ UNCHANGED <<procVars, session, opens, prompts>>
      BY <1>3 DEF CloseTranscript, Unsubscribe
    <2>3. page.entry \in 1 .. MaxEntries
      BY <1>0, <1>3, Bounds DEF CloseTranscript, Pages
    <2> HIDE DEF pg
    <2>4. <<Request("unsubscribe", page.entry)>> \in Seq(AllRequests)
      BY <2>3, RequestTypes
    <2> QED BY <1>1, <2>1, <2>2, <2>4 DEF TypeOK, procVars
  <1>4. CASE SendPrompt
    <2>1. prompts' \in 1 .. MaxPrompts
      BY <1>4, Bounds DEF SendPrompt, TypeOK
    <2>2. Issue(page, <<Request("prompt", prompts')>>) /\ UNCHANGED <<procVars, session, opens>>
      BY <1>4 DEF SendPrompt
    <2>3. <<Request("prompt", prompts')>> \in Seq(AllRequests)
      BY <2>1, RequestTypes
    <2>4. prompts' \in 0 .. MaxPrompts
      BY <2>1
    <2>5. page' \in Pages /\ conn' \in Conns
      BY <1>0, <1>1, <2>2, <2>3
    <2> QED BY <2>2, <2>4, <2>5 DEF TypeOK, procVars
  <1>5. CASE OnFrame
    <2> DEFINE frame == Head(conn.down)
               waiting == [page EXCEPT !.pending = @ \ {frame.to}]
    <2>1. conn' = [conn EXCEPT !.down = Tail(@)] /\ conn.down # <<>> /\ conn.down \in Seq(Frames)
      BY <1>0, <1>5 DEF OnFrame, Conns
    <2>2. frame \in Frames /\ Tail(conn.down) \in Seq(Frames)
      BY <2>1
    <2>3. conn' \in Conns
      BY <1>0, <2>1, <2>2 DEF Conns
    <2>4. page' = IF frame.to.kind = "append" THEN Appended(page, frame) ELSE Resumed(waiting, frame)
      BY <1>5 DEF OnFrame
    <2>5. waiting \in Pages
      BY <1>0 DEF Pages
    <2> HIDE DEF waiting, frame
    <2>6. frame.rows \subseteq 1 .. MaxPrompts
      BY <2>2 DEF Frames
    <2>7. Appended(page, frame) \in Pages
      BY <1>0, <2>6 DEF Appended, Pages
    <2>8. ASSUME frame.to.kind # "append" PROVE Resumed(waiting, frame) \in Pages
      <3>1. frame.to \in AllRequests
        BY <2>2, <2>8 DEF Frames
      <3>2. Subscribed(waiting, frame) \in Pages
        BY <2>5, <2>6 DEF Subscribed, Truncated, Pages
      <3>3. Listed(waiting) \in Pages
        BY <2>5 DEF Listed, Pages
      <3>4. frame.to.kind = "prompt" => Acked(waiting, frame) \in Pages
        BY <2>5, <3>1 DEF Acked, AllRequests, Pages
      <3>5. frame.to.kind \in {"subscribe", "list", "prompt", "unsubscribe"}
        BY <3>1 DEF AllRequests
      <3> QED BY <2>5, <3>2, <3>3, <3>4, <3>5 DEF Resumed
    <2> QED BY <1>5, <2>3, <2>4, <2>7, <2>8 DEF OnFrame, TypeOK, procVars
  <1>6. CASE Drop
    BY <1>6, HangupType DEF Drop, TypeOK, procVars
  <1>7. ASSUME NEW p \in Procs, Connect(p) PROVE TypeOK'
    <2> DEFINE fresh == [NoConn EXCEPT !.host = procs[p].run]
               sent == Sent(page, Reissued(page))
    <2>1. opens' \in 0 .. MaxOpens
      BY <1>7, Bounds DEF Connect, TypeOK
    <2>2. procs[p].run \in 0 .. MaxLaunches
      BY DEF TypeOK, Processes
    <2>3. fresh \in Conns
      BY <2>2, HangupType DEF Conns
    <2>4. sent \in Pages /\ Queued(fresh, Reissued(page)) \in Conns
      BY <1>0, <2>3, ReissuedType, SentType
    <2>5. [sent EXCEPT !.timer = FALSE] \in Pages
      BY <2>4 DEF Pages
    <2>6. conn' = Queued(fresh, Reissued(page)) /\ page' = [sent EXCEPT !.timer = FALSE]
          /\ UNCHANGED <<procVars, session, prompts>>
      BY <1>7 DEF Connect
    <2> HIDE DEF fresh, sent
    <2> QED BY <2>1, <2>4, <2>5, <2>6 DEF TypeOK, procVars
  <1> QED BY <1>2, <1>3, <1>4, <1>5, <1>6, <1>7

LEMMA SettledType ==
  ASSUME TypeOK, NEW request \in AllRequests, request.kind = "subscribe"
  PROVE  \A rows \in Settled(request) : rows \in SUBSET (1 .. MaxPrompts)
  <1>1. request.n \in 1 .. MaxEntries
    BY DEF AllRequests
  <1>2. conn.read[request.n] \in SUBSET (1 .. MaxPrompts)
    BY <1>1 DEF TypeOK, Conns
  <1> QED BY <1>2 DEF Settled, TypeOK

LEMMA HandlerType ==
  ASSUME TypeOK, Dispatch \/ \E request \in conn.running : ReadHistory(request) \/ Finish(request)
  PROVE  TypeOK'
  <1>0. conn \in Conns /\ log \in SUBSET (1 .. MaxPrompts) /\ missed \in SUBSET (1 .. MaxPrompts)
        /\ disk \in SUBSET (1 .. MaxPrompts)
    BY DEF TypeOK
  <1>1. CASE Dispatch
    <2> DEFINE c == [conn EXCEPT !.up = Tail(@)]
               request == Head(conn.up)
    <2>1. conn.up # <<>> /\ conn.up \in Seq(AllRequests)
      BY <1>0, <1>1 DEF Dispatch, Conns
    <2>2. request \in AllRequests /\ Tail(conn.up) \in Seq(AllRequests)
      BY <2>1
    <2>3. c \in Conns
      BY <1>0, <2>2 DEF Conns
    <2>4. conn' = IF conn.closed THEN c ELSE Started(c, request)
      BY <1>1 DEF Dispatch
    <2> HIDE DEF c, request
    <2>5. Answer(request, TRUE, {}) \in Frames
      BY <2>2 DEF Answer, Frames
    <2>6. /\ [c EXCEPT !.sub = FALSE] \in Conns
          /\ [c EXCEPT !.running = @ \cup {request}] \in Conns
          /\ [c EXCEPT !.running = @ \cup {request}, !.read[request.n] = disk] \in Conns
      BY <1>0, <2>2, <2>3 DEF Conns
    <2>6a. <<Answer(request, TRUE, {})>> \in Seq(Frames)
      BY <2>5, Singletons, Zenon
    <2>6b. request.kind \in {"list", "unsubscribe", "subscribe", "prompt"}
      BY <2>2 DEF AllRequests
    <2>6c. \A d \in Conns : Replied(d, <<Answer(request, TRUE, {})>>) \in Conns
      BY <2>6a, RepliedType
    <2>7. Started(c, request) \in Conns
      BY <2>3, <2>6, <2>6b, <2>6c DEF Started
    <2> QED BY <1>1, <2>3, <2>4, <2>7 DEF Dispatch, TypeOK, procVars
  <1>2. ASSUME NEW request \in conn.running, Finish(request) PROVE TypeOK'
    <2>0. request \in AllRequests
      BY <1>0 DEF Conns
    <2>1. Finished(request) \in Conns
      BY <1>0 DEF Finished, Conns
    <2>2. <<Answer(request, FALSE, {})>> \in Seq(Frames) /\ <<Answer(request, TRUE, {})>> \in Seq(Frames)
      <3>1. \A ok \in BOOLEAN : Answer(request, ok, {}) \in Frames
        BY <2>0 DEF Answer, Frames
      <3> QED BY <3>1, Singletons, Zenon
    <2>3. CASE Fail(request)
      BY <2>1, <2>2, <2>3, RepliedType DEF Fail, TypeOK, procVars
    <2>4. CASE FinishSubscribe(request)
      <3>1. [Finished(request) EXCEPT !.sub = ~conn.closed] \in Conns
        BY <1>0, <2>1 DEF Conns
      <3>2. PICK rows \in Settled(request) :
              /\ conn' = Replied([Finished(request) EXCEPT !.sub = ~conn.closed], <<Answer(request, TRUE, rows)>>)
              /\ missed' = missed \cup (log \ rows)
        BY <2>4 DEF FinishSubscribe
      <3>3. rows \in SUBSET (1 .. MaxPrompts)
        BY <1>0, <2>0, <2>4, SettledType DEF FinishSubscribe
      <3>4. Answer(request, TRUE, rows) \in Frames
        BY <2>0, <3>3 DEF Answer, Frames
      <3>5. <<Answer(request, TRUE, rows)>> \in Seq(Frames)
        BY <3>4, Singletons, Zenon
      <3>6. conn' \in Conns /\ missed' \subseteq 1 .. MaxPrompts
        BY <1>0, <3>1, <3>2, <3>5, RepliedType
      <3> QED BY <2>4, <3>6 DEF FinishSubscribe, TypeOK, procVars
    <2>5. CASE FinishPrompt(request)
      <3>1. request.n \in 1 .. MaxPrompts /\ Request("prompt", request.n) = request
        BY <2>0, <2>5, RequestKinds DEF FinishPrompt, Request
      <3>2. Recorded(request.n) \in Seq(Frames)
        <4>1. Bubble(request.n) \in Frames /\ Answer(request, TRUE, {}) \in Frames
          BY <2>0, <3>1, RequestTypes DEF Answer, Frames
        <4>2. Request("prompt", request.n) = request
          BY <3>1
        <4> QED BY <4>1, <4>2, Singletons, Zenon DEF Recorded
      <3>3. (IF conn.sub THEN Recorded(request.n) ELSE <<Answer(request, TRUE, {})>>) \in Seq(Frames)
        BY <2>2, <3>2
      <3>4. conn' \in Conns
        BY <2>1, <2>5, <3>3, RepliedType DEF FinishPrompt
      <3>5. log' \subseteq 1 .. MaxPrompts
        BY <1>0, <2>5, <3>1 DEF FinishPrompt
      <3> QED BY <2>5, <3>4, <3>5 DEF FinishPrompt, TypeOK, procVars
    <2>6. CASE FinishSignedOut(request)
      BY <2>1, <2>2, <2>6, RepliedType DEF FinishSignedOut, TypeOK, procVars
    <2> QED BY <1>2, <2>3, <2>4, <2>5, <2>6 DEF Finish
  <1>3. ASSUME NEW request \in conn.running, ReadHistory(request) PROVE TypeOK'
    <2>1. [conn EXCEPT !.read[request.n] = disk] \in Conns
      BY <1>0 DEF Conns
    <2> QED BY <1>3, <2>1 DEF ReadHistory, TypeOK, procVars
  <1> QED BY <1>1, <1>2, <1>3

\* The steps a process takes of its own.
Lives(p) ==
    \/ LaunchApp(p) \/ Boot(p) \/ Up(p) \/ Quit(p) \/ Stop(p)
    \/ Exit(p) \/ ForceExit(p) \/ PortTaken(p) \/ Crash(p)

LEMMA Ends ==
  ASSUME NEW p \in Procs, Exit(p) \/ ForceExit(p) \/ PortTaken(p) \/ Crash(p)
  PROVE  \E hook \in BOOLEAN : End(p, hook)
  BY DEF Exit, ForceExit, PortTaken, Crash

LEMMA ProcessType ==
  ASSUME TypeOK, NEW p \in Procs, Lives(p)
  PROVE  TypeOK'
  <1> DEFINE Locks == [pid : 0 .. MaxPids, startedAt : 0 .. MaxLaunches]
  <1>0. procs \in [Procs -> Processes] /\ lock \in Locks
        /\ procs[p].pid \in 0 .. MaxPids /\ procs[p].run \in 0 .. MaxLaunches
    BY DEF TypeOK, Processes
  <1>a. NoLock \in Locks /\ Off \in Processes /\ FreePids \subseteq 0 .. MaxPids
    BY Bounds DEF NoLock, Off, Processes, FreePids, Unused
  <1>b. \A pid \in 0 .. MaxPids, run \in 0 .. MaxLaunches :
           Announced(pid, run) => lock' \in Locks /\ overlapped' \in BOOLEAN
    BY DEF Announced
  <1>1. ASSUME NEW phase \in {"booting", "up", "local"}, NEW pid \in FreePids, Enter(p, phase, pid)
        PROVE  procs' \in [Procs -> Processes] /\ launches' \in 0 .. MaxLaunches
    <2>1. launches' = launches + 1 /\ launches' \in 0 .. MaxLaunches
      BY <1>1, Bounds DEF Enter, TypeOK
    <2>2. [phase |-> phase, pid |-> pid, run |-> launches'] \in Processes
      BY <1>a, <2>1 DEF Processes
    <2> QED BY <1>0, <1>1, <2>1, <2>2 DEF Enter
  <1>2. CASE LaunchApp(p)
    <2>1. PICK pid \in FreePids, phase \in {"booting", "up", "local"} : Enter(p, phase, pid)
      BY <1>2 DEF LaunchApp
    <2> QED BY <1>1, <1>2, <2>1 DEF LaunchApp, TypeOK
  <1>3. CASE Up(p)
    <2>1. PICK pid \in FreePids : Enter(p, "up", pid) /\ Announced(pid, launches')
      BY <1>3 DEF Up
    <2>2. procs' \in [Procs -> Processes] /\ launches' \in 0 .. MaxLaunches
      BY <1>1, <2>1
    <2>3. lock' \in Locks /\ overlapped' \in BOOLEAN
      BY <1>a, <1>b, <2>1, <2>2
    <2> QED BY <1>3, <2>2, <2>3 DEF Up, TypeOK
  <1>4. CASE Boot(p) \/ Quit(p)
    <2>1. \A phase \in {"up", "draining"} : [procs EXCEPT ![p].phase = phase] \in [Procs -> Processes]
      BY <1>0 DEF Processes
    <2>2. lock' \in Locks /\ overlapped' \in BOOLEAN
      BY <1>0, <1>4, <1>b DEF Boot, Quit, TypeOK
    <2> QED BY <1>4, <2>1, <2>2 DEF Boot, Quit, TypeOK
  <1>5. CASE Stop(p)
    <2>1. [procs EXCEPT ![p].phase = "drained"] \in [Procs -> Processes]
      BY <1>0 DEF Processes
    <2>2. conn \in Conns /\ [conn EXCEPT !.closed = TRUE] \in Conns
      BY DEF TypeOK, Conns
    <2> QED BY <1>5, <1>a, <2>1, <2>2 DEF Stop, LockAfterStop, TypeOK
  <1>6. ASSUME NEW hook \in BOOLEAN, End(p, hook) PROVE TypeOK'
    <2>1. procs' \in [Procs -> Processes]
      BY <1>0, <1>6, <1>a DEF End
    <2>2. HangupOf(p) /\ lock' \in Locks
      BY <1>0, <1>6, <1>a DEF End
    <2>3. log' \subseteq 1 .. MaxPrompts /\ disk' \subseteq log'
      BY <1>6 DEF End, TypeOK
    <2> QED BY <1>6, <2>1, <2>2, <2>3, HangupType DEF End, TypeOK
  <1> QED BY <1>2, <1>3, <1>4, <1>5, <1>6, Ends DEF Lives

LEMMA TypeStep == TypeOK /\ [Next]_vars => TypeOK'
  <1> SUFFICES ASSUME TypeOK, [Next]_vars PROVE TypeOK'
    OBVIOUS
  <1>1. CASE UNCHANGED vars
    BY <1>1 DEF vars, procVars, TypeOK
  <1>2. ASSUME NEW p \in Procs, Lives(p) \/ Connect(p) PROVE TypeOK'
    BY <1>2, ProcessType, PageType
  <1>3. ASSUME NEW request \in conn.running, ReadHistory(request) \/ Finish(request) PROVE TypeOK'
    BY <1>3, HandlerType
  <1>4. CASE Elsewhere
    <2>1. others' \subseteq 1 .. MaxPids
      BY <1>4 DEF Elsewhere, OtherStarts, OtherEnds, FreePids, Unused, TypeOK
    <2> QED BY <1>4, <2>1 DEF Elsewhere, TypeOK
  <1>5. ASSUME NEW n \in 1 .. MaxPrompts, Write(n) PROVE TypeOK'
    BY <1>5 DEF Write, TypeOK, procVars
  <1> QED BY <1>1, <1>2, <1>3, <1>4, <1>5, PageType, HandlerType DEF Next, Lives

(* Processes, lock, connection and page keep their types, whatever is      *)
(* launched, crashes or hangs up (daemon-lock.ts; daemon-rpc.ts).          *)
THEOREM TypeCorrect == Spec => []TypeOK
  BY TypeInit, TypeStep, PTL DEF Spec

-----------------------------------------------------------------------------
(* The lock.                                                               *)

LockInv == TypeOK /\ Numbered /\ LockIsTrue

LEMMA LockInit == Init => LockInv
  <1> SUFFICES ASSUME Init PROVE LockInv
    OBVIOUS
  <1>1. \A p \in Procs : procs[p] = Off /\ procs[p].run = 0 /\ procs[p].phase = "off"
    BY DEF Init, Off
  <1>2. launches = 0 /\ lock.startedAt = 0
    BY DEF Init, NoLock
  <1>3. Daemons = {}
    BY <1>1 DEF Daemons
  <1> QED BY <1>1, <1>2, <1>3, TypeInit DEF LockInv, Numbered, LockIsTrue

\* What the lock's proofs know of a state.
LEMMA LockFacts ==
  ASSUME LockInv
  PROVE  /\ launches \in Nat /\ lock.startedAt \in 0 .. launches
         /\ \A q \in Procs : procs[q].run \in 0 .. launches /\ (procs[q] # Off => procs[q].run \in 1 .. launches)
         /\ DOMAIN procs = Procs
         /\ \A q \in Procs : procs[q] \in Processes
         /\ \A q \in Procs : q \in Daemons <=> procs[q].phase \in {"up", "draining", "drained"}
  BY Bounds DEF LockInv, TypeOK, Processes, Numbered, Off, Daemons

\* A start() that finds no daemon beside it makes its own the only one.
LEMMA StartLock ==
  ASSUME LockInv, NEW p \in Procs, NEW pid, NEW run \in 1 .. launches', launches' \in {launches, launches + 1},
         procs' = [procs EXCEPT ![p] = [phase |-> "up", pid |-> pid, run |-> run]],
         \A q \in Procs \ {p} : procs[q].run # run,
         Announced(pid, run)
  PROVE  (Numbered /\ LockIsTrue)'
  <1>0. /\ procs'[p].phase = "up" /\ procs'[p].pid = pid /\ procs'[p].run = run
        /\ \A q \in Procs \ {p} : procs'[q] = procs[q]
    BY LockFacts
  <1>1. lock' = [pid |-> pid, startedAt |-> run] /\ overlapped' = (Daemons # {}) /\ lock'.startedAt = run
    BY DEF Announced
  <1>2. \A q \in Procs : procs'[q] = Off \/ (procs'[q].run \in 1 .. launches' /\ procs'[q].phase # "off")
    <2>1. 1 .. launches \subseteq 1 .. launches'
      BY LockFacts
    <2> QED BY <1>0, <2>1 DEF LockInv, Numbered
  <1>3. \A q, r \in Procs : q # r /\ procs'[q].run = procs'[r].run => procs'[q].run = 0
    BY <1>0 DEF LockInv, Numbered
  <1>4. lock'.startedAt <= launches'
    BY <1>1, LockFacts
  <1>5. \A q \in Procs \ {p} : q \in Daemons' => overlapped'
    BY <1>0, <1>1, LockFacts DEF Daemons
  <1>6. ~overlapped' => \A q, r \in Daemons' : q = r
    BY <1>5 DEF Daemons
  <1>7. \A q \in Procs : procs'[q] # Off /\ procs'[q].run = lock'.startedAt => procs'[q].phase \in {"up", "draining"}
    BY <1>0, <1>1
  <1>8. \A q \in Procs : ~overlapped' /\ procs'[q].phase \in {"up", "draining"} =>
                            lock' = [pid |-> procs'[q].pid, startedAt |-> procs'[q].run]
    BY <1>0, <1>1, <1>5 DEF Daemons
  <1> QED BY <1>2, <1>3, <1>4, <1>6, <1>7, <1>8 DEF Numbered, LockIsTrue

\* An app that is launched is a launch of its own, and no daemon yet.
LEMMA EnterLock ==
  ASSUME LockInv, NEW p \in Procs, NEW phase \in {"booting", "local"}, NEW pid \in FreePids,
         Enter(p, phase, pid), UNCHANGED <<lock, overlapped>>
  PROVE  (Numbered /\ LockIsTrue)'
  <1>1. launches' = launches + 1 /\ launches \in Nat
    BY LockFacts DEF Enter
  <1>2. /\ procs'[p].run = launches + 1 /\ procs'[p].phase = phase
        /\ \A q \in Procs \ {p} : procs'[q] = procs[q]
    BY <1>1, LockFacts DEF Enter
  <1>3. \A q \in Procs : procs'[q] = Off \/ (procs'[q].run \in 1 .. launches' /\ procs'[q].phase # "off")
    BY <1>1, <1>2 DEF LockInv, Numbered
  <1>4. \A q, r \in Procs : q # r /\ procs'[q].run = procs'[r].run => procs'[q].run = 0
    BY <1>1, <1>2, LockFacts DEF LockInv, Numbered
  <1>5. lock'.startedAt <= launches'
    BY <1>1, LockFacts
  <1>6. Daemons' \subseteq Daemons
    BY <1>2 DEF Daemons
  <1>7. \A q \in Procs : procs'[q] # Off /\ procs'[q].run = lock'.startedAt => procs'[q].phase \in {"up", "draining"}
    BY <1>1, <1>2, LockFacts DEF LockInv, LockIsTrue
  <1>8. \A q \in Procs : ~overlapped' /\ procs'[q].phase \in {"up", "draining"} =>
                            lock' = [pid |-> procs'[q].pid, startedAt |-> procs'[q].run]
    BY <1>2 DEF LockInv, LockIsTrue
  <1> QED BY <1>3, <1>4, <1>5, <1>6, <1>7, <1>8 DEF LockInv, Numbered, LockIsTrue

\* A daemon that goes on, or a process that leaves.
LEMMA MoveLock ==
  ASSUME LockInv, NEW p \in Procs, UNCHANGED <<launches, overlapped>>,
         \A q \in Procs \ {p} : procs'[q] = procs[q],
         \/ procs'[p] = Off /\ lock' = lock
         \/ procs'[p] = Off /\ lock' = NoLock /\ p \in Daemons
         \/ /\ procs[p].phase \in {"up", "draining"} /\ procs'[p].phase \in {"draining", "drained"}
            /\ procs'[p].pid = procs[p].pid /\ procs'[p].run = procs[p].run
            /\ procs'[p].phase = "draining" => procs[p].phase = "up" /\ lock' = lock
            /\ procs'[p].phase = "drained" => lock' = NoLock
  PROVE  (Numbered /\ LockIsTrue)'
  <1>0. Off.run = 0 /\ Off.phase = "off" /\ NoLock.startedAt = 0
    BY DEF Off, NoLock
  <1>1. procs'[p] = Off \/ (procs[p] # Off /\ procs'[p].run = procs[p].run /\ procs'[p].phase # "off")
    BY <1>0
  <1>2. lock' = lock \/ (lock' = NoLock /\ p \in Daemons)
    BY LockFacts
  <1>3. \A q \in Procs : procs'[q] = Off \/ (procs'[q].run \in 1 .. launches' /\ procs'[q].phase # "off")
    BY <1>1 DEF LockInv, Numbered
  <1>4. \A q, r \in Procs : q # r /\ procs'[q].run = procs'[r].run => procs'[q].run = 0
    BY <1>0, <1>1 DEF LockInv, Numbered
  <1>5. lock'.startedAt <= launches'
    BY <1>0, <1>2, LockFacts
  <1>6. Daemons' \subseteq Daemons
    BY <1>0 DEF Daemons
  <1>7. \A q \in Procs : procs'[q] # Off /\ procs'[q].run = lock'.startedAt => procs'[q].phase \in {"up", "draining"}
    <2> TAKE q \in Procs
    <2> HAVE procs'[q] # Off /\ procs'[q].run = lock'.startedAt
    <2>1. lock' # NoLock
      BY <1>0, <1>3, LockFacts
    <2>2. CASE q = p
      BY <2>1, <2>2, <1>0
    <2>3. CASE q # p
      BY <1>2, <2>1, <2>3 DEF LockInv, LockIsTrue
    <2> QED BY <2>2, <2>3
  <1>8. \A q \in Procs : ~overlapped' /\ procs'[q].phase \in {"up", "draining"} =>
                            lock' = [pid |-> procs'[q].pid, startedAt |-> procs'[q].run]
    <2> TAKE q \in Procs
    <2> HAVE ~overlapped' /\ procs'[q].phase \in {"up", "draining"}
    <2>1. CASE q = p
      <3>1. procs[p].phase = "up" /\ lock' = lock /\ procs'[p].pid = procs[p].pid /\ procs'[p].run = procs[p].run
        BY <1>0, <2>1
      <3> QED BY <2>1, <3>1 DEF LockInv, LockIsTrue
    <2>2. CASE q # p
      <3>1. procs[q].phase \in {"up", "draining"} /\ q \in Daemons
        BY <2>2, LockFacts
      <3>2. lock' = lock
        BY <1>2, <2>2, <3>1 DEF LockInv, Numbered
      <3> QED BY <2>2, <3>1, <3>2 DEF LockInv, LockIsTrue
    <2> QED BY <2>1, <2>2
  <1> QED BY <1>3, <1>4, <1>5, <1>6, <1>7, <1>8 DEF LockInv, Numbered, LockIsTrue

LEMMA LivesLock ==
  ASSUME LockInv, NEW p \in Procs, Lives(p)
  PROVE  (Numbered /\ LockIsTrue)'
  <1>1. CASE LaunchApp(p)
    <2>1. PICK pid \in FreePids, phase \in {"booting", "local"} : Enter(p, phase, pid)
      BY <1>1 DEF LaunchApp
    <2> QED BY <1>1, <2>1, EnterLock DEF LaunchApp
  <1>2. CASE Up(p)
    <2>1. PICK pid \in FreePids : Enter(p, "up", pid) /\ Announced(pid, launches')
      BY <1>2 DEF Up
    <2>2. /\ launches' = launches + 1 /\ launches' \in 1 .. launches'
          /\ procs' = [procs EXCEPT ![p] = [phase |-> "up", pid |-> pid, run |-> launches']]
      BY <2>1, LockFacts DEF Enter
    <2>3. PICK run \in 1 .. launches' : run = launches'
      BY <2>2
    <2>4. \A q \in Procs \ {p} : procs[q].run # run
      BY <2>2, <2>3, LockFacts
    <2> QED BY <2>1, <2>2, <2>3, <2>4, StartLock
  <1>3. CASE Boot(p)
    <2>1. PICK pid, run : pid = procs[p].pid /\ run = procs[p].run
      OBVIOUS
    <2>2. procs' = [procs EXCEPT ![p] = [phase |-> "up", pid |-> pid, run |-> run]]
      <3>1. [procs[p] EXCEPT !.phase = "up"] = [phase |-> "up", pid |-> pid, run |-> run]
        BY <2>1, LockFacts DEF Processes
      <3>2. procs' = [procs EXCEPT ![p] = [procs[p] EXCEPT !.phase = "up"]]
        BY <1>3 DEF Boot
      <3> QED BY <3>1, <3>2
    <2>3. procs[p] # Off /\ launches' = launches
      BY <1>3 DEF Boot, Off
    <2>4. run \in 1 .. launches'
      BY <2>1, <2>3, LockFacts
    <2>5. \A q \in Procs \ {p} : procs[q].run # run
      BY <2>1, <2>3, <2>4 DEF LockInv, Numbered
    <2>6. Announced(pid, run)
      BY <1>3, <2>1 DEF Boot
    <2> QED BY <2>2, <2>3, <2>4, <2>5, <2>6, StartLock
  <1>4. CASE Quit(p) \/ Stop(p)
    <2>1. PICK phase \in {"draining", "drained"} :
            /\ procs' = [procs EXCEPT ![p].phase = phase] /\ UNCHANGED <<launches, overlapped>>
            /\ \/ phase = "draining" /\ procs[p].phase = "up" /\ lock' = lock
               \/ phase = "drained" /\ procs[p].phase = "draining" /\ lock' = NoLock
      BY <1>4 DEF Quit, Stop, LockAfterStop
    <2>2. /\ procs'[p].phase = phase /\ procs'[p].pid = procs[p].pid /\ procs'[p].run = procs[p].run
          /\ \A q \in Procs \ {p} : procs'[q] = procs[q]
      BY <2>1, LockFacts DEF Processes
    <2> QED BY <2>1, <2>2, MoveLock
  <1>5. CASE Exit(p) \/ ForceExit(p) \/ PortTaken(p) \/ Crash(p)
    <2>1. PICK hook \in BOOLEAN : End(p, hook) /\ (hook => p \in Daemons)
      BY <1>5, LockFacts DEF Exit, ForceExit, PortTaken, Crash
    <2>2. /\ procs'[p] = Off /\ \A q \in Procs \ {p} : procs'[q] = procs[q]
          /\ UNCHANGED <<launches, overlapped>> /\ (lock' = lock \/ (p \in Daemons /\ lock' = NoLock))
      BY <2>1, LockFacts DEF End
    <2> QED BY <2>2, MoveLock
  <1> QED BY <1>1, <1>2, <1>3, <1>4, <1>5 DEF Lives

LEMMA LockStep == LockInv /\ [Next]_vars => LockInv'
  <1> SUFFICES ASSUME LockInv, [Next]_vars PROVE (Numbered /\ LockIsTrue)'
    BY TypeStep DEF LockInv
  <1>1. CASE UNCHANGED <<procs, launches, lock, overlapped>>
    BY <1>1 DEF LockInv, Numbered, LockIsTrue, Daemons
  <1>2. ASSUME NEW p \in Procs, Lives(p) PROVE (Numbered /\ LockIsTrue)'
    BY <1>2, LivesLock
  <1>3. ASSUME NEW p \in Procs, Connect(p) PROVE UNCHANGED procVars
    BY <1>3 DEF Connect
  <1>4. ASSUME NEW request \in conn.running, ReadHistory(request) \/ Finish(request)
        PROVE  UNCHANGED procVars
    BY <1>4 DEF ReadHistory, Finish, Fail, FinishSubscribe, FinishPrompt, FinishSignedOut
  <1>5. Drop \/ OpenTranscript \/ CloseTranscript \/ SendPrompt \/ OnFrame \/ Dispatch \/ UNCHANGED vars
        => UNCHANGED procVars
    BY DEF Drop, OpenTranscript, CloseTranscript, SendPrompt, OnFrame, Dispatch, vars
  <1>6. ASSUME NEW n \in 1 .. MaxPrompts, Write(n) PROVE UNCHANGED procVars
    BY <1>6 DEF Write
  <1>7. UNCHANGED procVars \/ Elsewhere => UNCHANGED <<procs, launches, lock, overlapped>>
    BY DEF procVars, Elsewhere
  <1> QED BY <1>1, <1>2, <1>3, <1>4, <1>5, <1>6, <1>7 DEF Next, Lives

(* Whatever twins are launched, crash or delete the file late, and         *)
(* whoever gets their numbers: a lock whose writer lives is that of a      *)
(* daemon that answers, and a daemon that overlapped with none is the one  *)
(* the lock names (daemon-lock.ts; pair-command.ts).                       *)
THEOREM LockIsTrusted == Spec => []LockIsTrue
  <1>1. Spec => []LockInv
    BY LockInit, LockStep, PTL DEF Spec
  <1> QED BY <1>1, PTL DEF LockInv

-----------------------------------------------------------------------------
(* The bubbles.                                                            *)

BubbleInv == LockInv /\ Ordered

\* Requests and frames of different kinds differ.
LEMMA Distinct ==
    /\ \A n, m : /\ Prompt(n) # Subscribe(m)
                 /\ Prompt(n) = Prompt(m) => n = m
                 /\ Subscribe(n) = Subscribe(m) => n = m
    /\ \A n, m : Request("unsubscribe", n) # Prompt(m) /\ Request("unsubscribe", n) # Subscribe(m)
    /\ \A n, m : Request("list", n) # Prompt(m) /\ Request("list", n) # Subscribe(m)
    /\ \A n : /\ Prompt(n).kind = "prompt" /\ Prompt(n).n = n
              /\ Subscribe(n).kind = "subscribe" /\ Subscribe(n).n = n
              /\ Request("list", n).kind = "list"
              /\ Request("unsubscribe", n).kind = "unsubscribe" /\ Request("unsubscribe", n).n = n
              /\ Bubble(n).to.kind = "append" /\ Bubble(n).rows = {n}
  BY DEF Prompt, Subscribe, Request, Bubble, Answer

LEMMA ConnFacts ==
  ASSUME TypeOK
  PROVE  /\ conn \in Conns /\ page \in Pages /\ log \subseteq 1 .. MaxPrompts /\ prompts \in Nat
         /\ conn.up \in Seq(AllRequests) /\ conn.down \in Seq(Frames)
         /\ DOMAIN conn.up = 1 .. Len(conn.up) /\ DOMAIN conn.down = 1 .. Len(conn.down)
         /\ Len(conn.up) \in Nat /\ Len(conn.down) \in Nat
         /\ \A i \in 1 .. Len(conn.up) : conn.up[i] \in AllRequests
         /\ \A i \in 1 .. Len(conn.down) : conn.down[i] \in Frames
         /\ conn.running \subseteq AllRequests
         /\ conn.closed \in BOOLEAN /\ conn.sub \in BOOLEAN
         /\ page.entry \in 0 .. MaxEntries /\ page.entries \in 0 .. MaxEntries
         /\ page.attached \in 0 .. MaxEntries
  <1>1. conn \in Conns /\ page \in Pages /\ log \subseteq 1 .. MaxPrompts /\ prompts \in Nat
    BY Bounds DEF TypeOK
  <1>2. /\ conn.up \in Seq(AllRequests) /\ conn.down \in Seq(Frames)
        /\ conn.running \subseteq AllRequests
        /\ conn.closed \in BOOLEAN /\ conn.sub \in BOOLEAN
    BY <1>1 DEF Conns
  <1>3. /\ page.entry \in 0 .. MaxEntries /\ page.entries \in 0 .. MaxEntries
        /\ page.attached \in 0 .. MaxEntries
    BY <1>1 DEF Pages
  <1> QED BY <1>1, <1>2, <1>3

LEMMA BubbleInit == Init => BubbleInv
  <1> SUFFICES ASSUME Init PROVE Ordered
    BY LockInit DEF BubbleInv
  <1>1. conn = NoConn /\ page = NewPage /\ log = {}
    BY DEF Init
  <1>2. conn.up = <<>> /\ conn.down = <<>> /\ conn.running = {} /\ conn.host = 0
    BY <1>1 DEF NoConn
  <1>3. page.attached = 0 /\ page.entry = 0 /\ page.entries = 0 /\ page.acked = {}
    BY <1>1 DEF NewPage
  <1>4. Connected
    BY <1>1, <1>2, <1>3 DEF Connected, Open
  <1>5. Once
    BY <1>1, <1>2, <1>3 DEF Once, Silent, Underway
  <1>6. Opened /\ InOrder /\ Owed
    BY <1>2, <1>3 DEF Opened, InOrder, Owed, Underway
  <1> QED BY <1>4, <1>5, <1>6 DEF Ordered

\* A connection that just began, or ended, has said nothing yet.
LEMMA QuietOrdered ==
  ASSUME BubbleInv, TypeOK',
         conn'.down = <<>>, conn'.running = {},
         \A i \in DOMAIN conn'.up : \/ conn'.up[i].kind = "list"
                                    \/ conn'.up[i] = Subscribe(page.entry),
         conn' = NoConn \/ (conn'.host # 0 /\ ~page'.timer),
         page'.attached = 0, page'.entry = page.entry, page'.entries = page.entries,
         page'.acked = page.acked, log' \subseteq log, UNCHANGED prompts
  PROVE  Ordered'
  <1>0. \A i \in DOMAIN conn'.up : conn'.up[i].kind \notin {"prompt", "unsubscribe"}
    BY Distinct
  <1>1. \A n : ~Underway(Prompt(n))'
    BY <1>0, Distinct DEF Underway
  <1>2. Connected'
    BY DEF Connected, Open, BubbleInv, Ordered, NoConn
  <1>3. Once'
    <2>1. \A n \in 1 .. MaxPrompts : n > prompts => n \notin log' /\ n \notin page'.acked
      BY DEF BubbleInv, Ordered, Once, Silent
    <2>2. \A n : \A i \in DOMAIN conn'.up : conn'.up[i] # Prompt(n)
      BY <1>0, Distinct
    <2>3. \A n : n \notin page'.acked => Silent(n)'
      BY DEF Silent
    <2> QED BY <1>1, <2>1, <2>2, <2>3 DEF Once
  <1>4. Opened'
    <2>1. \A n \in 1 .. MaxEntries : Underway(Subscribe(n))' => n = page.entry
      BY Distinct DEF Underway
    <2> QED BY <1>0, <2>1, ConnFacts DEF Opened, BubbleInv, Ordered, Connected, LockInv
  <1>5. InOrder' /\ Owed'
    BY <1>0 DEF InOrder, Owed
  <1> QED BY <1>2, <1>3, <1>4, <1>5 DEF Ordered

LEMMA HangupOrdered ==
  ASSUME BubbleInv, TypeOK', Hangup, log' \subseteq log, UNCHANGED prompts
  PROVE  Ordered'
  <1>1. conn' = NoConn /\ conn'.down = <<>> /\ conn'.running = {} /\ conn'.up = <<>>
    BY DEF Hangup, NoConn
  <1>2. page'.attached = 0 /\ page'.entry = page.entry /\ page'.entries = page.entries
        /\ page'.acked = page.acked
    BY DEF Hangup, Lost, BubbleInv, LockInv, TypeOK, Pages
  <1> QED BY <1>1, <1>2, QuietOrdered

LEMMA ConnectOrdered ==
  ASSUME BubbleInv, TypeOK', NEW p \in Procs, Connect(p)
  PROVE  Ordered'
  <1>0. page \in Pages
    BY DEF BubbleInv, LockInv, TypeOK
  <1>1. procs[p].run # 0
    <2>1. procs[p] # Off
      BY DEF Connect, Serving, Off
    <2>2. launches \in Nat
      BY Bounds DEF BubbleInv, LockInv, TypeOK
    <2> QED BY <2>1, <2>2 DEF BubbleInv, LockInv, Numbered
  <1>2. /\ conn' = Queued([NoConn EXCEPT !.host = procs[p].run], Reissued(page))
        /\ page' = [Sent(page, Reissued(page)) EXCEPT !.timer = FALSE]
        /\ UNCHANGED <<log, prompts>>
    BY DEF Connect
  <1>3. conn'.down = <<>> /\ conn'.running = {} /\ conn'.up = <<>> \o Reissued(page)
        /\ conn'.host = procs[p].run
    BY <1>2 DEF Queued, NoConn
  <1>4. page'.attached = page.attached /\ page'.entry = page.entry /\ page'.entries = page.entries
        /\ page'.acked = page.acked /\ page'.timer = FALSE
    BY <1>0, <1>2 DEF Sent, Pages
  <1>5. page.attached = 0
    BY DEF Connect, BubbleInv, Ordered, Connected
  <1>6. conn'.up = Reissued(page)
    BY <1>0, <1>3, ReissuedType
  <1>7. \A i \in DOMAIN Reissued(page) :
           Reissued(page)[i].kind = "list" \/ Reissued(page)[i] = Subscribe(page.entry)
    BY Distinct DEF Reissued, Subscribe
  <1> QED BY <1>1, <1>2, <1>3, <1>4, <1>5, <1>6, <1>7, QuietOrdered

\* Nothing moved on the connection; the history may have lost its tail.
LEMMA StillOrdered ==
  ASSUME BubbleInv, UNCHANGED <<page, prompts>>, log' \subseteq log, missed' = missed,
         \/ conn' = conn
         \/ Open /\ conn' = [conn EXCEPT !.closed = TRUE]
         \/ Open /\ \E read : conn' = [conn EXCEPT !.read = read]
  PROVE  Ordered'
  <1>0. /\ conn'.up = conn.up /\ conn'.running = conn.running /\ conn'.down = conn.down
        /\ conn'.sub = conn.sub /\ (conn.closed => conn'.closed) /\ conn'.host = conn.host
        /\ (~Open => conn' = conn)
    BY DEF BubbleInv, LockInv, TypeOK, Conns
  <1>1. Connected'
    BY <1>0 DEF BubbleInv, Ordered, Connected, Open
  <1>2. \A r : Underway(r)' = Underway(r)
    BY <1>0 DEF Underway
  <1>3. \A i, n : Acks(i, n)' = Acks(i, n)
    BY <1>0 DEF Acks
  <1>4. \A i : Snapshot(i)' = Snapshot(i)
    BY <1>0 DEF Snapshot
  <1>5. \A n : Silent(n)' = Silent(n)
    BY <1>0, <1>3 DEF Silent
  <1>6. Once'
    BY <1>0, <1>2, <1>5 DEF BubbleInv, Ordered, Once
  <1>7. Opened'
    BY <1>0, <1>2 DEF BubbleInv, Ordered, Opened
  <1>8. InOrder'
    BY <1>0, <1>4 DEF BubbleInv, Ordered, InOrder
  <1>9. \A k, rows : Told(k, rows) => Told(k, rows)'
    BY <1>0, <1>3 DEF Told, Recalled
  <1>10. Owed'
    BY <1>0, <1>4, <1>9 DEF BubbleInv, Ordered, Owed
  <1> QED BY <1>1, <1>6, <1>7, <1>8, <1>10 DEF Ordered

\* How a request joins the queue, and what it leaves alone.
LEMMA Issues ==
  ASSUME BubbleInv, NEW pg \in Pages, NEW r \in AllRequests, Issue(pg, <<r>>)
  PROVE  /\ page'.attached = pg.attached /\ page'.entry = pg.entry /\ page'.entries = pg.entries
         /\ page'.acked = pg.acked /\ page'.rows = pg.rows /\ page'.timer = pg.timer
         /\ conn'.host = conn.host /\ conn'.running = conn.running /\ conn'.down = conn.down
         /\ conn'.sub = conn.sub /\ conn'.closed = conn.closed
         /\ ~Open => conn' = conn
         /\ \A i \in DOMAIN conn'.up : \/ i \in 1 .. Len(conn.up) /\ conn'.up[i] = conn.up[i]
                                       \/ i = Len(conn.up) + 1 /\ conn'.up[i] = r
  <1>0. conn \in Conns /\ conn.up \in Seq(AllRequests)
    BY DEF BubbleInv, LockInv, TypeOK, Conns
  <1>1. PICK rs \in Seq(AllRequests) : /\ page' = Sent(pg, rs) /\ conn' = Queued(conn, rs)
                                       /\ rs = IF Open THEN <<r>> ELSE <<>>
    <2>1. (IF Open THEN <<r>> ELSE <<>>) \in Seq(AllRequests)
      OBVIOUS
    <2> QED BY <2>1 DEF Issue
  <1>2. conn' = [conn EXCEPT !.up = conn.up \o rs]
    BY <1>1 DEF Queued
  <1>3. /\ page'.attached = pg.attached /\ page'.entry = pg.entry /\ page'.entries = pg.entries
        /\ page'.acked = pg.acked /\ page'.rows = pg.rows /\ page'.timer = pg.timer
    BY <1>1 DEF Sent, Pages
  <1>4. /\ conn'.host = conn.host /\ conn'.running = conn.running /\ conn'.down = conn.down
        /\ conn'.sub = conn.sub /\ conn'.closed = conn.closed /\ conn'.up = conn.up \o rs
    BY <1>0, <1>2 DEF Conns
  <1>5. ~Open => conn.up \o rs = conn.up
    BY <1>0, <1>1
  <1>6. ~Open => conn' = conn
    BY <1>0, <1>2, <1>5 DEF Conns
  <1>7. Open => conn'.up = conn.up \o <<r>>
    BY <1>1, <1>4
  <1>8. \A i \in DOMAIN conn'.up : \/ i \in 1 .. Len(conn.up) /\ conn'.up[i] = conn.up[i]
                                   \/ i = Len(conn.up) + 1 /\ conn'.up[i] = r
    <2>1. CASE Open
      <3>1. r \in AllRequests /\ conn'.up = conn.up \o <<r>>
        BY <1>7, <2>1
      <3> QED BY <1>0, <3>1, Joining
    <2>2. CASE ~Open
      <3>1. conn' = conn
        BY <1>6, <2>2
      <3>2. DOMAIN conn.up = 1 .. Len(conn.up)
        BY <1>0
      <3> QED BY <3>1, <3>2
    <2> QED BY <2>1, <2>2
  <1> QED BY <1>3, <1>4, <1>6, <1>8


\* What concerns the frames in flight is as it was, if they are.
LEMMA SameFrames ==
  ASSUME conn'.down = conn.down, page'.acked = page.acked
  PROVE  /\ \A n : Silent(n)' = Silent(n)
         /\ page'.entry = page.entry => \A i : Snapshot(i)' = Snapshot(i)
         /\ log' = log /\ missed' = missed => \A k, rows : Told(k, rows)' = Told(k, rows)
  <1>1. \A i, n : Acks(i, n)' = Acks(i, n)
    BY DEF Acks
  <1> QED BY <1>1 DEF Silent, Snapshot, Told, Recalled

LEMMA OpenOrdered ==
  ASSUME BubbleInv, OpenTranscript
  PROVE  Ordered'
  <1> DEFINE e == page.entries + 1
             pg == [page EXCEPT !.entry = e, !.entries = e]
  <1>0. /\ page.entry = 0 /\ page.entries < MaxEntries /\ UNCHANGED <<log, prompts>>
        /\ page.attached = 0 /\ Connected /\ Once /\ Opened /\ InOrder /\ Owed
    BY DEF OpenTranscript, BubbleInv, Ordered, Connected
  <1>a. TypeOK
    BY DEF BubbleInv, LockInv
  <1>1. e \in 1 .. MaxEntries /\ e \in 0 .. MaxEntries
    BY <1>0, <1>a, ConnFacts, Bounds
  <1>2. pg \in Pages /\ pg.entry = e /\ pg.entries = e /\ pg.attached = 0 /\ pg.acked = page.acked
        /\ pg.rows = page.rows /\ pg.timer = page.timer
    BY <1>0, <1>1, <1>a, ConnFacts DEF Pages
  <1>3. Issue(pg, <<Subscribe(e)>>)
    BY <1>2 DEF OpenTranscript, SubscribeSession, Subscribe
  <1> HIDE DEF pg
  <1>4. Subscribe(e) \in AllRequests
    BY <1>1, RequestTypes DEF Subscribe
  <1>5. /\ page'.attached = 0 /\ page'.entry = e /\ page'.entries = e
        /\ page'.acked = page.acked /\ page'.timer = page.timer
        /\ conn'.host = conn.host /\ conn'.running = conn.running /\ conn'.down = conn.down
        /\ conn'.sub = conn.sub /\ conn'.closed = conn.closed
        /\ ~Open => conn' = conn
    BY <1>2, <1>3, <1>4, Issues
  <1>6. \A i \in DOMAIN conn'.up : \/ i \in 1 .. Len(conn.up) /\ conn'.up[i] = conn.up[i]
                                   \/ i = Len(conn.up) + 1 /\ conn'.up[i] = Subscribe(e)
    BY <1>2, <1>3, <1>4, Issues
  <1> HIDE DEF e
  <1>7. Connected'
    BY <1>0, <1>1, <1>5 DEF Connected, Open
  <1>8. \A r : r # Subscribe(e) => (Underway(r)' => Underway(r))
    BY <1>5, <1>6, <1>a, ConnFacts DEF Underway
  <1>9. Once'
    <2>1. \A n : Underway(Prompt(n))' => Underway(Prompt(n))
      BY <1>8, Distinct
    <2>2. \A n, i : i \in DOMAIN conn'.up /\ conn'.up[i] = Prompt(n)
                       => i \in DOMAIN conn.up /\ conn.up[i] = Prompt(n)
      BY <1>6, <1>a, ConnFacts, Distinct
    <2> QED BY <1>0, <1>5, <2>1, <2>2, SameFrames DEF Once
  <1>10. Opened'
    <2>1. page.entries <= e /\ e <= e
      BY <1>a, ConnFacts DEF e
    <2>2. \A n \in 1 .. MaxEntries : Underway(Subscribe(n))' => n <= e
      <3> TAKE n \in 1 .. MaxEntries
      <3> HAVE Underway(Subscribe(n))'
      <3>1. CASE n = e
        BY <2>1, <3>1
      <3>2. CASE n # e
        BY <1>0, <1>1, <1>8, <1>a, <2>1, <3>2, ConnFacts, Distinct DEF Opened
      <3> QED BY <3>1, <3>2
    <2>3. \A i \in DOMAIN conn'.up : conn'.up[i].kind = "unsubscribe" => conn'.up[i].n <= e
      <3> TAKE i \in DOMAIN conn'.up
      <3> HAVE conn'.up[i].kind = "unsubscribe"
      <3>1. i \in 1 .. Len(conn.up) /\ conn'.up[i] = conn.up[i]
        BY <1>6, Distinct
      <3>2. conn.up[i] \in AllRequests /\ conn.up[i].kind = "unsubscribe"
        BY <1>a, <3>1, ConnFacts
      <3>3. conn.up[i].n \in Nat /\ conn.up[i].n <= page.entries
        BY <1>0, <1>a, <3>1, <3>2, ConnFacts DEF Opened, AllRequests
      <3> QED BY <1>1, <1>a, <2>1, <3>1, <3>3, ConnFacts
    <2>4. \A n \in 1 .. MaxEntries, i \in DOMAIN conn.down : conn.down[i].to = Subscribe(n) => n <= e
      BY <1>0, <1>1, <1>a, <2>1, ConnFacts DEF Opened
    <2> QED BY <1>5, <2>2, <2>3, <2>4 DEF Opened
  <1>11. \A i \in DOMAIN conn.down : conn.down[i].to # Subscribe(e)
    BY <1>0, <1>1, <1>a, ConnFacts DEF Opened, e
  <1>12. Subscribe(e) \notin conn.running /\ \A i \in DOMAIN conn.up : conn.up[i] # Subscribe(e)
    BY <1>0, <1>1, <1>a, ConnFacts DEF Opened, Underway, e
  <1>13. \A i \in DOMAIN conn'.down : ~Snapshot(i)'
    BY <1>5, <1>11 DEF Snapshot
  <1>14. InOrder'
    <2>1. SUFFICES ASSUME NEW i \in DOMAIN conn'.up, conn'.up[i].kind = "unsubscribe"
                   PROVE  /\ conn'.up[i].n # e
                          /\ \A j \in DOMAIN conn'.up : conn'.up[j] = Subscribe(e) => i < j
      BY <1>5, <1>12, <1>13 DEF InOrder
    <2>2. i \in 1 .. Len(conn.up) /\ conn'.up[i] = conn.up[i]
      BY <1>6, <2>1, Distinct
    <2>3. conn.up[i].n \in Nat /\ conn.up[i].n <= page.entries
      BY <1>0, <1>a, <2>1, <2>2, ConnFacts DEF Opened, AllRequests
    <2>4. conn.up[i].n # e
      BY <1>a, <2>3, ConnFacts DEF e
    <2>5. \A j \in DOMAIN conn'.up : conn'.up[j] = Subscribe(e) => j = Len(conn.up) + 1
      BY <1>6, <1>12, <1>a, ConnFacts
    <2> QED BY <1>a, <2>2, <2>4, <2>5, ConnFacts
  <1>15. Owed'
    BY <1>5, <1>13 DEF Owed
  <1> QED BY <1>7, <1>9, <1>10, <1>14, <1>15 DEF Ordered

LEMMA CloseOrdered ==
  ASSUME BubbleInv, CloseTranscript
  PROVE  Ordered'
  <1> DEFINE u == Request("unsubscribe", page.entry)
             pg == [page EXCEPT !.entry = 0, !.attached = 0, !.refused = 0, !.rows = {}]
  <1>a. TypeOK
    BY DEF BubbleInv, LockInv
  <1>0. /\ page.entry # 0 /\ UNCHANGED <<log, prompts>> /\ Issue(pg, <<u>>)
        /\ Connected /\ Once /\ Opened /\ InOrder /\ Owed
    BY DEF CloseTranscript, Unsubscribe, BubbleInv, Ordered
  <1>1. page.entry \in 1 .. MaxEntries /\ 0 \in 0 .. MaxEntries
    BY <1>0, <1>a, ConnFacts, Bounds
  <1>2. pg \in Pages /\ pg.entry = 0 /\ pg.entries = page.entries /\ pg.attached = 0
        /\ pg.acked = page.acked /\ pg.timer = page.timer
    BY <1>1, <1>a, ConnFacts DEF Pages
  <1>3. u \in AllRequests /\ u.kind = "unsubscribe" /\ u.n = page.entry
    BY <1>1, RequestTypes, Distinct
  <1> HIDE DEF pg
  <1>4. /\ page'.attached = 0 /\ page'.entry = 0 /\ page'.entries = page.entries
        /\ page'.acked = page.acked /\ page'.timer = page.timer
        /\ conn'.host = conn.host /\ conn'.running = conn.running /\ conn'.down = conn.down
        /\ conn'.sub = conn.sub /\ conn'.closed = conn.closed
        /\ ~Open => conn' = conn
    BY <1>0, <1>2, <1>3, Issues
  <1>5. \A i \in DOMAIN conn'.up : \/ i \in 1 .. Len(conn.up) /\ conn'.up[i] = conn.up[i]
                                   \/ i = Len(conn.up) + 1 /\ conn'.up[i] = u
    BY <1>0, <1>2, <1>3, Issues
  <1>6. \A n : u # Prompt(n) /\ u # Subscribe(n)
    BY Distinct
  <1> HIDE DEF u
  <1>7. Connected'
    BY <1>0, <1>4, <1>a, ConnFacts DEF Connected, Open
  <1>8. \A r : r # u => (Underway(r)' => Underway(r))
    BY <1>4, <1>5, <1>a, ConnFacts DEF Underway
  <1>9. Once'
    <2>1. \A n : Underway(Prompt(n))' => Underway(Prompt(n))
      BY <1>6, <1>8
    <2>2. \A n, i : i \in DOMAIN conn'.up /\ conn'.up[i] = Prompt(n)
                       => i \in DOMAIN conn.up /\ conn.up[i] = Prompt(n)
      BY <1>5, <1>6, <1>a, ConnFacts
    <2> QED BY <1>0, <1>4, <2>1, <2>2, SameFrames DEF Once
  <1>10. Opened'
    <2>1. \A n : Underway(Subscribe(n))' => Underway(Subscribe(n))
      BY <1>6, <1>8
    <2>2. \A i \in DOMAIN conn'.up : conn'.up[i].kind = "unsubscribe" => conn'.up[i].n <= page.entries
      BY <1>0, <1>3, <1>5, <1>a, ConnFacts DEF Opened, Connected
    <2> QED BY <1>0, <1>4, <2>1, <2>2 DEF Opened
  <1>11. Subscribe(0) \notin AllRequests
    BY DEF Subscribe, Request, AllRequests
  <1>12. \A i \in DOMAIN conn'.down : ~Snapshot(i)'
    <2> SUFFICES ASSUME NEW i \in 1 .. Len(conn.down), conn.down[i].to = Subscribe(0)
                 PROVE  FALSE
      BY <1>4, <1>a, ConnFacts DEF Snapshot
    <2>1. conn.down[i] \in Frames
      BY <1>a, ConnFacts
    <2> QED BY <1>11, <2>1 DEF Frames, Subscribe, Request
  <1>13. InOrder'
    <2>1. \A i \in DOMAIN conn'.up : conn'.up[i] \in AllRequests
      BY <1>3, <1>5, <1>a, ConnFacts
    <2>2. \A i \in DOMAIN conn'.up : conn'.up[i] # Subscribe(0)
      BY <1>11, <2>1
    <2>3. \A i \in DOMAIN conn'.up : conn'.up[i].kind = "unsubscribe" => conn'.up[i].n # 0
      BY <2>1 DEF AllRequests
    <2>4. Subscribe(0) \notin conn.running
      BY <1>11, <1>a, ConnFacts
    <2> QED BY <1>4, <1>12, <2>2, <2>3, <2>4 DEF InOrder
  <1>14. Owed'
    BY <1>4, <1>12 DEF Owed
  <1> QED BY <1>7, <1>9, <1>10, <1>13, <1>14 DEF Ordered

LEMMA SendOrdered ==
  ASSUME BubbleInv, SendPrompt
  PROVE  Ordered'
  <1> DEFINE m == prompts + 1
  <1>a. TypeOK
    BY DEF BubbleInv, LockInv
  <1>0. /\ Open /\ prompts < MaxPrompts /\ prompts' = m /\ log' = log /\ missed' = missed /\ Issue(page, <<Prompt(m)>>)
        /\ Connected /\ Once /\ Opened /\ InOrder /\ Owed
    BY DEF SendPrompt, BubbleInv, Ordered, Prompt
  <1>1. m \in 1 .. MaxPrompts /\ prompts \in Nat /\ page \in Pages
    BY <1>0, <1>a, ConnFacts, Bounds
  <1>2. Prompt(m) \in AllRequests
    BY <1>1, RequestTypes DEF Prompt
  <1>3. /\ page'.attached = page.attached /\ page'.entry = page.entry /\ page'.entries = page.entries
        /\ page'.acked = page.acked /\ page'.rows = page.rows /\ page'.timer = page.timer
        /\ conn'.host = conn.host /\ conn'.running = conn.running /\ conn'.down = conn.down
        /\ conn'.sub = conn.sub /\ conn'.closed = conn.closed
    BY <1>0, <1>1, <1>2, Issues
  <1>4. \A i \in DOMAIN conn'.up : \/ i \in 1 .. Len(conn.up) /\ conn'.up[i] = conn.up[i]
                                   \/ i = Len(conn.up) + 1 /\ conn'.up[i] = Prompt(m)
    BY <1>0, <1>1, <1>2, Issues
  <1>b. m > prompts
    BY <1>1
  <1>c. \A n \in 1 .. MaxPrompts : n <= prompts => n <= m /\ n # m
    BY <1>1
  <1> HIDE DEF m
  <1>5. Connected'
    BY <1>0, <1>3 DEF Connected, Open
  <1>6. \A r : r # Prompt(m) => (Underway(r)' => Underway(r))
    BY <1>3, <1>4, <1>a, ConnFacts DEF Underway
  <1>7. m \notin log /\ Silent(m) /\ ~Underway(Prompt(m))
    BY <1>0, <1>1, <1>b, <1>c DEF Once
  <1>8. Once'
    <2> SUFFICES ASSUME NEW n \in 1 .. MaxPrompts
                 PROVE  /\ Underway(Prompt(n))' => n <= prompts' /\ n \notin log' /\ Silent(n)'
                        /\ n > prompts' => n \notin log' /\ Silent(n)'
                        /\ \A i \in DOMAIN conn'.up : conn'.up[i] = Prompt(n) =>
                              /\ Prompt(n) \notin conn'.running
                              /\ \A j \in DOMAIN conn'.up : conn'.up[j] = Prompt(n) => i = j
      BY DEF Once
    <2>1. CASE n = m
      <3>1. \A i \in DOMAIN conn'.up : conn'.up[i] = Prompt(m) => i = Len(conn.up) + 1
        BY <1>4, <1>7, <1>a, ConnFacts DEF Underway
      <3> QED BY <1>0, <1>1, <1>3, <1>7, <2>1, <3>1, SameFrames DEF Underway
    <2>2. CASE n # m
      <3>1. Underway(Prompt(n))' => Underway(Prompt(n))
        BY <1>6, <2>2, Distinct
      <3>2. \A i \in DOMAIN conn'.up : conn'.up[i] = Prompt(n) => i \in DOMAIN conn.up /\ conn.up[i] = Prompt(n)
        BY <1>4, <1>a, <2>2, ConnFacts, Distinct
      <3>3. n > m => n > prompts
        BY <1>1, <1>b
      <3> QED BY <1>0, <1>3, <1>c, <3>1, <3>2, <3>3, SameFrames DEF Once
    <2> QED BY <2>1, <2>2
  <1>9. Opened'
    <2>1. \A n : Underway(Subscribe(n))' => Underway(Subscribe(n))
      BY <1>6, Distinct
    <2>2. \A i \in DOMAIN conn'.up : conn'.up[i].kind = "unsubscribe" => i \in DOMAIN conn.up /\ conn'.up[i] = conn.up[i]
      BY <1>4, <1>a, ConnFacts, Distinct
    <2> QED BY <1>0, <1>3, <2>1, <2>2 DEF Opened
  <1>10. InOrder'
    <2>1. \A i \in DOMAIN conn'.up : conn'.up[i].kind = "unsubscribe" \/ conn'.up[i] = Subscribe(page.entry)
                                     => i \in DOMAIN conn.up /\ conn'.up[i] = conn.up[i]
      BY <1>4, <1>a, ConnFacts, Distinct
    <2> QED BY <1>0, <1>3, <2>1, SameFrames DEF InOrder
  <1>11. Owed'
    BY <1>0, <1>3, SameFrames DEF Owed
  <1> QED BY <1>5, <1>8, <1>9, <1>10, <1>11 DEF Ordered


\* The first frame in flight is delivered.
LEMMA FirstFrame ==
  ASSUME BubbleInv, conn.down # <<>>, conn' = [conn EXCEPT !.down = Tail(@)]
  PROVE  /\ conn'.host = conn.host /\ conn'.running = conn.running /\ conn'.up = conn.up
         /\ conn'.sub = conn.sub /\ conn'.closed = conn.closed
         /\ 1 \in DOMAIN conn.down /\ Head(conn.down) = conn.down[1] /\ conn.down[1] \in Frames
         /\ \A i \in DOMAIN conn'.down : i + 1 \in DOMAIN conn.down /\ conn'.down[i] = conn.down[i + 1]
         /\ \A i \in DOMAIN conn.down \ {1} : i - 1 \in DOMAIN conn'.down /\ conn'.down[i - 1] = conn.down[i]
         /\ \A i \in DOMAIN conn'.down : i \in Nat \ {0}
         /\ \A i \in DOMAIN conn.down : i \in Nat \ {0}
  <1>1. conn \in Conns /\ conn.down \in Seq(Frames)
    BY ConnFacts DEF BubbleInv, LockInv
  <1>2. /\ conn'.host = conn.host /\ conn'.running = conn.running /\ conn'.up = conn.up
        /\ conn'.sub = conn.sub /\ conn'.closed = conn.closed /\ conn'.down = Tail(conn.down)
    BY <1>1 DEF Conns
  <1> DEFINE s == conn.down
  <1>3. s \in Seq(Frames) /\ s # <<>>
    BY <1>1
  <1> HIDE DEF s
  <1>4. /\ 1 \in DOMAIN s /\ Head(s) = s[1] /\ s[1] \in Frames
        /\ \A i \in DOMAIN Tail(s) : i + 1 \in DOMAIN s /\ Tail(s)[i] = s[i + 1]
        /\ \A i \in DOMAIN s \ {1} : i - 1 \in DOMAIN Tail(s) /\ Tail(s)[i - 1] = s[i]
        /\ \A i \in DOMAIN Tail(s) : i \in Nat \ {0}
        /\ \A i \in DOMAIN s : i \in Nat \ {0}
    BY <1>3
  <1> QED BY <1>2, <1>4 DEF s

\* What the first k + 1 frames showed is what the first k of the rest show,
\* if the page has only heard what the delivered one acknowledges.
LEMMA ToldLater ==
  ASSUME BubbleInv, conn.down # <<>>, conn' = [conn EXCEPT !.down = Tail(@)], log' = log, missed' = missed,
         \A n : n \in page'.acked => n \in page.acked \/ Acks(1, n)
  PROVE  /\ \A n : Silent(n) => Silent(n)'
         /\ \A k \in Nat \ {0} : \A rows : Told(k, rows) => Told(k - 1, rows)'
         /\ \A rows, more : Told(0, rows) /\ (\A n : conn.down[1] = Bubble(n) => n \in more)
                              => Told(0, rows \cup more)'
  <1>1. \A n : \A j \in DOMAIN conn'.down : Acks(j, n)' => Acks(j + 1, n) /\ j + 1 \in DOMAIN conn.down
    BY FirstFrame DEF Acks
  <1>2. 1 \in DOMAIN conn.down /\ \A i \in DOMAIN conn.down : i \in Nat \ {0}
    BY FirstFrame
  <1>a. Recalled' = Recalled
    BY DEF Recalled
  <1>3. ASSUME NEW k \in Nat, NEW rows, Told(k, rows), NEW n \in Recalled, n \notin rows,
               k # 0 \/ conn.down[1] # Bubble(n)
        PROVE  /\ n \notin page'.acked
               /\ \A j \in DOMAIN conn'.down : Acks(j, n)' =>
                    \E i \in DOMAIN conn'.down : k - 1 < i /\ i < j /\ conn'.down[i] = Bubble(n)
    <2>1. /\ n \notin page.acked
          /\ \A j \in DOMAIN conn.down : Acks(j, n) =>
                \E i \in DOMAIN conn.down : k < i /\ i < j /\ conn.down[i] = Bubble(n)
      BY <1>3 DEF Told
    <2>2. ~Acks(1, n)
      BY <1>2, <1>3, <2>1
    <2>3. ASSUME NEW j \in DOMAIN conn'.down, Acks(j, n)'
          PROVE  \E i \in DOMAIN conn'.down : k - 1 < i /\ i < j /\ conn'.down[i] = Bubble(n)
      <3>1. PICK i \in DOMAIN conn.down : k < i /\ i < j + 1 /\ conn.down[i] = Bubble(n)
        BY <1>1, <2>1, <2>3
      <3>2. i \in Nat /\ j \in Nat /\ i # 1
        BY <1>2, <1>3, <3>1, FirstFrame
      <3>3. i - 1 \in DOMAIN conn'.down /\ conn'.down[i - 1] = Bubble(n)
        BY <3>1, <3>2, FirstFrame
      <3>4. k - 1 < i - 1 /\ i - 1 < j
        BY <1>3, <3>1, <3>2
      <3> QED BY <3>3, <3>4
    <2> QED BY <2>1, <2>2, <2>3
  <1>4. \A n : Silent(n) => Silent(n)'
    BY <1>1, <1>2 DEF Silent
  <1>5. ASSUME NEW k \in Nat \ {0}, NEW rows, Told(k, rows) PROVE Told(k - 1, rows)'
    BY <1>3, <1>5, <1>a DEF Told
  <1>6. ASSUME NEW rows, NEW more, Told(0, rows), \A n : conn.down[1] = Bubble(n) => n \in more
        PROVE  Told(0, rows \cup more)'
    <2> SUFFICES ASSUME NEW n \in Recalled, n \notin rows, n \notin more
                 PROVE  /\ n \notin page'.acked
                        /\ \A j \in DOMAIN conn'.down : Acks(j, n)' =>
                             \E i \in DOMAIN conn'.down : 0 < i /\ i < j /\ conn'.down[i] = Bubble(n)
      BY <1>a DEF Told
    <2>1. conn.down[1] # Bubble(n)
      BY <1>6
    <2>2. /\ n \notin page'.acked
          /\ \A j \in DOMAIN conn'.down : Acks(j, n)' =>
               \E i \in DOMAIN conn'.down : 0 - 1 < i /\ i < j /\ conn'.down[i] = Bubble(n)
      <3>1. 0 \in Nat
        OBVIOUS
      <3> QED BY <1>3, <1>6, <2>1, <3>1
    <2>3. \A i \in DOMAIN conn'.down : 0 < i
      BY FirstFrame
    <2> QED BY <2>2, <2>3
  <1> QED BY <1>4, <1>5, <1>6

\* What a frame does to the page.
LEMMA Delivered ==
  ASSUME BubbleInv, OnFrame
  PROVE  LET frame == conn.down[1]
         IN /\ page'.entry = page.entry /\ page'.entries = page.entries /\ page'.timer = page.timer
            /\ \A n : n \in page'.acked => n \in page.acked \/ Acks(1, n)
            /\ \/ page'.attached = page.attached /\ page'.rows = page.rows
                  /\ (page.attached # 0 => frame.to.kind # "append")
               \/ page'.attached = page.attached /\ page'.rows = page.rows \cup frame.rows
               \/ Snapshot(1) /\ page'.attached = page.entry /\ page'.rows = frame.rows
  <1> DEFINE frame == conn.down[1]
             waiting == [page EXCEPT !.pending = @ \ {frame.to}]
  <1>0. page \in Pages /\ frame \in Frames /\ frame = Head(conn.down)
    BY FirstFrame DEF BubbleInv, LockInv, TypeOK, OnFrame
  <1>1. page' = IF frame.to.kind = "append" THEN Appended(page, frame) ELSE Resumed(waiting, frame)
    BY <1>0 DEF OnFrame
  <1>2. /\ waiting \in Pages /\ waiting.entry = page.entry /\ waiting.entries = page.entries
        /\ waiting.timer = page.timer /\ waiting.acked = page.acked
        /\ waiting.attached = page.attached /\ waiting.rows = page.rows
    BY <1>0 DEF Pages
  <1>3. page.attached # 0 => page.entry # 0
    BY DEF BubbleInv, Ordered, Connected
  <1>4. DOMAIN frame = {"to", "ok", "rows"} /\ frame.ok \in BOOLEAN
        /\ frame.to \in AllRequests \cup [kind : {"append"}, n : 1 .. MaxPrompts]
    BY <1>0 DEF Frames
  <1>5. Acks(1, frame.to.n) <=> (frame.to = Prompt(frame.to.n) /\ frame.ok)
    BY DEF Acks
  <1>6. Snapshot(1) <=> (frame.to = Subscribe(page.entry) /\ frame.ok)
    BY DEF Snapshot
  <1> HIDE DEF waiting, frame
  <1>7. CASE frame.to.kind = "append"
    <2>1. page' = Appended(page, frame)
      BY <1>1, <1>7
    <2> QED BY <1>0, <1>3, <2>1 DEF Appended, Pages, frame
  <1>8. CASE frame.to.kind # "append"
    <2>1. page' = Resumed(waiting, frame) /\ frame.to \in AllRequests
      BY <1>1, <1>4, <1>8
    <2>2. CASE frame.to.kind = "subscribe"
      <3>1. page' = Subscribed(waiting, frame)
        BY <2>1, <2>2 DEF Resumed
      <3>2. frame.to = Subscribe(frame.to.n)
        BY <2>1, <2>2, RequestKinds, Distinct DEF Subscribe, Request
      <3>3. CASE frame.to.n = page.entry /\ frame.ok
        BY <1>2, <1>6, <3>1, <3>2, <3>3 DEF Subscribed, Truncated, Pages, frame
      <3>4. CASE ~(frame.to.n = page.entry /\ frame.ok)
        BY <1>2, <1>8, <3>1, <3>4 DEF Subscribed, Pages, frame
      <3> QED BY <3>3, <3>4
    <2>3. CASE frame.to.kind = "prompt"
      <3>1. page' = Acked(waiting, frame)
        BY <2>1, <2>3 DEF Resumed
      <3>2. frame.to = Prompt(frame.to.n)
        BY <2>1, <2>3, RequestKinds, Distinct DEF Prompt, Request
      <3>3. \A n : n \in page'.acked => n \in page.acked \/ Acks(1, n)
        BY <1>2, <1>4, <1>5, <3>1, <3>2 DEF Acked, Pages
      <3> QED BY <1>2, <1>8, <3>1, <3>3 DEF Acked, Pages, frame
    <2>4. CASE frame.to.kind \in {"list", "unsubscribe"}
      <3>1. page' = waiting \/ page' = Listed(waiting)
        BY <2>1, <2>4 DEF Resumed
      <3> QED BY <1>2, <1>8, <3>1 DEF Listed, Pages, frame
    <2>5. frame.to.kind \in {"subscribe", "list", "prompt", "unsubscribe"}
      BY <2>1 DEF AllRequests
    <2> QED BY <2>2, <2>3, <2>4, <2>5
  <1> QED BY <1>7, <1>8

LEMMA OnFrameOrdered ==
  ASSUME BubbleInv, OnFrame
  PROVE  Ordered'
  <1> DEFINE frame == conn.down[1]
  <1>0. /\ conn.down # <<>> /\ conn' = [conn EXCEPT !.down = Tail(@)] /\ log' = log /\ missed' = missed
        /\ prompts' = prompts
        /\ Connected /\ Once /\ Opened /\ InOrder /\ Owed
    BY DEF OnFrame, BubbleInv, Ordered
  <1>1. /\ page'.entry = page.entry /\ page'.entries = page.entries /\ page'.timer = page.timer
        /\ \A n : n \in page'.acked => n \in page.acked \/ Acks(1, n)
        /\ \/ page'.attached = page.attached /\ page'.rows = page.rows
              /\ (page.attached # 0 => frame.to.kind # "append")
           \/ page'.attached = page.attached /\ page'.rows = page.rows \cup frame.rows
           \/ Snapshot(1) /\ page'.attached = page.entry /\ page'.rows = frame.rows
    BY Delivered
  <1>2. /\ conn'.host = conn.host /\ conn'.running = conn.running /\ conn'.up = conn.up
        /\ conn'.sub = conn.sub /\ conn'.closed = conn.closed
        /\ 1 \in DOMAIN conn.down /\ conn.down[1] \in Frames
        /\ \A i \in DOMAIN conn'.down : i + 1 \in DOMAIN conn.down /\ conn'.down[i] = conn.down[i + 1]
        /\ \A i \in DOMAIN conn'.down : i \in Nat \ {0}
    BY <1>0, FirstFrame
  <1>3. Open
    <2>1. NoConn.down = <<>>
      BY DEF NoConn
    <2> QED BY <1>0, <2>1 DEF Connected
  <1>4. Connected'
    BY <1>0, <1>1, <1>2, <1>3 DEF Connected, Open
  <1>5. \A r : Underway(r)' = Underway(r)
    BY <1>2 DEF Underway
  <1>6. /\ \A n : Silent(n) => Silent(n)'
        /\ \A k \in Nat \ {0} : \A rows : Told(k, rows) => Told(k - 1, rows)'
        /\ \A rows, more : Told(0, rows) /\ (\A n : conn.down[1] = Bubble(n) => n \in more)
                             => Told(0, rows \cup more)'
    BY <1>0, <1>1, ToldLater
  <1>7. Once'
    <2>1. \A n : Silent(n) => n \notin page'.acked
      BY <1>1, <1>2 DEF Silent
    <2> QED BY <1>0, <1>2, <1>5, <1>6, <2>1 DEF Once
  <1>8. Opened'
    BY <1>0, <1>1, <1>2, <1>5 DEF Opened
  <1>9. \A i \in DOMAIN conn'.down : Snapshot(i)' => Snapshot(i + 1)
    BY <1>1, <1>2 DEF Snapshot
  <1>10. InOrder'
    <2>1. page'.attached # 0 => page.attached # 0 \/ Snapshot(1)
      BY <1>1
    <2>2. (page'.attached # 0 \/ \E i \in DOMAIN conn'.down : Snapshot(i)')
             => page.attached # 0 \/ \E i \in DOMAIN conn.down : Snapshot(i)
      BY <1>2, <1>9, <2>1
    <2>3. ASSUME NEW i \in DOMAIN conn.up, conn.up[i].kind = "unsubscribe"
          PROVE  page'.attached = 0 /\ \A j \in DOMAIN conn'.down : ~Snapshot(j)'
      BY <1>0, <1>2, <1>9, <2>1, <2>3 DEF InOrder
    <2> QED BY <1>0, <1>1, <1>2, <2>2, <2>3 DEF InOrder
  <1>11. Owed'
    <2>1. ASSUME NEW k \in DOMAIN conn'.down, Snapshot(k)'
          PROVE  Told(k, conn.down[k].rows)'
      <3>0. PICK R : R = conn.down[k + 1].rows
        OBVIOUS
      <3>1. Told(k + 1, R)
        BY <1>0, <1>2, <1>9, <2>1, <3>0 DEF Owed
      <3>2. k + 1 \in Nat \ {0}
        BY <1>2
      <3>3. Told(k, R)'
        <4>1. PICK m \in Nat \ {0} : m = k + 1
          BY <3>2
        <4>2. Told(m, R)
          BY <3>1, <4>1
        <4>3. Told(m - 1, R)'
          BY <1>6, <4>2
        <4>4. m - 1 = k
          BY <1>2, <4>1
        <4> QED BY <4>3, <4>4
      <3>4. R = conn'.down[k].rows
        BY <1>2, <3>0
      <3> QED BY <3>3, <3>4 DEF Told
    <2>2. ASSUME page'.attached # 0 PROVE Told(0, page.rows)'
      <3>0. PICK R, S, F : R = page.rows /\ S = page'.rows /\ F = frame.rows
        OBVIOUS
      <3>1. CASE Snapshot(1) /\ page'.rows = frame.rows
        <4>1. Told(1, F) /\ 1 \in Nat \ {0} /\ 1 - 1 = 0
          BY <1>0, <1>2, <3>0, <3>1 DEF Owed
        <4>2. Told(0, F)'
          BY <1>6, <4>1
        <4>3. F = S
          BY <3>0, <3>1
        <4> QED BY <3>0, <4>2, <4>3 DEF Told
      <3>2. CASE page'.attached = page.attached /\ page'.rows = page.rows \cup frame.rows
        <4>1. \A n : conn.down[1] = Bubble(n) => n \in F
          BY <3>0, Distinct
        <4>2. Told(0, R)
          BY <1>0, <2>2, <3>0, <3>2 DEF Owed
        <4>3. Told(0, R \cup F)'
          BY <1>6, <4>1, <4>2
        <4>4. R \cup F = S
          BY <3>0, <3>2
        <4> QED BY <3>0, <4>3, <4>4 DEF Told
      <3>3. CASE /\ page'.attached = page.attached /\ page'.rows = page.rows
                 /\ (page.attached # 0 => frame.to.kind # "append")
        <4>1. \A n : conn.down[1] = Bubble(n) => n \in {}
          BY <2>2, <3>3, Distinct
        <4>2. Told(0, R)
          BY <1>0, <2>2, <3>0, <3>3 DEF Owed
        <4>3. Told(0, R \cup {})'
          BY <1>6, <4>1, <4>2
        <4>4. R \cup {} = S
          BY <3>0, <3>3
        <4> QED BY <3>0, <4>3, <4>4 DEF Told
      <3> QED BY <1>1, <3>1, <3>2, <3>3
    <2> QED BY <2>1, <2>2 DEF Owed
  <1> QED BY <1>4, <1>7, <1>8, <1>10, <1>11 DEF Ordered


\* Frames are sent: what was in flight stays, and of the prompts in the
\* history none is acknowledged before its bubble.
LEMMA ToldStill ==
  ASSUME BubbleInv, page'.acked = page.acked, DOMAIN conn'.down \subseteq Nat,
         \A i \in DOMAIN conn.down : i \in DOMAIN conn'.down /\ conn'.down[i] = conn.down[i],
         \A n \in Recalled', j \in DOMAIN conn'.down :
            Acks(j, n)' => \/ j \in DOMAIN conn.down
                           \/ \E i \in DOMAIN conn'.down :
                                 Len(conn.down) < i /\ i < j /\ conn'.down[i] = Bubble(n),
         \A n \in Recalled' : n \in Recalled \/ Silent(n)
  PROVE  \A k \in 0 .. Len(conn.down) : \A rows : Told(k, rows) => Told(k, rows)'
  <1> SUFFICES ASSUME NEW k \in 0 .. Len(conn.down), NEW rows, Told(k, rows),
                      NEW n \in Recalled', n \notin rows
               PROVE  /\ n \notin page'.acked
                      /\ \A j \in DOMAIN conn'.down : Acks(j, n)' =>
                           \E i \in DOMAIN conn'.down : k < i /\ i < j /\ conn'.down[i] = Bubble(n)
    BY DEF Told
  <1>0. Len(conn.down) \in Nat /\ DOMAIN conn.down = 1 .. Len(conn.down)
    BY ConnFacts DEF BubbleInv, LockInv
  <1>1. /\ n \notin page.acked
        /\ \A j \in DOMAIN conn.down : Acks(j, n) =>
              \E i \in DOMAIN conn.down : k < i /\ i < j /\ conn.down[i] = Bubble(n)
    BY DEF Told, Silent
  <1>2. ASSUME NEW j \in DOMAIN conn'.down, Acks(j, n)'
        PROVE  \E i \in DOMAIN conn'.down : k < i /\ i < j /\ conn'.down[i] = Bubble(n)
    <2>1. CASE j \in DOMAIN conn.down
      <3>1. Acks(j, n)
        BY <1>2, <2>1 DEF Acks
      <3> QED BY <1>1, <2>1, <3>1
    <2>2. CASE j \notin DOMAIN conn.down
      <3>1. PICK i \in DOMAIN conn'.down : Len(conn.down) < i /\ i < j /\ conn'.down[i] = Bubble(n)
        BY <1>2, <2>2
      <3>2. k < i
        BY <1>0, <3>1
      <3> QED BY <3>1, <3>2
    <2> QED BY <2>1, <2>2
  <1> QED BY <1>1, <1>2


\* What the arrival of a request does to the connection.
LEMMA Dispatched ==
  ASSUME BubbleInv, Dispatch
  PROVE  LET r == conn.up[1]
         IN /\ 1 \in DOMAIN conn.up /\ r \in AllRequests
            /\ \A i \in DOMAIN conn'.up :
                  i + 1 \in DOMAIN conn.up /\ conn'.up[i] = conn.up[i + 1] /\ i \in Nat \ {0}
            /\ conn'.host = conn.host /\ conn'.closed = conn.closed
            /\ \/ /\ conn'.running = conn.running /\ conn'.sub = conn.sub
                  /\ conn'.down = conn.down
               \/ /\ r = Request("list", 0) /\ conn'.running = conn.running /\ conn'.sub = conn.sub
                  /\ conn'.down = conn.down \o <<Answer(r, TRUE, {})>>
               \/ /\ r.kind = "unsubscribe" /\ conn'.running = conn.running
                  /\ conn'.down = conn.down \o <<Answer(r, TRUE, {})>>
               \/ /\ r.kind \in {"subscribe", "prompt"} /\ conn'.running = conn.running \cup {r}
                  /\ conn'.sub = conn.sub /\ conn'.down = conn.down
  <1> DEFINE s == conn.up
             c == [conn EXCEPT !.up = Tail(@)]
             r == Head(conn.up)
  <1>1. conn \in Conns /\ s \in Seq(AllRequests) /\ s # <<>>
    BY ConnFacts DEF BubbleInv, LockInv, Dispatch
  <1>2. conn' = IF conn.closed THEN c ELSE Started(c, r)
    BY DEF Dispatch
  <1>3. /\ c.up = Tail(s) /\ c.running = conn.running /\ c.down = conn.down /\ c.sub = conn.sub
        /\ c.host = conn.host /\ c.closed = conn.closed /\ c \in Conns
    <2>1. Tail(s) \in Seq(AllRequests)
      BY <1>1
    <2>2. c = [conn EXCEPT !.up = Tail(s)]
      OBVIOUS
    <2> HIDE DEF s, c
    <2> QED BY <1>1, <2>1, <2>2 DEF Conns
  <1>4. r = s[1]
    BY <1>1
  <1> HIDE DEF s, c, r
  <1>5. /\ 1 \in DOMAIN s /\ s[1] \in AllRequests
        /\ \A i \in DOMAIN Tail(s) : i + 1 \in DOMAIN s /\ Tail(s)[i] = s[i + 1] /\ i \in Nat \ {0}
    BY <1>1
  <1>6. r.kind \in {"list", "unsubscribe", "subscribe", "prompt"} /\ (r.kind = "list" => r = Request("list", 0))
    BY <1>4, <1>5, RequestKinds, Distinct DEF Request
  <1>7. CASE conn.closed
    <2>1. conn' = c
      BY <1>2, <1>7
    <2> QED BY <1>3, <1>4, <1>5, <2>1 DEF s
  <1>8. CASE ~conn.closed
    <2>1. conn' = Started(c, r)
      BY <1>2, <1>8
    <2>2. /\ conn'.up = c.up /\ conn'.host = c.host /\ conn'.closed = c.closed
          /\ \/ /\ r.kind = "list" /\ conn'.running = c.running /\ conn'.sub = c.sub
                /\ conn'.down = c.down \o <<Answer(r, TRUE, {})>>
             \/ /\ r.kind = "unsubscribe" /\ conn'.running = c.running
                /\ conn'.down = c.down \o <<Answer(r, TRUE, {})>>
             \/ /\ r.kind \in {"subscribe", "prompt"} /\ conn'.running = c.running \cup {r}
                /\ conn'.sub = c.sub /\ conn'.down = c.down
      BY <1>3, <1>6, <1>8, <2>1 DEF Started, Replied, Conns
    <2> QED BY <1>3, <1>4, <1>5, <1>6, <2>2 DEF s
  <1> QED BY <1>7, <1>8

LEMMA DispatchOrdered ==
  ASSUME BubbleInv, Dispatch
  PROVE  Ordered'
  <1> DEFINE r == conn.up[1]
  <1>a. TypeOK
    BY DEF BubbleInv, LockInv
  <1>0. /\ conn.up # <<>> /\ page' = page /\ log' = log /\ missed' = missed /\ prompts' = prompts
        /\ Connected /\ Once /\ Opened /\ InOrder /\ Owed
    BY DEF Dispatch, BubbleInv, Ordered
  <1>1. /\ 1 \in DOMAIN conn.up /\ r \in AllRequests
        /\ \A i \in DOMAIN conn'.up :
              i + 1 \in DOMAIN conn.up /\ conn'.up[i] = conn.up[i + 1] /\ i \in Nat \ {0}
        /\ conn'.host = conn.host /\ conn'.closed = conn.closed
        /\ \/ /\ conn'.running = conn.running /\ conn'.sub = conn.sub
              /\ conn'.down = conn.down
           \/ /\ r = Request("list", 0) /\ conn'.running = conn.running /\ conn'.sub = conn.sub
              /\ conn'.down = conn.down \o <<Answer(r, TRUE, {})>>
           \/ /\ r.kind = "unsubscribe" /\ conn'.running = conn.running
              /\ conn'.down = conn.down \o <<Answer(r, TRUE, {})>>
           \/ /\ r.kind \in {"subscribe", "prompt"} /\ conn'.running = conn.running \cup {r}
              /\ conn'.sub = conn.sub /\ conn'.down = conn.down
    BY Dispatched
  <1>2. Open
    <2>1. NoConn.up = <<>>
      BY DEF NoConn
    <2> QED BY <1>0, <2>1 DEF Connected
  <1>3. Connected'
    BY <1>0, <1>1, <1>2 DEF Connected, Open
  \* No frame is added but the answer to a list or an unsubscription.
  <1>4. /\ \A i \in DOMAIN conn.down : i \in DOMAIN conn'.down /\ conn'.down[i] = conn.down[i]
        /\ DOMAIN conn'.down \subseteq Nat
        /\ \A i \in DOMAIN conn'.down : \/ i \in DOMAIN conn.down
                                        \/ /\ conn'.down[i].to = r
                                           /\ r = Request("list", 0) \/ r.kind = "unsubscribe"
    <2>0. conn.down \in Seq(Frames) /\ DOMAIN conn.down = 1 .. Len(conn.down)
      BY <1>a, ConnFacts
    <2>1. CASE conn'.down = conn.down
      BY <2>0, <2>1
    <2>2. CASE conn'.down = conn.down \o <<Answer(r, TRUE, {})>> /\ (r = Request("list", 0) \/ r.kind = "unsubscribe")
      <3>0. PICK f : f = Answer(r, TRUE, {})
        OBVIOUS
      <3>1. f \in Frames /\ f.to = r /\ conn'.down = conn.down \o <<f>>
        BY <1>1, <2>2, <3>0 DEF Answer, Frames
      <3>2. conn'.down \in Seq(Frames) /\ Len(conn'.down) = Len(conn.down) + 1
            /\ (\A i \in 1 .. Len(conn.down) : conn'.down[i] = conn.down[i])
            /\ (\A i \in DOMAIN conn'.down : i \in 1 .. Len(conn.down) \/ conn'.down[i] = f)
        BY <2>0, <3>1, Joining
      <3>3. DOMAIN conn'.down = 1 .. Len(conn.down) + 1 /\ Len(conn.down) \in Nat
        BY <2>0, <3>2
      <3>4. 1 .. Len(conn.down) \subseteq 1 .. Len(conn.down) + 1 /\ 1 .. Len(conn.down) + 1 \subseteq Nat
        BY <3>3
      <3> QED BY <2>0, <2>2, <3>1, <3>2, <3>3, <3>4
    <2> QED BY <1>1, <2>1, <2>2
  <1>5. \A n : r = Request("list", 0) \/ r.kind = "unsubscribe" => r # Prompt(n) /\ r # Subscribe(n)
    BY Distinct
  <1>6. \A n, i : i \in DOMAIN conn'.down /\ conn'.down[i].to \in {Prompt(n), Subscribe(n)}
                     => i \in DOMAIN conn.down /\ conn'.down[i] = conn.down[i]
    BY <1>4, <1>5
  <1> HIDE DEF r
  <1>7. \A n, i : i \in DOMAIN conn'.down /\ Acks(i, n)' => i \in DOMAIN conn.down /\ Acks(i, n)
    BY <1>6 DEF Acks
  <1>8. \A i : i \in DOMAIN conn'.down /\ Snapshot(i)' => i \in DOMAIN conn.down /\ Snapshot(i)
    BY <1>0, <1>6 DEF Snapshot
  <1>9. \A q : Underway(q)' => Underway(q)
    BY <1>1 DEF Underway, r
  <1>10. Once'
    <2>1. \A n : Silent(n) => Silent(n)'
      BY <1>0, <1>7 DEF Silent
    <2>2. ASSUME NEW n \in 1 .. MaxPrompts, NEW i \in DOMAIN conn'.up, conn'.up[i] = Prompt(n)
          PROVE  /\ Prompt(n) \notin conn'.running
                 /\ \A j \in DOMAIN conn'.up : conn'.up[j] = Prompt(n) => i = j
      <3>1. i + 1 \in DOMAIN conn.up /\ conn.up[i + 1] = Prompt(n) /\ i \in Nat \ {0}
        BY <1>1, <2>2
      <3>2. Prompt(n) \notin conn.running
            /\ \A j \in DOMAIN conn.up : conn.up[j] = Prompt(n) => i + 1 = j
        BY <1>0, <3>1 DEF Once
      <3>3. r # Prompt(n)
        BY <1>1, <3>1, <3>2 DEF r
      <3>4. \A j \in DOMAIN conn'.up : conn'.up[j] = Prompt(n) => i + 1 = j + 1 /\ j \in Nat
        BY <1>1, <3>2
      <3> QED BY <1>1, <3>1, <3>2, <3>3, <3>4
    <2> QED BY <1>0, <1>9, <2>1, <2>2 DEF Once
  <1>11. Opened'
    BY <1>0, <1>1, <1>6, <1>9 DEF Opened
  <1>12. InOrder'
    <2>1. ASSUME NEW i \in DOMAIN conn'.up, conn'.up[i].kind = "unsubscribe"
          PROVE  /\ conn'.up[i].n # page.entry
                 /\ page.attached = 0
                 /\ Subscribe(page.entry) \notin conn'.running
                 /\ \A j \in DOMAIN conn'.down : ~Snapshot(j)'
                 /\ \A j \in DOMAIN conn'.up : conn'.up[j] = Subscribe(page.entry) => i < j
      <3>1. i + 1 \in DOMAIN conn.up /\ conn'.up[i] = conn.up[i + 1] /\ i \in Nat \ {0}
        BY <1>1
      <3>2. /\ conn'.up[i].n # page.entry /\ page.attached = 0
            /\ Subscribe(page.entry) \notin conn.running
            /\ \A j \in DOMAIN conn.down : ~Snapshot(j)
            /\ \A j \in DOMAIN conn.up : conn.up[j] = Subscribe(page.entry) => i + 1 < j
        BY <1>0, <2>1, <3>1 DEF InOrder
      <3>3. r # Subscribe(page.entry)
        BY <1>1, <3>1, <3>2 DEF r
      <3>4. \A j \in DOMAIN conn'.up : conn'.up[j] = Subscribe(page.entry) => i + 1 < j + 1 /\ j \in Nat
        BY <1>1, <3>2
      <3> QED BY <1>1, <1>8, <3>1, <3>2, <3>3, <3>4
    <2>2. ASSUME page.attached # 0 \/ \E i \in DOMAIN conn'.down : Snapshot(i)'
          PROVE  conn'.sub \/ conn'.closed
      <3>1. page.attached # 0 \/ \E i \in DOMAIN conn.down : Snapshot(i)
        BY <1>8, <2>2
      <3>2. r.kind # "unsubscribe"
        BY <1>0, <1>1, <3>1 DEF InOrder, r
      <3> QED BY <1>0, <1>1, <3>1, <3>2 DEF InOrder
    <2> QED BY <1>0, <2>1, <2>2 DEF InOrder
  <1>13. Owed'
    <2>0. Recalled' = Recalled
      BY <1>0 DEF Recalled
    <2>1. \A k \in 0 .. Len(conn.down) : \A rows : Told(k, rows) => Told(k, rows)'
      BY <1>0, <1>4, <1>7, <2>0, ToldStill
    <2>2. DOMAIN conn.down = 1 .. Len(conn.down) /\ 1 .. Len(conn.down) \subseteq 0 .. Len(conn.down)
          /\ 0 \in 0 .. Len(conn.down)
      BY <1>a, ConnFacts
    <2>3. ASSUME NEW k \in DOMAIN conn'.down, Snapshot(k)' PROVE Told(k, conn.down[k].rows)'
      <3>1. PICK R : R = conn.down[k].rows
        OBVIOUS
      <3>2. k \in DOMAIN conn.down /\ Told(k, R) /\ conn'.down[k].rows = R
        BY <1>0, <1>4, <1>8, <2>3, <3>1 DEF Owed
      <3>3. Told(k, R)'
        BY <2>1, <2>2, <3>2
      <3> QED BY <3>2, <3>3 DEF Told
    <2>4. ASSUME page'.attached # 0 PROVE Told(0, page.rows)'
      <3>1. PICK R : R = page.rows
        OBVIOUS
      <3>2. Told(0, R)
        BY <1>0, <2>4, <3>1 DEF Owed
      <3>3. Told(0, R)'
        BY <2>1, <2>2, <3>2
      <3> QED BY <1>0, <3>1, <3>3 DEF Told
    <2> QED BY <2>3, <2>4 DEF Owed
  <1> QED BY <1>3, <1>10, <1>11, <1>12, <1>13 DEF Ordered


\* A handler ends: what it may tell keeps the order, whichever way it ends.
LEMMA FinishedOrdered ==
  ASSUME BubbleInv, NEW r \in conn.running,
         UNCHANGED <<page, prompts>>,
         conn'.host = conn.host, conn'.closed = conn.closed, conn'.up = conn.up,
         conn'.running = conn.running \ {r},
         DOMAIN conn'.down \subseteq Nat,
         \A i \in DOMAIN conn.down : i \in DOMAIN conn'.down /\ conn'.down[i] = conn.down[i],
         \A i \in DOMAIN conn'.down : \/ i \in DOMAIN conn.down
                                      \/ conn'.down[i].to = r
                                      \/ conn'.down[i].to.kind = "append",
         missed \subseteq missed', \A n \in log' : n \in log \/ r = Prompt(n),
         \A i \in DOMAIN conn'.down :
            Snapshot(i)' => \/ i \in DOMAIN conn.down
                            \/ Recalled' \subseteq conn'.down[i].rows /\ (conn'.sub \/ conn'.closed),
         conn'.sub = conn.sub \/ conn'.sub \/ conn'.closed,
         \/ \A n \in Recalled', j \in DOMAIN conn'.down :
               Acks(j, n)' => \/ j \in DOMAIN conn.down
                              \/ \E i \in DOMAIN conn'.down :
                                    Len(conn.down) < i /\ i < j /\ conn'.down[i] = Bubble(n)
         \/ page.attached = 0 /\ \A i \in DOMAIN conn'.down : ~Snapshot(i)'
  PROVE  Ordered'
  <1>a. TypeOK
    BY DEF BubbleInv, LockInv
  <1>0. r \in AllRequests /\ Connected /\ Once /\ Opened /\ InOrder /\ Owed
    BY <1>a, ConnFacts DEF BubbleInv, Ordered
  <1>1. Underway(r) /\ \A q : Underway(q)' => Underway(q)
    BY DEF Underway
  <1>2. Connected'
    <2>1. Open
      BY <1>0 DEF Connected, NoConn
    <2> QED BY <1>0, <2>1 DEF Connected, Open
  <1>3. \A n, i : i \in DOMAIN conn'.down /\ conn'.down[i].to \in {Prompt(n), Subscribe(n)} /\ conn'.down[i].to # r
                     => i \in DOMAIN conn.down /\ conn'.down[i] = conn.down[i]
    BY Distinct
  <1>4. \A n : Silent(n) /\ r # Prompt(n) => Silent(n)'
    BY <1>3 DEF Silent, Acks
  <1>5. Once'
    <2> SUFFICES ASSUME NEW n \in 1 .. MaxPrompts
                 PROVE  /\ Underway(Prompt(n))' => n <= prompts /\ n \notin log' /\ Silent(n)'
                        /\ n > prompts => n \notin log' /\ Silent(n)'
      BY <1>0 DEF Once
    <2>1. Underway(Prompt(n))' => r # Prompt(n) /\ Underway(Prompt(n))
      BY <1>0, <1>1 DEF Underway, Once
    <2>2. n > prompts => r # Prompt(n)
      <3>1. prompts \in Nat /\ n \in Nat
        BY <1>a, ConnFacts
      <3>2. r = Prompt(n) => n <= prompts
        BY <1>0, <1>1 DEF Once
      <3> QED BY <3>1, <3>2
    <2> QED BY <1>0, <1>4, <2>1, <2>2, Distinct DEF Once
  <1>6. Opened'
    BY <1>0, <1>1, <1>3 DEF Opened
  <1>7. \A i \in DOMAIN conn'.down : Snapshot(i)' /\ r # Subscribe(page.entry) => i \in DOMAIN conn.down /\ Snapshot(i)
    BY <1>3 DEF Snapshot
  <1>8. \A i \in DOMAIN conn'.down : Snapshot(i)' /\ i \in DOMAIN conn.down => Snapshot(i)
    BY DEF Snapshot
  <1>9. InOrder'
    <2>1. ASSUME NEW i \in DOMAIN conn.up, conn.up[i].kind = "unsubscribe"
          PROVE  \A j \in DOMAIN conn'.down : ~Snapshot(j)'
      BY <1>0, <1>7, <2>1 DEF InOrder
    <2>2. (page.attached # 0 \/ \E i \in DOMAIN conn'.down : Snapshot(i)') => conn'.sub \/ conn'.closed
      BY <1>0, <1>8 DEF InOrder
    <2> QED BY <1>0, <2>1, <2>2 DEF InOrder
  <1>10. Owed'
    <2>1. CASE page.attached = 0 /\ \A i \in DOMAIN conn'.down : ~Snapshot(i)'
      BY <2>1 DEF Owed
    <2>2. CASE \A n \in Recalled', j \in DOMAIN conn'.down :
                  Acks(j, n)' => \/ j \in DOMAIN conn.down
                                 \/ \E i \in DOMAIN conn'.down :
                                       Len(conn.down) < i /\ i < j /\ conn'.down[i] = Bubble(n)
      <3>1. \A n \in Recalled' : n \in Recalled \/ Silent(n)
        <4> TAKE n \in Recalled'
        <4>1. CASE r = Prompt(n)
          <5>1. n \in 1 .. MaxPrompts
            BY <1>0, <4>1 DEF AllRequests, Prompt, Request
          <5> QED BY <1>0, <1>1, <4>1, <5>1 DEF Once
        <4> QED BY <4>1 DEF Recalled
      <3>2. \A k \in 0 .. Len(conn.down) : \A rows : Told(k, rows) => Told(k, rows)'
        BY <2>2, <3>1, ToldStill
      <3>3. DOMAIN conn.down = 1 .. Len(conn.down) /\ 1 .. Len(conn.down) \subseteq 0 .. Len(conn.down)
            /\ 0 \in 0 .. Len(conn.down)
        BY <1>a, ConnFacts
      <3>4. ASSUME NEW k \in DOMAIN conn'.down, Snapshot(k)' PROVE Told(k, conn.down[k].rows)'
        <4>1. CASE Recalled' \subseteq conn'.down[k].rows
          BY <4>1 DEF Told
        <4>2. CASE k \in DOMAIN conn.down
          <5>1. PICK R : R = conn.down[k].rows
            OBVIOUS
          <5>2. Told(k, R) /\ conn'.down[k].rows = R
            BY <1>0, <1>8, <3>4, <4>2, <5>1 DEF Owed
          <5>3. Told(k, R)'
            BY <3>2, <3>3, <4>2, <5>2
          <5> QED BY <5>2, <5>3 DEF Told
        <4> QED BY <3>4, <4>1, <4>2
      <3>5. ASSUME page'.attached # 0 PROVE Told(0, page.rows)'
        <4>1. PICK R : R = page.rows
          OBVIOUS
        <4>2. Told(0, R)
          BY <1>0, <3>5, <4>1 DEF Owed
        <4>3. Told(0, R)'
          BY <3>2, <3>3, <4>2
        <4> QED BY <4>1, <4>3 DEF Told
      <3> QED BY <3>4, <3>5 DEF Owed
    <2> QED BY <2>1, <2>2
  <1> QED BY <1>2, <1>5, <1>6, <1>9, <1>10 DEF Ordered

\* No frame joins those in flight, or one, or two.
LEMMA NoFrameJoins ==
  ASSUME BubbleInv, conn'.down = conn.down
  PROVE  /\ DOMAIN conn'.down \subseteq Nat
         /\ DOMAIN conn.down = 1 .. Len(conn.down) /\ Len(conn.down) \in Nat
         /\ DOMAIN conn'.down = DOMAIN conn.down
  <1>1. DOMAIN conn.down = 1 .. Len(conn.down) /\ Len(conn.down) \in Nat
    BY ConnFacts DEF BubbleInv, LockInv
  <1>2. 1 .. Len(conn.down) \subseteq Nat
    BY <1>1
  <1> QED BY <1>1, <1>2

LEMMA OneFrameJoins ==
  ASSUME BubbleInv, NEW f \in Frames, conn'.down = conn.down \o <<f>>
  PROVE  /\ DOMAIN conn'.down \subseteq Nat
         /\ DOMAIN conn.down = 1 .. Len(conn.down) /\ Len(conn.down) \in Nat
         /\ \A i \in DOMAIN conn.down : i \in DOMAIN conn'.down /\ conn'.down[i] = conn.down[i]
         /\ \A i \in DOMAIN conn'.down : i \in DOMAIN conn.down \/ conn'.down[i] = f
  <1> DEFINE s == conn.down
  <1>1. s \in Seq(Frames)
    BY ConnFacts DEF BubbleInv, LockInv
  <1> HIDE DEF s
  <1>2. DOMAIN s = 1 .. Len(s) /\ Len(s) \in Nat
    BY <1>1
  <1>3. /\ s \o <<f>> \in Seq(Frames) /\ Len(s \o <<f>>) = Len(s) + 1
        /\ \A i \in 1 .. Len(s) : (s \o <<f>>)[i] = s[i]
        /\ (s \o <<f>>)[Len(s) + 1] = f
    BY <1>1
  <1>4. DOMAIN (s \o <<f>>) = 1 .. Len(s) + 1
    BY <1>3
  <1>5. \A i \in 1 .. Len(s) + 1 : i \in Nat /\ (i \in 1 .. Len(s) \/ i = Len(s) + 1)
    BY <1>2
  <1>6. 1 .. Len(s) \subseteq 1 .. Len(s) + 1
    BY <1>2
  <1> QED BY <1>2, <1>3, <1>4, <1>5, <1>6 DEF s

LEMMA TwoFramesJoin ==
  ASSUME BubbleInv, NEW f \in Frames, NEW g \in Frames, conn'.down = conn.down \o <<f, g>>
  PROVE  /\ DOMAIN conn'.down \subseteq Nat
         /\ DOMAIN conn.down = 1 .. Len(conn.down) /\ Len(conn.down) \in Nat
         /\ \A i \in DOMAIN conn.down : i \in DOMAIN conn'.down /\ conn'.down[i] = conn.down[i]
         /\ \A i \in DOMAIN conn'.down : \/ i \in DOMAIN conn.down
                                         \/ i = Len(conn.down) + 1 /\ conn'.down[i] = f
                                         \/ i = Len(conn.down) + 2 /\ conn'.down[i] = g
         /\ Len(conn.down) + 1 \in DOMAIN conn'.down /\ conn'.down[Len(conn.down) + 1] = f
  <1> DEFINE s == conn.down
  <1>1. s \in Seq(Frames)
    BY ConnFacts DEF BubbleInv, LockInv
  <1> HIDE DEF s
  <1>2. DOMAIN s = 1 .. Len(s) /\ Len(s) \in Nat
    BY <1>1
  <1>3. /\ s \o <<f, g>> \in Seq(Frames) /\ Len(s \o <<f, g>>) = Len(s) + 2
        /\ \A i \in 1 .. Len(s) : (s \o <<f, g>>)[i] = s[i]
        /\ (s \o <<f, g>>)[Len(s) + 1] = f
        /\ (s \o <<f, g>>)[Len(s) + 2] = g
    BY <1>1
  <1>4. DOMAIN (s \o <<f, g>>) = 1 .. Len(s) + 2
    BY <1>3
  <1>5. \A i \in 1 .. Len(s) + 2 : i \in Nat /\ (i \in 1 .. Len(s) \/ i = Len(s) + 1 \/ i = Len(s) + 2)
    BY <1>2
  <1>6. 1 .. Len(s) \subseteq 1 .. Len(s) + 2 /\ Len(s) + 1 \in 1 .. Len(s) + 2
    BY <1>2
  <1> QED BY <1>2, <1>3, <1>4, <1>5, <1>6 DEF s

LEMMA FinishOrdered ==
  ASSUME BubbleInv, NEW r \in conn.running, Finish(r)
  PROVE  Ordered'
  <1>a. TypeOK
    BY DEF BubbleInv, LockInv
  <1>0. conn \in Conns /\ r \in AllRequests /\ log \subseteq 1 .. MaxPrompts
    BY <1>a, ConnFacts
  <1>1. /\ Finished(r) \in Conns /\ Finished(r).running = conn.running \ {r}
        /\ Finished(r).host = conn.host /\ Finished(r).closed = conn.closed /\ Finished(r).up = conn.up
        /\ Finished(r).down = conn.down /\ Finished(r).sub = conn.sub
    BY <1>0 DEF Finished, Conns
  <1>2. UNCHANGED <<page, prompts>>
    BY DEF Finish, Fail, FinishSubscribe, FinishPrompt, FinishSignedOut
  \* A closed connection sends nothing.
  <1>3. ASSUME NEW c \in Conns, NEW fs,
               conn' = Replied(c, fs),
               c.host = conn.host, c.closed = conn.closed, c.up = conn.up,
               c.running = conn.running \ {r}, c.down = conn.down
        PROVE  /\ conn'.host = conn.host /\ conn'.closed = conn.closed /\ conn'.up = conn.up
               /\ conn'.running = conn.running \ {r} /\ conn'.sub = c.sub
               /\ conn.closed => conn'.down = conn.down
               /\ ~conn.closed => conn'.down = conn.down \o fs
    BY <1>3 DEF Replied, Conns
  <1>4. \A ok \in BOOLEAN, rows \in SUBSET (1 .. MaxPrompts) :
           /\ Answer(r, ok, rows) \in Frames /\ Answer(r, ok, rows).to = r
           /\ Answer(r, ok, rows).ok = ok /\ Answer(r, ok, rows).rows = rows
    BY <1>0 DEF Answer, Frames
  \* Handlers that send one answer, and record nothing.
  <1>5. ASSUME NEW f \in Frames, f.to = r, log' = log, missed \subseteq missed',
               conn'.host = conn.host, conn'.closed = conn.closed, conn'.up = conn.up,
               conn'.running = conn.running \ {r},
               conn'.down = conn.down \/ conn'.down = conn.down \o <<f>>,
               conn'.sub = conn.sub \/ conn'.sub \/ conn'.closed,
               r = Subscribe(page.entry) /\ f.ok => Recalled' \subseteq f.rows /\ (conn'.sub \/ conn'.closed),
               \A n : r = Prompt(n) => n \notin log
        PROVE  Ordered'
    <2>1. /\ DOMAIN conn'.down \subseteq Nat
          /\ \A i \in DOMAIN conn.down : i \in DOMAIN conn'.down /\ conn'.down[i] = conn.down[i]
          /\ \A i \in DOMAIN conn'.down : i \in DOMAIN conn.down \/ conn'.down[i] = f
      BY <1>5, NoFrameJoins, OneFrameJoins
    <2>2. \A i \in DOMAIN conn'.down :
             Snapshot(i)' => \/ i \in DOMAIN conn.down
                             \/ Recalled' \subseteq conn'.down[i].rows /\ (conn'.sub \/ conn'.closed)
      BY <1>2, <1>5, <2>1 DEF Snapshot
    <2>3. \A n \in Recalled', j \in DOMAIN conn'.down : Acks(j, n)' => j \in DOMAIN conn.down
      BY <1>5, <2>1 DEF Acks, Recalled
    <2> QED BY <1>2, <1>5, <2>1, <2>2, <2>3, FinishedOrdered
  <1>6. \A n : r = Prompt(n) => n \in 1 .. MaxPrompts /\ n \notin log
    <2>1. Underway(r)
      BY DEF Underway
    <2>2. \A n : r = Prompt(n) => n \in 1 .. MaxPrompts
      BY <1>0 DEF AllRequests, Prompt, Request
    <2> QED BY <2>1, <2>2 DEF BubbleInv, Ordered, Once
  <1>7. CASE Fail(r)
    <2>1. PICK f \in Frames : f = Answer(r, FALSE, {})
      BY <1>4
    <2>2. f.to = r /\ f.ok = FALSE
      BY <1>4, <2>1
    <2>3. conn' = Replied(Finished(r), <<f>>) /\ log' = log /\ missed' = missed
      BY <1>7, <2>1 DEF Fail
    <2> QED BY <1>1, <1>3, <1>5, <1>6, <2>2, <2>3
  <1>8. CASE FinishSubscribe(r)
    <2>0. PICK rows \in Settled(r) :
            /\ conn' = Replied([Finished(r) EXCEPT !.sub = ~conn.closed], <<Answer(r, TRUE, rows)>>)
            /\ missed' = missed \cup (log \ rows)
      BY <1>8 DEF FinishSubscribe
    <2>1. PICK f \in Frames : f = Answer(r, TRUE, rows) /\ f.to = r /\ f.rows = rows
      <3>1. rows \in SUBSET (1 .. MaxPrompts)
        BY <1>0, <1>8, <1>a, SettledType DEF FinishSubscribe
      <3> QED BY <1>4, <3>1
    <2>2. log' = log /\ missed \subseteq missed' /\ Recalled' \subseteq f.rows
      BY <1>8, <2>0, <2>1 DEF FinishSubscribe, Recalled
    <2>3. PICK c : c = [Finished(r) EXCEPT !.sub = ~conn.closed]
      OBVIOUS
    <2>4. /\ c \in Conns /\ c.running = conn.running \ {r} /\ c.host = conn.host /\ c.closed = conn.closed
          /\ c.up = conn.up /\ c.down = conn.down /\ c.sub = ~conn.closed
      BY <1>0, <1>1, <2>3 DEF Conns
    <2>5. conn' = Replied(c, <<f>>)
      BY <2>0, <2>1, <2>3
    <2>6. conn'.sub \/ conn'.closed
      BY <1>3, <2>4, <2>5
    <2> QED BY <1>3, <1>5, <1>6, <2>1, <2>2, <2>4, <2>5, <2>6
  <1>9. CASE FinishSignedOut(r)
    <2>1. PICK f \in Frames : f = Answer(r, TRUE, {})
      BY <1>4
    <2>2. f.to = r
      BY <1>4, <2>1
    <2>3. conn' = Replied(Finished(r), <<f>>) /\ log' = log /\ missed' = missed /\ r.kind = "prompt"
      BY <1>9, <2>1 DEF FinishSignedOut
    <2>4. r # Subscribe(page.entry)
      BY <2>3, Distinct
    <2> QED BY <1>1, <1>3, <1>5, <1>6, <2>2, <2>3, <2>4
  <1>10. CASE FinishPrompt(r)
    <2>1. PICK g \in Frames : g = Answer(r, TRUE, {})
      BY <1>4
    <2>2. g.to = r
      BY <1>4, <2>1
    <2>3. PICK m : m = r.n
      OBVIOUS
    <2>4. r = Prompt(m) /\ m \in 1 .. MaxPrompts
      BY <1>0, <1>10, <2>3, RequestKinds DEF FinishPrompt, Prompt, Request
    <2>5. PICK b \in Frames : b = Bubble(m)
      BY <2>4, RequestTypes
    <2>6. b.to.kind = "append" /\ b.to # r
      BY <2>4, <2>5, Distinct
    <2>7. /\ log' = log \cup {m} /\ missed' = missed
          /\ conn' = Replied(Finished(r), IF conn.sub THEN <<b, g>> ELSE <<g>>)
      BY <1>10, <2>1, <2>3, <2>4, <2>5 DEF FinishPrompt, Recorded, Prompt
    <2>7a. missed \subseteq missed'
      BY <2>7
    <2>8. /\ conn'.host = conn.host /\ conn'.closed = conn.closed /\ conn'.up = conn.up
          /\ conn'.running = conn.running \ {r} /\ conn'.sub = conn.sub
          /\ \/ conn.closed /\ conn'.down = conn.down
             \/ ~conn.closed /\ conn.sub /\ conn'.down = conn.down \o <<b, g>>
             \/ ~conn.closed /\ ~conn.sub /\ conn'.down = conn.down \o <<g>>
      BY <1>1, <1>3, <2>7
    <2>9. \A n \in log' : n \in log \/ r = Prompt(n)
      BY <2>4, <2>7
    <2>10. /\ DOMAIN conn'.down \subseteq Nat
           /\ \A i \in DOMAIN conn.down : i \in DOMAIN conn'.down /\ conn'.down[i] = conn.down[i]
           /\ \A i \in DOMAIN conn'.down : i \in DOMAIN conn.down \/ conn'.down[i] \in {b, g}
      BY <2>8, NoFrameJoins, OneFrameJoins, TwoFramesJoin
    <2>11. \A i \in DOMAIN conn'.down : Snapshot(i)' => i \in DOMAIN conn.down
      <3>1. b.to # Subscribe(page.entry) /\ g.to # Subscribe(page.entry)
        BY <2>2, <2>4, <2>6, Distinct
      <3> QED BY <1>2, <2>10, <3>1 DEF Snapshot
    <2>12. \/ \A n \in Recalled', j \in DOMAIN conn'.down :
                 Acks(j, n)' => \/ j \in DOMAIN conn.down
                                \/ \E i \in DOMAIN conn'.down :
                                      Len(conn.down) < i /\ i < j /\ conn'.down[i] = Bubble(n)
           \/ page.attached = 0 /\ \A i \in DOMAIN conn'.down : ~Snapshot(i)'
      <3>1. CASE conn.closed /\ conn'.down = conn.down
        BY <3>1
      <3>2. CASE ~conn.closed /\ ~conn.sub
        <4>1. page.attached = 0 /\ \A i \in DOMAIN conn.down : ~Snapshot(i)
          BY <3>2 DEF BubbleInv, Ordered, InOrder
        <4> QED BY <1>2, <2>10, <2>11, <4>1 DEF Snapshot
      <3>3. CASE conn'.down = conn.down \o <<b, g>>
        <4>1. /\ \A i \in DOMAIN conn'.down : \/ i \in DOMAIN conn.down
                                              \/ i = Len(conn.down) + 1 /\ conn'.down[i] = b
                                              \/ i = Len(conn.down) + 2 /\ conn'.down[i] = g
              /\ Len(conn.down) + 1 \in DOMAIN conn'.down /\ conn'.down[Len(conn.down) + 1] = b
              /\ Len(conn.down) \in Nat
          BY <3>3, TwoFramesJoin
        <4>2. Len(conn.down) < Len(conn.down) + 1 /\ Len(conn.down) + 1 < Len(conn.down) + 2
          BY <4>1
        <4>3. \A n : b.to # Prompt(n) /\ (g.to = Prompt(n) => n = m)
          BY <2>2, <2>4, <2>6, Distinct
        <4> QED BY <2>5, <4>1, <4>2, <4>3 DEF Acks
      <3> QED BY <2>8, <3>1, <3>2, <3>3
    <2> QED BY <1>2, <2>2, <2>6, <2>7a, <2>8, <2>9, <2>10, <2>11, <2>12, FinishedOrdered
  <1> QED BY <1>7, <1>8, <1>9, <1>10 DEF Finish

\* A process ends or stops; its connections with it.
LEMMA LivesOrdered ==
  ASSUME BubbleInv, TypeOK', NEW p \in Procs, Lives(p)
  PROVE  Ordered'
  <1>1. CASE LaunchApp(p) \/ Boot(p) \/ Up(p) \/ Quit(p) \/ Stop(p)
    BY <1>1, StillOrdered DEF LaunchApp, Boot, Up, Quit, Stop
  <1>2. ASSUME NEW hook \in BOOLEAN, End(p, hook) PROVE Ordered'
    <2>1. log' \subseteq log /\ UNCHANGED <<prompts, missed>> /\ HangupOf(p)
      BY <1>2 DEF End
    <2> QED BY <2>1, HangupOrdered, StillOrdered DEF HangupOf
  <1> QED BY <1>1, <1>2, Ends DEF Lives

LEMMA BubbleStep == BubbleInv /\ [Next]_vars => BubbleInv'
  <1> SUFFICES ASSUME BubbleInv, [Next]_vars PROVE BubbleInv'
    OBVIOUS
  <1>1. LockInv' /\ TypeOK'
    BY LockStep DEF BubbleInv, LockInv
  <1> SUFFICES Ordered'
    BY <1>1 DEF BubbleInv
  <1>2. CASE UNCHANGED vars
    BY <1>2, StillOrdered DEF vars
  <1>3. ASSUME NEW p \in Procs, Lives(p) \/ Connect(p) PROVE Ordered'
    BY <1>1, <1>3, LivesOrdered, ConnectOrdered
  <1>4. ASSUME NEW r \in conn.running, Finish(r) PROVE Ordered'
    BY <1>4, FinishOrdered
  <1>7. ASSUME NEW r \in conn.running, ReadHistory(r) PROVE Ordered'
    <2>1. Open
      BY DEF BubbleInv, Ordered, Connected, NoConn
    <2>2. conn' = [conn EXCEPT !.read = [conn.read EXCEPT ![r.n] = disk]]
      BY <1>7 DEF ReadHistory
    <2> QED BY <1>7, <2>1, <2>2, StillOrdered DEF ReadHistory
  <1>8. ASSUME NEW n \in 1 .. MaxPrompts, Write(n) PROVE Ordered'
    BY <1>8, StillOrdered DEF Write
  <1>9. CASE Elsewhere
    BY <1>9, StillOrdered DEF Elsewhere
  <1>5. CASE Drop
    <2>1. Hangup /\ log' = log /\ prompts' = prompts
      BY <1>5 DEF Drop
    <2> QED BY <1>1, <2>1, HangupOrdered
  <1>6. CASE OpenTranscript \/ CloseTranscript \/ SendPrompt \/ OnFrame \/ Dispatch
    <2>1. CASE OpenTranscript \/ CloseTranscript
      BY <2>1, OpenOrdered, CloseOrdered
    <2>2. CASE SendPrompt
      BY <2>2, SendOrdered
    <2>3. CASE OnFrame \/ Dispatch
      BY <2>3, OnFrameOrdered, DispatchOrdered
    <2> QED BY <1>6, <2>1, <2>2, <2>3
  <1> QED BY <1>1, <1>2, <1>3, <1>4, <1>5, <1>6, <1>7, <1>8, <1>9 DEF Next, Lives

\* An attached transcript shows every prompt the page has heard of.
LEMMA OwedIsShown == BubbleInv => BubbleStays
  BY DEF BubbleInv, Ordered, Owed, Told, Recalled, BubbleStays

(* A prompt's bubble never blinks: when sendPrompt returns, the daemon's   *)
(* copy has come, for every interleaving of opens, closes, hang-ups, lost  *)
(* handlers, reads of the JSONL and quitting hosts, unless a snapshot was  *)
(* answered from a read that lacked it (transcript-collections.ts          *)
(* sendUserMessage; router.ts sendPrompt, subscribe; local-connection.ts   *)
(* send).                                                                  *)
THEOREM BubblesStay == Spec => []BubbleStays
  <1>1. Spec => []BubbleInv
    BY BubbleInit, BubbleStep, PTL DEF Spec
  <1> QED BY <1>1, OwedIsShown, PTL

=============================================================================
