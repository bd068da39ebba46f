----------------------------- MODULE Connection -----------------------------
(* The phone's connection to a Mac: the supervisor that connects, retries, *)
(* pairs and unpairs (daemon-client-context.tsx), the transports it makes  *)
(* and the facade it attaches them to (daemon-client.ts, wire-transport.ts,*)
(* iroh-wire.ts), and the daemon's admission of peers, version handshake   *)
(* and closes (iroh-peer-server.ts).                                       *)
(* An attempt and the connection it makes live in a slot; a slot stands    *)
(* for the epoch of the attempt and is used again once nothing of it is    *)
(* left on either side.                                                    *)
EXTENDS Naturals, FiniteSets

CONSTANTS
    Slots,      \* attempts and connections that exist at once (numbers from 1)
    Macs,       \* daemons the phone can be paired with
    Requests,   \* read RPCs of the user interface
    NoMac,      \* no pairing
    MaxCuts,    \* networks that die silently
    MaxPairs    \* times the user confirms a pair offer

ASSUME ConnectionAssumption ==
    /\ Slots \subseteq Nat \ {0} /\ 1 \in Slots /\ IsFiniteSet(Slots)
    /\ NoMac \notin Macs
    /\ MaxCuts \in Nat /\ MaxPairs \in Nat

VARIABLES
    links,          \* per slot: the attempt and both ends of its connection
    cur,            \* epochRef.current: the slot of the latest attempt, or 0
    current,        \* transportRef.current, which is the facade's transport, or 0
    timer,          \* the epoch of the armed reconnect timer, or 0
    wanted,         \* shouldReconnectRef.current
    status,         \* state.status
    paired,         \* the paired record the user interface goes by
    stored,         \* the paired record in the secure store
    protocolError,  \* the sticky mismatch record is set
    forgetting,     \* unpair awaits clearPairedDaemon
    request,        \* per request: idle, waiting for a transport, its slot, or hung
    known,          \* the Macs whose known_clients.json holds this phone
    cuts, pairs,    \* networks lost, offers confirmed
    misled          \* pair() failed or lost its connection unheard (history)

supervisor == <<cur, current, timer, wanted, status, paired, stored, protocolError, forgetting>>
counts == <<cuts, pairs, misled>>
vars == <<links, supervisor, request, known, counts>>

-----------------------------------------------------------------------------
(* Slots.                                                                  *)

Blank == [kind |-> "connect", mac |-> NoMac, phase |-> "over", wire |-> "none", cut |-> FALSE,
          peer |-> "none", mail |-> "none", probing |-> FALSE, heard |-> FALSE]

\* Nothing is left of a slot whose attempt is over and whose ends are closed.
Tidy(l) ==
    IF l.phase = "over" /\ l.wire \in {"none", "closed"} /\ l.peer \in {"none", "closed"} THEN Blank ELSE l

\* The phone closes its end, which ends the probe and clears the callbacks.
Shut(l) == [l EXCEPT !.wire = "closed", !.mail = "none", !.probing = FALSE, !.heard = FALSE]
Over(l) == Tidy([Shut(l) EXCEPT !.phase = "over"])

\* pair() throws after the handshake and nothing closes the transport: if it
\* is open it lives on, with its keepalive, and nobody has it.
Leaked(l) == IF l.wire = "open" THEN [l EXCEPT !.phase = "leaked", !.probing = FALSE] ELSE Over(l)

Fresh == {e \in Slots : links[e] = Blank}
Next_Slot == CHOOSE e \in Fresh : \A f \in Fresh : e <= f
InFlight(l) == l.phase \in {"loading", "dialing", "hello", "storing", "checking"}
Pairing == \E e \in Slots : InFlight(links[e]) /\ links[e].kind = "pair"

\* A request awaits a transport, or its answer on one, or an answer that
\* cannot come.
IdleRequest == [state |-> "idle", on |-> 0]
On(e) == [state |-> "sent", on |-> e]
Held == [state |-> "waiting", on |-> 0]
Hung == [state |-> "hung", on |-> 0]

\* iroh's send never throws: on a closed wire a request just stays pending.
Sent(e) == IF links[e].wire = "open" THEN On(e) ELSE Hung

\* onTransportClosed rejects what was pending on the transport.
Rejected(e) == [r \in Requests |-> IF request[r] = On(e) THEN IdleRequest ELSE request[r]]

Init ==
    /\ links = [e \in Slots |-> IF e = 1 THEN [Blank EXCEPT !.phase = "loading"] ELSE Blank]
    /\ cur = 1 /\ current = 0 /\ timer = 0
    /\ wanted = TRUE /\ status = "connecting"
    /\ paired = NoMac
    /\ stored \in Macs \cup {NoMac}
    /\ protocolError = FALSE /\ forgetting = FALSE
    /\ request = [r \in Requests |-> IdleRequest]
    /\ known = {stored} \ {NoMac}
    /\ cuts = 0 /\ pairs = 0 /\ misled = FALSE

-----------------------------------------------------------------------------
(* The supervisor: connect.                                                *)

\* connect(): a new epoch; the timer is cleared, the old transport detached
\* from the facade and closed.
StartConnect ==
    /\ Fresh # {}
    /\ cur' = Next_Slot
    /\ timer' = 0
    /\ current' = 0
    /\ links' = [e \in Slots |->
          IF e = Next_Slot THEN [Blank EXCEPT !.phase = "loading"]
          ELSE IF e = current THEN Over(links[e]) ELSE links[e]]
    /\ request' = Rejected(current)
    /\ wanted' = TRUE
    /\ status' = "connecting"
    /\ UNCHANGED <<paired, stored, protocolError, forgetting, known, counts>>

\* The retry button of a protocol mismatch, which stays during a retry and
\* while the Mac is being forgotten; the pair sheet covers it.
Reset == protocolError /\ ~Pairing /\ StartConnect

TimerFires ==
    /\ timer # 0
    /\ IF timer = cur /\ wanted
       THEN StartConnect
       ELSE /\ timer' = 0
            /\ UNCHANGED <<links, cur, current, wanted, status, paired, stored, protocolError, forgetting, request, known, counts>>

\* Identity and paired record are read. The record is published before the
\* epoch is looked at.
Load(e) ==
    /\ links[e].phase = "loading"
    /\ IF stored = NoMac
       THEN /\ links' = [links EXCEPT ![e] = Over(@)]
            /\ IF cur = e THEN paired' = NoMac /\ status' = "unpaired" ELSE UNCHANGED <<paired, status>>
       ELSE /\ paired' = stored
            /\ links' = [links EXCEPT ![e].phase = "dialing", ![e].mac = stored]
            /\ UNCHANGED status
    /\ UNCHANGED <<cur, current, timer, wanted, stored, protocolError, forgetting, request, known, counts>>

\* The secure store or the identity cannot be read.
LoadFails(e) ==
    /\ links[e].phase = "loading"
    /\ links' = [links EXCEPT ![e] = Over(@)]
    /\ status' = IF cur = e THEN "error" ELSE status
    /\ UNCHANGED <<cur, current, timer, wanted, paired, stored, protocolError, forgetting, request, known, counts>>

\* The dial and the bi-stream succeed; the hello is written.
Dial(e) ==
    /\ links[e].phase = "dialing"
    /\ links' = [links EXCEPT ![e].phase = "hello", ![e].wire = "open", ![e].peer = "incoming", ![e].mail = "hello"]
    /\ UNCHANGED <<supervisor, request, known, counts>>

\* What a failed connect() leaves: a mismatch is terminal, anything else is
\* tried again.
ConnectFails(e, mismatch) ==
    IF cur # e \/ ~wanted
    THEN UNCHANGED <<timer, wanted, status, protocolError>>
    ELSE IF mismatch
         THEN /\ wanted' = FALSE /\ protocolError' = TRUE /\ status' = "error"
              /\ UNCHANGED timer
         ELSE /\ status' = "offline"
              /\ timer' = e
              /\ UNCHANGED <<wanted, protocolError>>

\* pair() only throws: the screen shows it.
Fails(e, mismatch) ==
    IF links[e].kind = "pair"
    THEN misled' = TRUE /\ UNCHANGED <<timer, wanted, status, protocolError>>
    ELSE ConnectFails(e, mismatch) /\ UNCHANGED misled

\* The dial is refused or times out; on a timeout the connection may still
\* come up on the daemon's side, with nobody at this end.
DialFails(e) ==
    /\ links[e].phase = "dialing"
    /\ Fails(e, FALSE)
    /\ \/ links' = [links EXCEPT ![e] = Over(@)]
       \/ links' = [links EXCEPT ![e].phase = "over", ![e].wire = "open", ![e].peer = "incoming"]
    /\ UNCHANGED <<cur, current, paired, stored, forgetting, request, known, cuts, pairs>>

-----------------------------------------------------------------------------
(* The version handshake at the phone, and what follows it.                *)

Arrives(e, frame) ==
    /\ links[e].wire = "open" /\ ~links[e].cut
    /\ links[e].mail = frame

\* A deadline, or a close of the connection that overtakes the answer.
HandshakeFails(e) ==
    /\ links[e].phase = "hello"
    /\ Fails(e, FALSE)
    /\ links' = [links EXCEPT ![e] = Over(@)]
    /\ UNCHANGED <<cur, current, paired, stored, forgetting, request, known, cuts, pairs>>

\* The daemon's refusal: a WireProtocolMismatchError.
Refused(e) ==
    /\ links[e].phase = "hello" /\ Arrives(e, "mismatch")
    /\ Fails(e, TRUE)
    /\ links' = [links EXCEPT ![e] = Over(@)]
    /\ UNCHANGED <<cur, current, paired, stored, forgetting, request, known, cuts, pairs>>

\* The facade takes the transport: reads that wait are sent on it.
Taken(e, ls) == [ls EXCEPT ![e].phase = "attached", ![e].heard = TRUE, ![e].mail = "none"]
Granted(e) == [r \in Requests |->
                 IF request[r] = Held THEN Sent(e)
                 ELSE IF request[r] = On(current) THEN IdleRequest ELSE request[r]]

\* Mutant: a superseded attempt leaves the connection it made open.
Attach_KeepsOpen(e) ==
    /\ links[e].phase = "hello" /\ links[e].kind = "connect" /\ Arrives(e, "server_info")
    /\ IF cur # e
       THEN /\ links' = [links EXCEPT ![e].phase = "attached"]
            /\ UNCHANGED <<supervisor, request>>
       ELSE /\ links' = Taken(e, links)
            /\ current' = e
            /\ request' = Granted(e)
            /\ protocolError' = FALSE
            /\ status' = "ready"
            /\ UNCHANGED <<cur, timer, wanted, paired, stored, forgetting>>
    /\ UNCHANGED <<known, counts>>

\* connect() goes on in the continuation of the handshake.
Attach(e) ==
    /\ links[e].phase = "hello" /\ links[e].kind = "connect" /\ Arrives(e, "server_info")
    /\ IF cur # e
       THEN /\ links' = [links EXCEPT ![e] = Over(@)]
            /\ UNCHANGED <<supervisor, request>>
       ELSE /\ links' = Taken(e, links)
            /\ current' = e
            /\ request' = Granted(e)
            /\ protocolError' = FALSE
            /\ status' = "ready"
            /\ UNCHANGED <<cur, timer, wanted, paired, stored, forgetting>>
    /\ UNCHANGED <<known, counts>>

\* pair(): a new epoch, the timer cleared; the old transport stays attached.
StartPair(m) ==
    /\ ~Pairing /\ pairs < MaxPairs /\ m # paired
    /\ Fresh # {}
    /\ pairs' = pairs + 1
    /\ cur' = Next_Slot
    /\ timer' = 0
    /\ wanted' = TRUE
    /\ links' = [links EXCEPT ![Next_Slot] = [Blank EXCEPT !.kind = "pair", !.mac = m, !.phase = "dialing"]]
    /\ UNCHANGED <<current, status, paired, stored, protocolError, forgetting, request, known, cuts, misled>>

\* Transport.pair is through the handshake and awaits setPairedDaemon.
Greeted(e) ==
    /\ links[e].phase = "hello" /\ links[e].kind = "pair" /\ Arrives(e, "server_info")
    /\ links' = [links EXCEPT ![e].phase = "storing", ![e].mail = "none"]
    /\ UNCHANGED <<supervisor, request, known, counts>>

Store(e) ==
    /\ links[e].phase = "storing"
    /\ stored' = links[e].mac
    /\ links' = [links EXCEPT ![e] = IF cur = e THEN [@ EXCEPT !.phase = "checking"] ELSE Over(@)]
    /\ UNCHANGED <<cur, current, timer, wanted, status, paired, protocolError, forgetting, request, known, counts>>

\* The secure store rejects, the write or the reading back.
StoreFails(e) ==
    /\ links[e].phase \in {"storing", "checking"}
    /\ links' = [links EXCEPT ![e] = Leaked(@)]
    /\ misled' = (misled \/ cur = e)
    /\ UNCHANGED <<supervisor, request, known, cuts, pairs>>

\* The record is read back; the old transport makes way for the new one. The
\* connection may have closed since the handshake, with nobody to hear it.
Swap(e) ==
    /\ links[e].phase = "checking"
    /\ IF stored = NoMac \/ cur # e
       THEN /\ links' = [links EXCEPT ![e] = Over(@)]
            /\ misled' = (misled \/ cur = e)
            /\ UNCHANGED <<current, status, paired, protocolError, request>>
       ELSE /\ links' = Taken(e, IF current = 0 THEN links ELSE [links EXCEPT ![current] = Over(@)])
            /\ current' = e
            /\ request' = Granted(e)
            /\ paired' = stored
            /\ protocolError' = FALSE
            /\ status' = "ready"
            /\ misled' = (misled \/ links[e].wire # "open")
    /\ UNCHANGED <<cur, timer, wanted, stored, forgetting, known, cuts, pairs>>

Unpair ==
    /\ paired # NoMac /\ ~forgetting /\ ~Pairing
    /\ cur' = 0 /\ wanted' = FALSE /\ timer' = 0 /\ current' = 0
    /\ links' = IF current = 0 THEN links ELSE [links EXCEPT ![current] = Over(@)]
    /\ request' = Rejected(current)
    /\ forgetting' = TRUE
    /\ UNCHANGED <<status, paired, stored, protocolError, known, counts>>

Forgotten ==
    /\ forgetting
    /\ forgetting' = FALSE
    /\ stored' = NoMac /\ paired' = NoMac /\ protocolError' = FALSE /\ status' = "unpaired"
    /\ UNCHANGED <<links, cur, current, timer, wanted, request, known, counts>>

-----------------------------------------------------------------------------
(* The transport.                                                          *)

\* handleUnexpectedClose: only the current epoch's transport is retried.
Retries(e) == links[e].heard /\ cur = e /\ wanted

\* Mutant: the handler is dropped once the first retry was scheduled.
CloseSeen_Deaf(e) ==
    /\ links' = [links EXCEPT ![e] = Shut(@)]
    /\ request' = Rejected(e)
    /\ status' = IF Retries(e) THEN "offline" ELSE status
    /\ UNCHANGED <<cur, current, timer, wanted, paired, stored, protocolError, forgetting, known, counts>>

\* onTransportClosed. The dead transport stays with the facade until the
\* retry replaces it.
CloseSeen(e) ==
    /\ links' = [links EXCEPT ![e] = Shut(@)]
    /\ request' = Rejected(e)
    /\ IF Retries(e) THEN timer' = e /\ status' = "offline" ELSE UNCHANGED <<timer, status>>
    /\ UNCHANGED <<cur, current, wanted, paired, stored, protocolError, forgetting, known, counts>>

Established(e) == links[e].phase \in {"storing", "checking", "attached"} /\ links[e].wire = "open"

\* The daemon has closed the connection, or QUIC gives up on the network.
Closed(e) ==
    /\ Established(e)
    /\ links[e].peer = "closed" \/ links[e].cut
    /\ CloseSeen(e)

\* Mutant: the wire is probed only while an answer is awaited.
Ping_WhileAsking(e) ==
    /\ Established(e) /\ ~links[e].probing
    /\ \E r \in Requests : request[r] = On(e)
    /\ links' = [links EXCEPT ![e].probing = TRUE]
    /\ UNCHANGED <<supervisor, request, known, counts>>

\* The ping interval; a tick is skipped while a pong is awaited.
Ping(e) ==
    /\ Established(e) /\ ~links[e].probing
    /\ links' = [links EXCEPT ![e].probing = TRUE]
    /\ UNCHANGED <<supervisor, request, known, counts>>

\* The pong deadline: probeFailed closes the wire. A network that works
\* answers in time.
PongTimeout(e) ==
    /\ Established(e) /\ links[e].probing
    /\ links[e].peer = "closed" \/ links[e].cut
    /\ CloseSeen(e)

\* An exchange on a connection both ends of which are well.
Answers(e) == Established(e) /\ ~links[e].cut /\ links[e].peer = "verified"

Pong(e) ==
    /\ Answers(e) /\ links[e].probing
    /\ links' = [links EXCEPT ![e].probing = FALSE]
    /\ UNCHANGED <<supervisor, request, known, counts>>

Response(r) ==
    /\ \E e \in Slots : request[r] = On(e) /\ Answers(e)
    /\ request' = [request EXCEPT ![r] = IdleRequest]
    /\ UNCHANGED <<links, supervisor, known, counts>>

\* A read RPC of the facade awaits readyPromise and goes to the transport it
\* resolves to.
Read(r) ==
    /\ request[r] = IdleRequest
    /\ request' = [request EXCEPT ![r] = IF current = 0 THEN Held ELSE Sent(current)]
    /\ UNCHANGED <<links, supervisor, known, counts>>

\* A write RPC - a prompt, an interrupt, a model - never waits for a
\* transport: offline it fails at once, which leaves nothing behind.
Write(r) ==
    /\ request[r] = IdleRequest /\ current # 0
    /\ request' = [request EXCEPT ![r] = Sent(current)]
    /\ UNCHANGED <<links, supervisor, known, counts>>

-----------------------------------------------------------------------------
(* The daemon's peer server.                                               *)

ServerEnd(e, states) == links[e].peer \in states

\* closePeer, or the close of a connection that has no peer yet.
PeerClosed(l) == Tidy([l EXCEPT !.peer = "closed", !.mail = IF @ = "hello" THEN "none" ELSE @])

\* handleIncoming: a known client, or any while the pair window is open. The
\* hello timer is armed from here on.
Admit(e) ==
    /\ ServerEnd(e, {"incoming"})
    /\ LET m == links[e].mac
           open == links[e].kind = "pair"
       IN  \/ /\ m \in known \/ open
              /\ known' = known \cup {m}
              /\ links' = [links EXCEPT ![e].peer = "greeting"]
           \/ /\ m \notin known
              /\ links' = [links EXCEPT ![e] = PeerClosed(@)]
              /\ UNCHANGED known
    /\ UNCHANGED <<supervisor, request, counts>>

HelloTimeout(e) ==
    /\ ServerEnd(e, {"greeting"})
    /\ links' = [links EXCEPT ![e] = PeerClosed(@)]
    /\ UNCHANGED <<supervisor, request, known, counts>>

\* The daemon installed now speaks the phone's wire version or it does not.
OnHello(e) ==
    /\ ServerEnd(e, {"greeting"}) /\ links[e].mail = "hello" /\ ~links[e].cut
    /\ \/ links' = [links EXCEPT ![e].mail = "server_info", ![e].peer = "verified"]
       \/ links' = [links EXCEPT ![e].mail = "mismatch", ![e].peer = "closing"]
    /\ UNCHANGED <<supervisor, request, known, counts>>

\* closePeerAfterFlush, of a peer that was refused.
ClosePeer(e) ==
    /\ ServerEnd(e, {"closing"})
    /\ links' = [links EXCEPT ![e] = PeerClosed(@)]
    /\ UNCHANGED <<supervisor, request, known, counts>>

\* The daemon sees the other end gone: conn.closed() settles or readLoop throws.
EndSeen(e) ==
    /\ ServerEnd(e, {"incoming", "greeting", "verified"})
    /\ links[e].wire = "closed" \/ links[e].cut
    /\ links' = [links EXCEPT ![e] = PeerClosed(@)]
    /\ UNCHANGED <<supervisor, request, known, counts>>

\* A connection that nobody at the phone holds goes with the daemon's end, or
\* with its network.
Abandoned(e) ==
    /\ links[e].phase \in {"over", "leaked"} /\ links[e].wire = "open"
    /\ links[e].peer = "closed" \/ links[e].cut
    /\ links' = [links EXCEPT ![e] = Over(@)]
    /\ UNCHANGED <<supervisor, request, known, counts>>

\* The network under a connection dies without a word to either end.
Cut(e) ==
    /\ links[e].wire = "open" /\ links[e].peer \notin {"none", "closed"} /\ ~links[e].cut
    /\ cuts < MaxCuts
    /\ cuts' = cuts + 1
    /\ links' = [links EXCEPT ![e].cut = TRUE]
    /\ UNCHANGED <<supervisor, request, known, pairs, misled>>

\* A daemon stops and starts again.
Restart(m) ==
    /\ cuts < MaxCuts
    /\ cuts' = cuts + 1
    /\ links' = [e \in Slots |->
          IF links[e].mac = m /\ links[e].peer # "none" THEN PeerClosed(links[e]) ELSE links[e]]
    /\ UNCHANGED <<supervisor, request, known, pairs, misled>>

-----------------------------------------------------------------------------
Supervise == Reset \/ TimerFires \/ Unpair \/ Forgotten \/ \E m \in Macs : StartPair(m)
Attempt(e) == Load(e) \/ LoadFails(e) \/ Dial(e) \/ DialFails(e) \/ HandshakeFails(e) \/ Refused(e)
                 \/ Attach(e) \/ Greeted(e) \/ Store(e) \/ StoreFails(e) \/ Swap(e)
Transport(e) == Closed(e) \/ Ping(e) \/ PongTimeout(e) \/ Pong(e)
Keepalive(e) == Ping(e) \/ PongTimeout(e)
Peer(e) == Admit(e) \/ HelloTimeout(e) \/ OnHello(e) \/ ClosePeer(e) \/ EndSeen(e) \/ Abandoned(e)

Next ==
    \/ Supervise
    \/ \E e \in Slots : Attempt(e) \/ Transport(e) \/ Peer(e) \/ Cut(e)
    \/ \E r \in Requests : Read(r) \/ Write(r) \/ Response(r)
    \/ \E m \in Macs : Restart(m)

Spec == Init /\ [][Next]_vars

\* Every await of an attempt has a deadline or reads a local store, a timer
\* that is armed fires, the ping interval ticks, and the daemon's event loop
\* runs its handlers and its hello timers. Nothing is assumed of the user, of
\* how dials and handshakes end, or of when a dead network is noticed other
\* than by a ping.
Fairness ==
    /\ WF_vars(TimerFires) /\ WF_vars(Forgotten)
    /\ \A e \in Slots : WF_vars(Attempt(e)) /\ WF_vars(Keepalive(e)) /\ WF_vars(Peer(e))

LiveSpec == Spec /\ Fairness

-----------------------------------------------------------------------------
(* Properties.                                                             *)

LinkState ==
    [kind : {"connect", "pair"}, mac : Macs \cup {NoMac},
     phase : {"loading", "dialing", "hello", "storing", "checking", "attached", "leaked", "over"},
     wire : {"none", "open", "closed"}, cut : BOOLEAN,
     peer : {"none", "incoming", "greeting", "verified", "closing", "closed"},
     mail : {"none", "hello", "server_info", "mismatch"},
     probing : BOOLEAN, heard : BOOLEAN]

Link(l) ==
    /\ l.probing => l.wire = "open" /\ l.phase \in {"storing", "checking", "attached"}
    /\ l.heard => l.phase = "attached"
    /\ l.mail # "none" => l.phase \in {"hello", "over"}
    /\ l.mac = NoMac => l.phase \in {"loading", "over"} /\ l.peer = "none"
    /\ l.phase \in {"storing", "checking", "leaked"} => l.kind = "pair"

TypeOK ==
    /\ links \in [Slots -> LinkState] /\ \A e \in Slots : Link(links[e])
    /\ {cur, current, timer} \subseteq Slots \cup {0}
    /\ status \in {"connecting", "ready", "offline", "unpaired", "error"}
    /\ {paired, stored} \subseteq Macs \cup {NoMac}
    /\ {wanted, protocolError, forgetting, misled} \subseteq BOOLEAN
    /\ request \in [Requests -> {IdleRequest, Held, Hung} \cup {On(e) : e \in Slots}]
    /\ known \subseteq Macs

\* One live connection carries the app's traffic: an attempt that was
\* overtaken by another pairing, an unpair, a retry or a press of the retry
\* button closes what it had opened, and one that is replaced is closed before
\* (daemon-client-context.tsx:355-361, 409-447). The one connection beside it
\* that may live is that of a pairing whose record could not be stored or read
\* back ("leaked"), which nothing at the phone closes (448-453).
OneTransport ==
    \A e \in Slots : links[e].phase = "attached" /\ links[e].wire = "open" => current = e

Attended ==
    \/ cur # 0 /\ InFlight(links[cur])
    \/ timer # 0 /\ timer = cur
    \/ current # 0 /\ current = cur /\ links[current].wire = "open" /\ links[current].heard
OnItsOwn == paired # NoMac /\ status # "error" /\ ~forgetting

\* A phone that has a Mac is never left alone: an attempt of the current
\* epoch is under way, or its retry is armed, or the transport it uses is
\* open and its close will be heard (daemon-client-context.tsx:164-166) - as
\* long as no pairing with a second Mac has failed, or has lost its connection
\* while its record was being stored.
NeverStranded == OnItsOwn /\ ~misled => Attended

\* When dials, handshakes and networks stop failing, and nobody presses the
\* retry button of a mismatch any more, the app always comes to
\* a live connection, to being unpaired or to an error screen: no order of
\* retries, pairings, closes and late continuations leaves it connecting or
\* offline for good (daemon-client-context.tsx:252-279), and no network that
\* died silently keeps it "ready" (daemon-client.ts:788-829).
Trouble == Reset \/ \E e \in Slots : DialFails(e) \/ HandshakeFails(e) \/ HelloTimeout(e) \/ Cut(e)
Served == status = "ready" /\ current # 0 /\ ~links[current].cut
ComesBack == <>[][~Trouble]_vars => []<>(Served \/ status \in {"unpaired", "error"} \/ misled)

=============================================================================
