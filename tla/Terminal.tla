------------------------------ MODULE Terminal ------------------------------
(* The terminal of one session on the desktop: the shell and its mirror in *)
(* the Electron main process (desktop/server/pty.ts) and the panes that    *)
(* attach to it over loopback WebSockets (TerminalPane.tsx).               *)
(* The shell belongs to the session and outlives its sockets; one socket   *)
(* is attached at a time and the latest wins.  Output goes to the socket   *)
(* and to a headless terminal, which parses it later, and a new socket is  *)
(* given what the headless terminal holds.                                 *)
(* Output is counted in chunks, numbered per shell.  Sizes, themes and the *)
(* answers to terminal queries are left out.                               *)
(* The parts of the specification are called Pty..., so that one module    *)
(* can extend this one and other components.                               *)
EXTENDS Integers, Sequences, FiniteSets

CONSTANTS
    Panes,       \* terminal panes the session is open in
    MaxSockets,  \* bound: WebSockets ever dialled
    MaxOutput,   \* bound: shells and the chunks of the latest, together
    MaxShells,   \* bound: shells ever spawned
    AckEvery     \* chunks a pane consumes before it reports them (ACK_EVERY)

ASSUME TerminalAssumption ==
    /\ IsFiniteSet(Panes)
    /\ MaxSockets \in Nat /\ MaxOutput \in Nat /\ MaxShells \in Nat
    /\ AckEvery \in Nat \ {0}

VARIABLES
    shell,    \* sessions.get(name): the live shell, its mirror and its client
    spawned,  \* shells spawned so far
    sockets,  \* per socket: both ends and the frames in flight
    dialled,  \* sockets dialled so far
    panes     \* per pane: what its effect closes over, and its screen

ptyvars == <<shell, spawned, sockets, dialled, panes>>

Sockets == 1 .. MaxSockets

-----------------------------------------------------------------------------
(* State.                                                                  *)

\* id 0 is an absent entry.  `out` chunks were put out, the first `parsed`
\* of them are on the headless terminal.
NoShell == [id |-> 0, alive |-> FALSE, out |-> 0, parsed |-> 0, socket |-> 0, outstanding |-> 0]
NewShell(id) == [NoShell EXCEPT !.id = id, !.alive = TRUE]

\* A socket is dialling, open, kicked (the server closed it and its pane
\* does not know), left (the pane's end is closed and the server does not
\* know) or gone.  `shell` is the session its listeners close over.
NewSocket(p) == [pane |-> p, state |-> "dialling", shell |-> 0, down |-> <<>>, up |-> <<>>]
GoneSocket == [NewSocket(CHOOSE p \in Panes : TRUE) EXCEPT !.state = "gone"]

NoPane == [mounted |-> FALSE, ws |-> 0, retry |-> FALSE, acked |-> 0, screen |-> <<>>]

Opened == [kind |-> "opened", n |-> 0]
Snapshot(n) == [kind |-> "snapshot", n |-> n]
Chunk(n) == [kind |-> "chunk", n |-> n]

PtyInit ==
    /\ shell = NoShell /\ spawned = 0
    /\ sockets = [k \in Sockets |-> GoneSocket]
    /\ dialled = 0
    /\ panes = [p \in Panes |-> NoPane]

-----------------------------------------------------------------------------
(* The server.                                                             *)

\* socket.close() on the server's side.
Kick(ss, k) == IF k # 0 /\ ss[k].state = "open" THEN [ss EXCEPT ![k].state = "kicked"] ELSE ss

\* Mutant: the backlog of the previous client is inherited.
Adopt_Backlog(s, k) == [s EXCEPT !.socket = k]

\* The latest client takes the session over, with nothing outstanding: the
\* snapshot is not flow-controlled.
Adopt(s, k) == [s EXCEPT !.socket = k, !.outstanding = 0]

\* The frames of a new client: the handshake, and the mirror if it shows
\* anything.
Greeting(s) == IF s.parsed = 0 THEN <<Opened>> ELSE <<Opened, Snapshot(s.parsed)>>

\* attachPty for a session with a shell, live or found dead later.
AttachPty(s, k) ==
    /\ shell' = Adopt(s, k)
    /\ sockets' = [Kick(sockets, s.socket) EXCEPT
                      ![k].state = "open", ![k].shell = s.id, ![k].down = Greeting(s)]

\* An upgrade: the shell is adopted, or spawned, or the spawn fails and the
\* client is refused.
Upgrade(k) ==
    /\ sockets[k].state = "dialling"
    /\ \/ /\ shell.id # 0
          /\ AttachPty(shell, k)
          /\ UNCHANGED spawned
       \/ /\ shell.id = 0 /\ spawned < MaxShells
          /\ spawned' = spawned + 1
          /\ AttachPty(NewShell(spawned'), k)
       \/ /\ shell.id = 0
          /\ sockets' = [sockets EXCEPT ![k].state = "kicked", ![k].down = <<Opened>>]
          /\ UNCHANGED <<shell, spawned>>
    /\ UNCHANGED <<dialled, panes>>

\* proc.onData: to the mirror's parse queue and to the attached socket,
\* which drops it unless it is open.
Output ==
    /\ shell.alive /\ shell.id + shell.out < MaxOutput
    /\ LET n == shell.out + 1
           k == shell.socket
       IN /\ shell' = [shell EXCEPT !.out = n, !.outstanding = IF k = 0 THEN @ ELSE @ + 1]
          /\ sockets' = IF k # 0 /\ sockets[k].state = "open"
                        THEN [sockets EXCEPT ![k].down = Append(@, Chunk(n))]
                        ELSE sockets
    /\ UNCHANGED <<spawned, dialled, panes>>

\* The headless terminal gets round to its parse queue, and empties it.
Parse ==
    /\ shell.parsed < shell.out
    /\ shell' = [shell EXCEPT !.parsed = shell.out]
    /\ UNCHANGED <<spawned, sockets, dialled, panes>>

Exit ==
    /\ shell.alive
    /\ shell' = [shell EXCEPT !.alive = FALSE]
    /\ UNCHANGED <<spawned, sockets, dialled, panes>>

\* proc.onExit: the entry goes, its client with it.
OnExit ==
    /\ shell.id # 0 /\ ~shell.alive
    /\ shell' = NoShell
    /\ sockets' = Kick(sockets, shell.socket)
    /\ UNCHANGED <<spawned, dialled, panes>>

\* The message listener.  The only message with an effect here is the
\* acknowledgement, and it counts whichever client sends it.
OnMessage(k) ==
    /\ sockets[k].up # <<>>
    /\ sockets' = [sockets EXCEPT ![k].up = Tail(@)]
    /\ LET n == Head(sockets[k].up)
       IN shell' = IF sockets[k].shell # shell.id THEN shell
                   ELSE [shell EXCEPT !.outstanding = IF @ > n THEN @ - n ELSE 0]
    /\ UNCHANGED <<spawned, dialled, panes>>

\* Mutant: any socket of the session that closes detaches its client.
DetachClient_Unchecked(s, k, id) == IF s.id = id THEN [s EXCEPT !.socket = 0] ELSE s

\* The close listener: the session is detached if its client is this socket.
DetachClient(s, k, id) == IF s.id = id /\ s.socket = k THEN [s EXCEPT !.socket = 0] ELSE s

OnClose(k) ==
    /\ sockets[k].state = "left" /\ sockets[k].up = <<>>
    /\ sockets' = [sockets EXCEPT ![k] = GoneSocket]
    /\ shell' = DetachClient(shell, k, sockets[k].shell)
    /\ UNCHANGED <<spawned, dialled, panes>>

-----------------------------------------------------------------------------
(* The panes.                                                              *)

\* The panel is opened: the effect connects once the fonts are ready.
MountPane(p) ==
    /\ ~panes[p].mounted /\ dialled < MaxSockets
    /\ panes' = [panes EXCEPT ![p] = [NoPane EXCEPT !.mounted = TRUE, !.retry = TRUE]]
    /\ UNCHANGED <<shell, spawned, sockets, dialled>>

\* connect(), from the mount or from the retry timer.
Connect(p) ==
    /\ panes[p].retry /\ dialled < MaxSockets
    /\ dialled' = dialled + 1
    /\ sockets' = [sockets EXCEPT ![dialled'] = NewSocket(p)]
    /\ panes' = [panes EXCEPT ![p].ws = dialled', ![p].retry = FALSE]
    /\ UNCHANGED <<shell, spawned>>

\* The pane's end of its socket closes: nothing more reaches it.
Closed(ss, k) ==
    CASE ss[k].state \in {"open", "kicked"} -> [ss EXCEPT ![k].state = "left", ![k].down = <<>>]
      [] ss[k].state = "dialling" -> [ss EXCEPT ![k] = GoneSocket]
      [] OTHER -> ss

\* Mutant: a closed socket is not dialled again.
Lost_ForGood(pane) == [pane EXCEPT !.ws = 0]

\* onclose, unless disposed: the retry timer is set.
Lost(pane) == [pane EXCEPT !.ws = 0, !.retry = TRUE]

\* The connection flaps, or the server's close frame is read.
SocketDrops(p) ==
    LET k == panes[p].ws IN
    /\ k # 0
    /\ panes' = [panes EXCEPT ![p] = Lost(@)]
    /\ sockets' = Closed(sockets, k)
    /\ UNCHANGED <<shell, spawned, dialled>>

ReadClose(p) ==
    /\ panes[p].ws # 0
    /\ sockets[panes[p].ws].state = "kicked" /\ sockets[panes[p].ws].down = <<>>
    /\ SocketDrops(p)

\* The effect's cleanup.
UnmountPane(p) ==
    /\ panes[p].mounted
    /\ panes' = [panes EXCEPT ![p] = NoPane]
    /\ sockets' = IF panes[p].ws = 0 THEN sockets ELSE Closed(sockets, panes[p].ws)
    /\ UNCHANGED <<shell, spawned, dialled>>

\* The screen after a frame: a handshake resets it, a snapshot or a chunk
\* is written to it.
Drawn(screen, frame) ==
    CASE frame.kind = "opened"   -> <<>>
      [] frame.kind = "snapshot" -> screen \o [i \in 1 .. frame.n |-> i]
      [] frame.kind = "chunk"    -> Append(screen, frame.n)

Size(frame) ==
    CASE frame.kind = "opened"   -> 0
      [] frame.kind = "snapshot" -> frame.n
      [] frame.kind = "chunk"    -> 1

\* onopen and onmessage, with the write callback: what was consumed on any
\* socket is reported on the present one, the snapshot included.
Receive(p) ==
    LET k == panes[p].ws IN
    /\ k # 0 /\ sockets[k].down # <<>>
    /\ LET frame == Head(sockets[k].down)
           due   == panes[p].acked + Size(frame)
           acks  == frame.kind # "opened" /\ due >= AckEvery
       IN /\ panes' = [panes EXCEPT ![p].screen = Drawn(@, frame),
                                    ![p].acked = IF acks THEN 0 ELSE due]
          /\ sockets' = [sockets EXCEPT ![k].down = Tail(@),
                                        ![k].up = IF acks THEN Append(@, due) ELSE @]
    /\ UNCHANGED <<shell, spawned, dialled>>

-----------------------------------------------------------------------------
PtyNext ==
    \/ \E k \in Sockets : Upgrade(k) \/ OnMessage(k) \/ OnClose(k)
    \/ Output \/ Parse \/ Exit \/ OnExit
    \/ \E p \in Panes : \/ MountPane(p) \/ Connect(p) \/ SocketDrops(p) \/ ReadClose(p)
                        \/ UnmountPane(p) \/ Receive(p)

PtySpec == PtyInit /\ [][PtyNext]_ptyvars

(* The event loops of both processes run what is ready, and loopback       *)
(* delivers.  Nobody has to type, to unmount or to lose a connection.      *)
PtyFairness ==
    /\ \A k \in Sockets : /\ WF_ptyvars(Upgrade(k))
                          /\ WF_ptyvars(OnMessage(k))
                          /\ WF_ptyvars(OnClose(k))
    /\ WF_ptyvars(Parse) /\ WF_ptyvars(OnExit)
    /\ \A p \in Panes : /\ WF_ptyvars(Connect(p))
                        /\ WF_ptyvars(ReadClose(p))
                        /\ WF_ptyvars(Receive(p))

PtyLiveSpec == PtySpec /\ PtyFairness

-----------------------------------------------------------------------------
(* Properties.                                                             *)

Frames == [kind : {"opened", "snapshot", "chunk"}, n : 0 .. MaxOutput]

(* Every variable holds a value of its kind.                               *)
PtyTypeOK ==
    /\ shell \in [id : 0 .. MaxShells, alive : BOOLEAN, out : 0 .. MaxOutput,
                  parsed : 0 .. MaxOutput, socket : 0 .. MaxSockets, outstanding : Nat]
    /\ spawned \in 0 .. MaxShells /\ dialled \in 0 .. MaxSockets
    /\ \A k \in Sockets :
          /\ sockets[k].pane \in Panes /\ sockets[k].shell \in 0 .. MaxShells
          /\ sockets[k].state \in {"dialling", "open", "kicked", "left", "gone"}
          /\ sockets[k].down \in Seq(Frames) /\ sockets[k].up \in Seq(Nat \ {0})
    /\ panes \in [Panes -> [mounted : BOOLEAN, ws : 0 .. MaxSockets, retry : BOOLEAN,
                            acked : 0 .. AckEvery, screen : Seq(1 .. MaxOutput)]]

\* What the pane of an open socket will show once it has read everything.
Coming(k) ==
    LET frames == sockets[k].down
        screen[i \in 0 .. Len(frames)] ==
            IF i = 0 THEN panes[sockets[k].pane].screen ELSE Drawn(screen[i - 1], frames[i])
    IN  screen[Len(frames)]

(* The client of a session hears it: a socket that neither end has closed  *)
(* is the session's client, and from its attach on every chunk is on its   *)
(* screen or on its way, in order and once, however late the closes of the *)
(* sockets before it arrive (pty.ts attachPty, the close listener).        *)
ClientHearsAll ==
    \A k \in Sockets : (sockets[k].state = "open" /\ shell.id = sockets[k].shell) =>
        /\ shell.socket = k
        /\ \E held, from \in 0 .. shell.out :
              /\ held <= from
              /\ Coming(k) = [i \in 1 .. held |-> i]
                             \o [i \in 1 .. (shell.out - from) |-> from + i]

Sum(s) ==
    LET total[i \in 0 .. Len(s)] == IF i = 0 THEN 0 ELSE total[i - 1] + s[i]
    IN  total[Len(s)]
Live(frames) == Sum([i \in DOMAIN frames |-> IF frames[i].kind = "chunk" THEN 1 ELSE 0])

(* The backlog of a client never drifts upwards: the session counts no     *)
(* more than what its client has been sent and has not reported, across    *)
(* take-overs, reconnections and acknowledgements that arrive late         *)
(* (pty.ts outstanding; TerminalPane.tsx acked).                           *)
BacklogIsOwed ==
    LET k == shell.socket IN
    (k # 0 /\ sockets[k].state = "open") =>
        shell.outstanding <= Live(sockets[k].down) + Sum(sockets[k].up)
                             + panes[sockets[k].pane].acked

HasClient(p) == shell.socket # 0 /\ sockets[shell.socket].pane = p

(* A mounted pane gets the shell, whatever happens to its sockets or to    *)
(* the shell: it holds the session, or another pane has taken it, or the   *)
(* shell could not be started (TerminalPane.tsx onclose; pty.ts onExit).   *)
ComesBack ==
    \A p \in Panes :
        panes[p].mounted ~> (\/ ~panes[p].mounted \/ \E q \in Panes : HasClient(q)
                             \/ dialled = MaxSockets)

=============================================================================
