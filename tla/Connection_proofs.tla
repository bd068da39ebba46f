-------------------------- MODULE Connection_proofs --------------------------
(* Theorems about Connection, for every number of slots, Macs and requests  *)
(* and every bound: one transport is open for the app, and a phone that has *)
(* a Mac is never left alone. Both speak of the slot the epoch names; they  *)
(* are inductive once it is known what an attempt, a timer and the facade   *)
(* can be when the epoch has moved on (Supervised).                         *)
EXTENDS Connection, WellFoundedInduction, TLAPS

-----------------------------------------------------------------------------
(* The strengthening.                                                      *)

\* A connect() of the current epoch finds the facade empty.
Detached == cur # 0 /\ InFlight(links[cur]) /\ links[cur].kind = "connect" => current = 0

\* The facade's transport came through its handshake and was not let go.
InUse == current # 0 => links[current].phase = "attached"

\* A pairing is of the current epoch: nothing overtakes it.
OnePairing == \A e \in Slots : InFlight(links[e]) /\ links[e].kind = "pair" => cur = e

\* A retry of the current epoch is armed only when its attempt is over.
RetryWaits == timer # 0 /\ timer = cur => ~InFlight(links[cur])

\* Who does not want to reconnect shows an error, is unpairing, or is unpaired.
Resigned ==
    ~wanted =>
       /\ cur # 0 => ~InFlight(links[cur])
       /\ status = "error" \/ forgetting \/ (paired = NoMac /\ stored = NoMac)

\* NeverStranded, also of a pairing that has not been read yet.
Covered ==
    (paired # NoMac \/ stored # NoMac) /\ status # "error" /\ ~forgetting /\ ~misled => Attended

Supervised ==
    Detached /\ InUse /\ OnePairing /\ RetryWaits /\ Resigned /\ Covered /\ OneTransport

-----------------------------------------------------------------------------
(* Slots and links.                                                        *)

LEMMA NoSlot == 0 \notin Slots /\ 1 \in Slots /\ Slots \subseteq Nat
  BY ConnectionAssumption

LEMMA NextIsFresh ==
    ASSUME Fresh # {}
    PROVE  Next_Slot \in Fresh /\ Next_Slot \in Slots /\ links[Next_Slot] = Blank
  <1>1. PICK e \in Fresh : \A f \in Fresh : <<f, e>> \notin OpToRel(<, Nat)
    <2>1. Fresh \subseteq Nat
      BY NoSlot DEF Fresh
    <2> QED BY <2>1, NatLessThanWellFounded, WFMin, Zenon
  <1>2. \A f \in Fresh : e <= f
    <2>1. Fresh \subseteq Nat
      BY NoSlot DEF Fresh
    <2>2. \A f \in Fresh : ~(f < e)
      BY <1>1, <2>1 DEF OpToRel
    <2> QED BY <2>1, <2>2
  <1>3. Next_Slot \in Fresh
    BY <1>1, <1>2 DEF Next_Slot
  <1> QED BY <1>3 DEF Fresh

LEMMA BlankIs ==
    /\ Blank \in LinkState /\ Link(Blank) /\ Blank.phase = "over" /\ Blank.wire = "none"
    /\ ~InFlight(Blank)
  BY DEF Blank, LinkState, Link, InFlight

\* Phases of a slot nobody at the phone holds.
Adrift == {"over", "leaked"}

\* What a slot keeps through a step that does not concern its attempt.
Alike(l, k) ==
    \/ k.phase = l.phase /\ k.kind = l.kind /\ k.wire = l.wire /\ k.heard = l.heard
    \/ l.phase \in Adrift /\ k.phase \in Adrift

LEMMA TidyIs ==
    ASSUME NEW l \in LinkState, Link(l)
    PROVE  /\ Tidy(l) \in LinkState /\ Link(Tidy(l)) /\ Alike(l, Tidy(l))
           /\ l.phase = "over" => Tidy(l).phase = "over"
  BY BlankIs DEF Tidy, Alike, Adrift

LEMMA ShutIs ==
    ASSUME NEW l \in LinkState, Link(l)
    PROVE  /\ Shut(l) \in LinkState /\ Link(Shut(l))
           /\ Shut(l).phase = l.phase /\ Shut(l).kind = l.kind /\ Shut(l).wire = "closed"
           /\ Shut(l).heard = FALSE
  <1> PICK k : k = [l EXCEPT !.wire = "closed", !.mail = "none", !.probing = FALSE, !.heard = FALSE]
    OBVIOUS
  <1>1. /\ k \in LinkState /\ k.phase = l.phase /\ k.kind = l.kind /\ k.wire = "closed"
        /\ k.mail = "none" /\ k.probing = FALSE /\ k.heard = FALSE
        /\ k.mac = l.mac /\ k.peer = l.peer
    BY DEF LinkState
  <1>2. Shut(l) = k
    BY DEF Shut
  <1> QED BY <1>1, <1>2 DEF Link

LEMMA OverIs ==
    ASSUME NEW l \in LinkState, Link(l)
    PROVE  Over(l) \in LinkState /\ Link(Over(l)) /\ Over(l).phase = "over"
  <1> PICK m \in LinkState : m = Shut(l)
    BY ShutIs
  <1> PICK k : k = [m EXCEPT !.phase = "over"]
    OBVIOUS
  <1>1. Link(m) /\ m.heard = FALSE /\ m.wire = "closed"
    BY ShutIs
  <1>2. /\ k \in LinkState /\ k.phase = "over" /\ k.wire = "closed" /\ k.heard = FALSE
        /\ k.probing = m.probing /\ k.mail = m.mail /\ k.mac = m.mac /\ k.peer = m.peer
    BY <1>1 DEF LinkState
  <1>3. Link(k)
    BY <1>1, <1>2 DEF Link
  <1>4. Over(l) = Tidy(k)
    BY DEF Over
  <1> QED BY <1>2, <1>3, <1>4, TidyIs

LEMMA PeerClosedIs ==
    ASSUME NEW l \in LinkState, Link(l), l.peer # "none"
    PROVE  PeerClosed(l) \in LinkState /\ Link(PeerClosed(l)) /\ Alike(l, PeerClosed(l))
  <1> PICK k : k = [l EXCEPT !.peer = "closed", !.mail = IF @ = "hello" THEN "none" ELSE @]
    OBVIOUS
  <1>1. /\ k \in LinkState /\ k.phase = l.phase /\ k.kind = l.kind /\ k.wire = l.wire
        /\ k.heard = l.heard /\ k.probing = l.probing /\ k.mail \in {l.mail, "none"}
        /\ k.mac = l.mac
    BY DEF LinkState
  <1>2. Link(k)
    BY <1>1 DEF Link
  <1>3. PeerClosed(l) = Tidy(k)
    BY DEF PeerClosed
  <1>4. Alike(l, k) /\ Alike(k, Tidy(k))
    BY <1>1, <1>2, TidyIs DEF Alike
  <1>5. Alike(l, Tidy(k))
    BY <1>1, <1>4 DEF Alike
  <1> QED BY <1>1, <1>2, <1>3, <1>5, TidyIs

-----------------------------------------------------------------------------
(* Types.                                                                  *)

LinksOK == links \in [Slots -> LinkState] /\ \A e \in Slots : Link(links[e])

Asked == {IdleRequest, Held, Hung} \cup {On(e) : e \in Slots}

LEMMA TypeParts ==
    TypeOK <=>
       /\ LinksOK
       /\ cur \in Slots \cup {0} /\ current \in Slots \cup {0} /\ timer \in Slots \cup {0}
       /\ status \in {"connecting", "ready", "offline", "unpaired", "error"}
       /\ paired \in Macs \cup {NoMac} /\ stored \in Macs \cup {NoMac}
       /\ wanted \in BOOLEAN /\ protocolError \in BOOLEAN /\ forgetting \in BOOLEAN
       /\ misled \in BOOLEAN
       /\ request \in [Requests -> Asked]
       /\ known \subseteq Macs
  BY DEF TypeOK, LinksOK, Asked

LEMMA PartsType ==
  ASSUME /\ LinksOK'
         /\ cur' \in Slots \cup {0} /\ current' \in Slots \cup {0} /\ timer' \in Slots \cup {0}
         /\ status' \in {"connecting", "ready", "offline", "unpaired", "error"}
         /\ paired' \in Macs \cup {NoMac} /\ stored' \in Macs \cup {NoMac}
         /\ wanted' \in BOOLEAN /\ protocolError' \in BOOLEAN /\ forgetting' \in BOOLEAN
         /\ misled' \in BOOLEAN
         /\ request' \in [Requests -> Asked]
         /\ known' \subseteq Macs
  PROVE  TypeOK'
  BY DEF TypeOK, LinksOK, Asked

\* A step that puts a link into a slot.
Puts(e, l) == links' = [links EXCEPT ![e] = l]
Besides(e) == \A f \in Slots : f # e => links'[f] = links[f]

LEMMA PutIs ==
    ASSUME TypeOK, NEW e \in Slots, NEW l \in LinkState, Link(l), Puts(e, l)
    PROVE  LinksOK' /\ links'[e] = l /\ Besides(e)
  <1>1. links \in [Slots -> LinkState] /\ \A f \in Slots : Link(links[f])
    BY DEF TypeOK
  <1>2. links' \in [Slots -> LinkState] /\ links'[e] = l /\ \A f \in Slots : f # e => links'[f] = links[f]
    BY <1>1 DEF Puts
  <1>3. \A f \in Slots : Link(links'[f])
    BY <1>1, <1>2
  <1> QED BY <1>2, <1>3 DEF LinksOK, Besides

LEMMA RejectedIs ==
    ASSUME TypeOK, NEW e PROVE Rejected(e) \in [Requests -> Asked]
  BY DEF TypeOK, Rejected, Asked

LEMMA SentIs ==
    ASSUME NEW e \in Slots PROVE Sent(e) \in Asked
  BY DEF Sent, Asked

LEMMA GrantedIs ==
    ASSUME TypeOK, NEW e \in Slots PROVE Granted(e) \in [Requests -> Asked]
  <1>1. request \in [Requests -> Asked] /\ IdleRequest \in Asked
    BY DEF TypeOK, Asked
  <1> QED BY <1>1, SentIs DEF Granted

-----------------------------------------------------------------------------
(* How the steps move the supervisor and the slots. Each class of steps     *)
(* keeps the strengthening.                                                 *)

\* Nothing of an attempt or of the supervisor moves.
LEMMA SteadyKeeps ==
  ASSUME TypeOK, Supervised, UNCHANGED supervisor, misled' = misled,
         \A f \in Slots : Alike(links[f], links'[f])
  PROVE  Supervised'
  <1>0. 0 \notin Slots /\ cur \in Slots \cup {0} /\ current \in Slots \cup {0}
    BY NoSlot, TypeParts
  <1>1. \A f \in Slots : InFlight(links'[f]) <=> InFlight(links[f])
    BY DEF Alike, Adrift, InFlight
  <1>2. \A f \in Slots : InFlight(links[f]) => links'[f].kind = links[f].kind
    BY DEF Alike, Adrift, InFlight
  <1>3. \A f \in Slots : links[f].phase = "attached" \/ links'[f].phase = "attached" =>
           /\ links'[f].phase = links[f].phase /\ links'[f].wire = links[f].wire
           /\ links'[f].heard = links[f].heard
    BY DEF Alike, Adrift
  <1>4. /\ cur' = cur /\ current' = current /\ timer' = timer /\ wanted' = wanted
        /\ status' = status /\ paired' = paired /\ stored' = stored /\ forgetting' = forgetting
    BY DEF supervisor
  <1>5. Detached'
    BY <1>0, <1>1, <1>2, <1>4 DEF Supervised, Detached
  <1>6. InUse'
    BY <1>0, <1>3, <1>4 DEF Supervised, InUse
  <1>7. OnePairing'
    BY <1>1, <1>2, <1>4 DEF Supervised, OnePairing
  <1>8. RetryWaits'
    BY <1>0, <1>1, <1>4 DEF Supervised, RetryWaits
  <1>9. Resigned'
    BY <1>0, <1>1, <1>4 DEF Supervised, Resigned
  <1>10. Attended => Attended'
    BY <1>0, <1>1, <1>3, <1>4 DEF Supervised, InUse, Attended
  <1>11. Covered'
    BY <1>4, <1>10 DEF Supervised, Covered
  <1>12. OneTransport'
    BY <1>3, <1>4 DEF Supervised, OneTransport
  <1> QED BY <1>5, <1>6, <1>7, <1>8, <1>9, <1>11, <1>12 DEF Supervised

\* An attempt gets further. The records may be read or written on its way.
LEMMA GoesOnKeeps ==
  ASSUME TypeOK, Supervised, NEW e \in Slots,
         InFlight(links[e]), InFlight(links'[e]), links'[e].kind = links[e].kind, Besides(e),
         UNCHANGED <<cur, current, timer, wanted, status, forgetting, misled>>,
         paired' # NoMac \/ stored' # NoMac => paired # NoMac \/ stored # NoMac \/ cur = e
  PROVE  Supervised'
  <1>0. 0 \notin Slots /\ cur \in Slots \cup {0} /\ current \in Slots \cup {0}
    BY NoSlot, TypeParts
  <1>1. current # e /\ links'[e].phase # "attached"
    BY <1>0 DEF Supervised, InUse, InFlight
  <1>2. \A f \in Slots : f # e => links'[f] = links[f]
    BY DEF Besides
  <1>5. Detached'
    BY <1>0, <1>2 DEF Supervised, Detached
  <1>6. InUse'
    BY <1>0, <1>1, <1>2 DEF Supervised, InUse
  <1>7. OnePairing'
    BY <1>2 DEF Supervised, OnePairing
  <1>8. RetryWaits'
    BY <1>0, <1>2 DEF Supervised, RetryWaits
  <1>9. Resigned'
    <2>1. wanted \/ cur # e
      BY <1>0 DEF Supervised, Resigned
    <2> QED BY <1>0, <1>2, <2>1 DEF Supervised, Resigned
  <1>10. Attended => Attended'
    BY <1>0, <1>1, <1>2 DEF Attended
  <1>11. cur = e => Attended'
    BY <1>0 DEF Attended
  <1>12. Covered'
    BY <1>10, <1>11 DEF Supervised, Covered
  <1>13. OneTransport'
    BY <1>1, <1>2 DEF Supervised, OneTransport
  <1> QED BY <1>5, <1>6, <1>7, <1>8, <1>9, <1>12, <1>13 DEF Supervised

\* An attempt ends. Of the current one something must be left: its retry, an
\* error on the screen, a phone without a Mac, or a pairing that failed.
LEMMA EndsKeep ==
  ASSUME TypeOK, Supervised, NEW e \in Slots,
         InFlight(links[e]), links'[e].phase \in Adrift, Besides(e),
         UNCHANGED <<cur, current, stored, forgetting>>, misled => misled',
         cur # e => UNCHANGED <<timer, wanted, status, paired>>,
         cur = e => /\ wanted' \/ status' = "error"
                    /\ \/ timer' = e
                       \/ status' = "error"
                       \/ misled'
                       \/ paired' = NoMac /\ stored' = NoMac
  PROVE  Supervised'
  <1>0. 0 \notin Slots /\ cur \in Slots \cup {0} /\ current \in Slots \cup {0}
    BY NoSlot, TypeParts
  <1>1. current # e /\ ~InFlight(links'[e]) /\ links'[e].phase # "attached"
    BY <1>0 DEF Supervised, InUse, InFlight, Adrift
  <1>2. \A f \in Slots : f # e => links'[f] = links[f]
    BY DEF Besides
  <1>5. Detached'
    BY <1>0, <1>1, <1>2 DEF Supervised, Detached
  <1>6. InUse'
    BY <1>0, <1>1, <1>2 DEF Supervised, InUse
  <1>7. OnePairing'
    BY <1>1, <1>2 DEF Supervised, OnePairing
  <1>8. RetryWaits'
    BY <1>0, <1>1, <1>2 DEF Supervised, RetryWaits
  <1>9. Resigned'
    BY <1>0, <1>1, <1>2 DEF Supervised, Resigned
  <1>10. cur # e /\ Attended => Attended'
    BY <1>0, <1>1, <1>2 DEF Attended
  <1>11. cur = e /\ timer' = e => Attended'
    BY <1>0 DEF Attended
  <1>12. Covered'
    BY <1>10, <1>11 DEF Supervised, Covered
  <1>13. OneTransport'
    BY <1>1, <1>2 DEF Supervised, OneTransport
  <1> QED BY <1>5, <1>6, <1>7, <1>8, <1>9, <1>12, <1>13 DEF Supervised

\* The current attempt is attached to the facade, in place of what was there.
LEMMA AttachesKeep ==
  ASSUME TypeOK, Supervised, NEW e \in Slots,
         InFlight(links[e]), cur = e, current' = e,
         links'[e].phase = "attached", links'[e].heard,
         misled' \/ links'[e].wire = "open",
         \A f \in Slots \ {e} : \/ links'[f] = links[f] /\ f # current
                                \/ links'[f].phase = "over",
         UNCHANGED <<cur, timer, wanted>>
  PROVE  Supervised'
  <1>0. 0 \notin Slots /\ cur \in Slots \cup {0} /\ current \in Slots \cup {0}
    BY NoSlot, TypeParts
  <1>1. ~InFlight(links'[e]) /\ wanted
    BY <1>0 DEF Supervised, Resigned, InFlight
  <1>2. \A f \in Slots \ {e} : InFlight(links'[f]) => InFlight(links[f]) /\ links'[f] = links[f]
    BY DEF InFlight
  <1>5. Detached'
    BY <1>1 DEF Detached
  <1>6. InUse'
    BY <1>0 DEF InUse
  <1>7. OnePairing'
    BY <1>1, <1>2 DEF Supervised, OnePairing
  <1>8. RetryWaits'
    BY <1>1 DEF RetryWaits
  <1>9. Resigned'
    BY <1>1 DEF Resigned
  <1>12. Covered'
    BY <1>0 DEF Covered, Attended
  <1>13. OneTransport'
    BY <1>0 DEF Supervised, OneTransport
  <1> QED BY <1>5, <1>6, <1>7, <1>8, <1>9, <1>12, <1>13 DEF Supervised

\* A new epoch begins with an attempt in a fresh slot, and a retry is armed no
\* more.
LEMMA BeginsKeeps ==
  ASSUME TypeOK, Supervised, NEW n \in Slots, links[n] = Blank, ~Pairing,
         InFlight(links'[n]), cur' = n, timer' = 0, wanted',
         \/ links'[n].kind = "pair" /\ current' = current /\ Besides(n)
         \/ /\ current' = 0
            /\ \A f \in Slots \ {n} : \/ links'[f] = links[f] /\ f # current
                               \/ links'[f].phase = "over"
  PROVE  Supervised'
  <1>0. 0 \notin Slots /\ cur \in Slots \cup {0} /\ current \in Slots \cup {0}
    BY NoSlot, TypeParts
  <1>1. current # n /\ links'[n].phase # "attached"
    BY <1>0, BlankIs DEF Supervised, InUse, InFlight
  <1>2. \A f \in Slots \ {n} : InFlight(links'[f]) => InFlight(links[f]) /\ links'[f] = links[f]
    BY DEF InFlight, Besides
  <1>5. Detached'
    <2>1. links'[n].kind = "pair" \/ current' = 0
      OBVIOUS
    <2> QED BY <2>1 DEF Detached
  <1>6. InUse'
    BY <1>0, <1>1 DEF Supervised, InUse, Besides
  <1>7. OnePairing'
    BY <1>2 DEF Pairing, OnePairing
  <1>8. RetryWaits'
    BY DEF RetryWaits
  <1>9. Resigned'
    BY DEF Resigned
  <1>12. Covered'
    BY <1>0 DEF Covered, Attended
  <1>13. OneTransport'
    BY <1>0, <1>1 DEF Supervised, OneTransport, Besides
  <1> QED BY <1>5, <1>6, <1>7, <1>8, <1>9, <1>12, <1>13 DEF Supervised

-----------------------------------------------------------------------------
(* The transport and the peer server: nothing moves but one connection.    *)

Kept == TypeOK /\ Supervised

LEMMA LinkTyped ==
  ASSUME TypeOK, NEW e \in Slots
  PROVE  links[e] \in LinkState /\ Link(links[e])
  BY DEF TypeOK

LEMMA SteadyLinks ==
  ASSUME Kept, LinksOK', UNCHANGED supervisor, misled' = misled,
         request' \in [Requests -> Asked], known' \subseteq Macs,
         \A f \in Slots : Alike(links[f], links'[f])
  PROVE  Kept'
  <1>1. Supervised'
    BY SteadyKeeps DEF Kept
  <1>2. TypeOK'
    <2>1. /\ cur' = cur /\ current' = current /\ timer' = timer /\ wanted' = wanted
          /\ status' = status /\ paired' = paired /\ stored' = stored
          /\ forgetting' = forgetting /\ protocolError' = protocolError
      BY DEF supervisor
    <2>2. TypeOK
      BY DEF Kept
    <2> QED BY <2>1, <2>2, TypeParts, PartsType
  <1> QED BY <1>1, <1>2 DEF Kept

LEMMA SteadyIs ==
  ASSUME Kept, NEW e \in Slots, NEW l \in LinkState, Link(l), Alike(links[e], l), Puts(e, l),
         UNCHANGED supervisor, misled' = misled, request' \in [Requests -> Asked], known' \subseteq Macs
  PROVE  Kept'
  <1>1. LinksOK' /\ links'[e] = l /\ \A f \in Slots : f # e => links'[f] = links[f]
    BY PutIs DEF Kept, Besides
  <1>2. \A f \in Slots : Alike(links[f], links'[f])
    BY <1>1 DEF Alike
  <1> QED BY <1>1, <1>2, SteadyLinks

LEMMA PingKeeps ==
  ASSUME Kept, NEW e \in Slots, Ping(e) PROVE Kept'
  <1>1. PICK l : l = [links[e] EXCEPT !.probing = TRUE]
    OBVIOUS
  <1>2. links[e] \in LinkState /\ Link(links[e])
    BY LinkTyped DEF Kept
  <1>3. Established(e)
    BY DEF Ping
  <1>4. l \in LinkState /\ Link(l) /\ Alike(links[e], l)
    BY <1>1, <1>2, <1>3 DEF LinkState, Link, Alike, Established
  <1>5. Puts(e, l) /\ UNCHANGED supervisor /\ misled' = misled /\ request' = request /\ known' = known
    BY <1>1, <1>2 DEF Ping, Puts, LinkState, counts
  <1> QED BY <1>4, <1>5, SteadyIs, TypeParts DEF Kept

LEMMA PongKeeps ==
  ASSUME Kept, NEW e \in Slots, Pong(e) PROVE Kept'
  <1>1. PICK l : l = [links[e] EXCEPT !.probing = FALSE]
    OBVIOUS
  <1>2. links[e] \in LinkState /\ Link(links[e])
    BY LinkTyped DEF Kept
  <1>4. l \in LinkState /\ Link(l) /\ Alike(links[e], l)
    BY <1>1, <1>2 DEF LinkState, Link, Alike
  <1>5. Puts(e, l) /\ UNCHANGED supervisor /\ misled' = misled /\ request' = request /\ known' = known
    BY <1>1, <1>2 DEF Pong, Puts, LinkState, counts
  <1> QED BY <1>4, <1>5, SteadyIs, TypeParts DEF Kept

LEMMA CutKeeps ==
  ASSUME Kept, NEW e \in Slots, Cut(e) PROVE Kept'
  <1>1. PICK l : l = [links[e] EXCEPT !.cut = TRUE]
    OBVIOUS
  <1>2. links[e] \in LinkState /\ Link(links[e])
    BY LinkTyped DEF Kept
  <1>4. l \in LinkState /\ Link(l) /\ Alike(links[e], l)
    BY <1>1, <1>2 DEF LinkState, Link, Alike
  <1>5. Puts(e, l) /\ UNCHANGED supervisor /\ misled' = misled /\ request' = request /\ known' = known
    BY <1>1, <1>2 DEF Cut, Puts, LinkState
  <1> QED BY <1>4, <1>5, SteadyIs, TypeParts DEF Kept

\* The daemon closes its end of a connection: a hello that waits too long, a
\* refusal that was flushed, an end that was seen.
LEMMA PeerClosedKeeps ==
  ASSUME Kept, NEW e \in Slots, links[e].peer # "none", links' = [links EXCEPT ![e] = PeerClosed(@)],
         UNCHANGED <<supervisor, request, known, counts>>
  PROVE  Kept'
  <1>1. PICK l : l = PeerClosed(links[e])
    OBVIOUS
  <1>2. links[e] \in LinkState /\ Link(links[e])
    BY LinkTyped DEF Kept
  <1>4. l \in LinkState /\ Link(l) /\ Alike(links[e], l)
    BY <1>1, <1>2, PeerClosedIs
  <1>5. Puts(e, l) /\ UNCHANGED supervisor /\ misled' = misled /\ request' = request /\ known' = known
    BY <1>1 DEF Puts, counts
  <1> QED BY <1>4, <1>5, SteadyIs, TypeParts DEF Kept

LEMMA AdmitKeeps ==
  ASSUME Kept, NEW e \in Slots, Admit(e) PROVE Kept'
  <1>2. links[e] \in LinkState /\ Link(links[e]) /\ known \subseteq Macs
    BY LinkTyped, TypeParts DEF Kept
  <1>3. CASE links' = [links EXCEPT ![e] = PeerClosed(@)] /\ known' = known
    BY <1>3, PeerClosedKeeps DEF Admit, ServerEnd
  <1>4. CASE links' = [links EXCEPT ![e].peer = "greeting"] /\ known' = known \cup {links[e].mac}
    <2>1. PICK l : l = [links[e] EXCEPT !.peer = "greeting"]
      OBVIOUS
    <2>0. links[e].peer = "incoming"
      BY DEF Admit, ServerEnd
    <2>2. l \in LinkState /\ Link(l) /\ Alike(links[e], l)
      BY <1>2, <2>0, <2>1 DEF LinkState, Link, Alike
    <2>3. Puts(e, l) /\ UNCHANGED supervisor /\ misled' = misled /\ request' = request
      BY <1>2, <1>4, <2>1 DEF Admit, Puts, LinkState, counts
    <2>4. links[e].mac \in Macs
      BY <1>2 DEF Admit, ServerEnd, Link, LinkState
    <2> QED BY <1>2, <1>4, <2>2, <2>3, <2>4, SteadyIs, TypeParts DEF Kept
  <1> QED BY <1>3, <1>4 DEF Admit

LEMMA OnHelloKeeps ==
  ASSUME Kept, NEW e \in Slots, OnHello(e) PROVE Kept'
  <1>1. links[e] \in LinkState /\ Link(links[e]) /\ links[e].mail = "hello" /\ links[e].peer = "greeting"
    BY LinkTyped DEF Kept, OnHello, ServerEnd
  <1>2. PICK l : /\ \/ l = [links[e] EXCEPT !.mail = "server_info", !.peer = "verified"]
                    \/ l = [links[e] EXCEPT !.mail = "mismatch", !.peer = "closing"]
                 /\ Puts(e, l)
    <2>1. PICK a : a = [links[e] EXCEPT !.mail = "server_info", !.peer = "verified"]
      OBVIOUS
    <2>2. PICK b : b = [links[e] EXCEPT !.mail = "mismatch", !.peer = "closing"]
      OBVIOUS
    <2>3. CASE links' = [links EXCEPT ![e].mail = "server_info", ![e].peer = "verified"]
      <3>1. links' = [links EXCEPT ![e] = a]
        BY <2>1, <2>3
      <3> QED BY <2>1, <3>1 DEF Puts
    <2>4. CASE links' = [links EXCEPT ![e].mail = "mismatch", ![e].peer = "closing"]
      <3>1. links' = [links EXCEPT ![e] = b]
        BY <2>2, <2>4
      <3> QED BY <2>2, <3>1 DEF Puts
    <2> QED BY <2>3, <2>4 DEF OnHello
  <1>3. l \in LinkState /\ Link(l) /\ Alike(links[e], l)
    BY <1>1, <1>2 DEF LinkState, Link, Alike
  <1>4. UNCHANGED supervisor /\ misled' = misled /\ request' = request /\ known' = known
    BY DEF OnHello, counts
  <1> QED BY <1>2, <1>3, <1>4, SteadyIs, TypeParts DEF Kept

LEMMA AbandonedKeeps ==
  ASSUME Kept, NEW e \in Slots, Abandoned(e) PROVE Kept'
  <1>1. PICK l : l = Over(links[e])
    OBVIOUS
  <1>2. links[e] \in LinkState /\ Link(links[e]) /\ links[e].phase \in Adrift
    BY LinkTyped DEF Kept, Abandoned, Adrift
  <1>3. l \in LinkState /\ Link(l) /\ Alike(links[e], l)
    BY <1>1, <1>2, OverIs DEF Alike, Adrift
  <1>4. Puts(e, l) /\ UNCHANGED supervisor /\ misled' = misled /\ request' = request /\ known' = known
    BY <1>1 DEF Abandoned, Puts, counts
  <1> QED BY <1>3, <1>4, SteadyIs, TypeParts DEF Kept

LEMMA PeerKeeps ==
  ASSUME Kept, NEW e \in Slots, Peer(e) PROVE Kept'
  <1>1. CASE HelloTimeout(e)
    BY <1>1, PeerClosedKeeps DEF HelloTimeout, ServerEnd
  <1>2. CASE ClosePeer(e)
    BY <1>2, PeerClosedKeeps DEF ClosePeer, ServerEnd
  <1>3. CASE EndSeen(e)
    BY <1>3, PeerClosedKeeps DEF EndSeen, ServerEnd
  <1> QED BY <1>1, <1>2, <1>3, AdmitKeeps, OnHelloKeeps, AbandonedKeeps DEF Peer

LEMMA RestartKeeps ==
  ASSUME Kept, NEW m \in Macs, Restart(m) PROVE Kept'
  <1>1. \A e \in Slots : links[e] \in LinkState /\ Link(links[e])
    BY LinkTyped DEF Kept
  <1>2. links' = [e \in Slots |->
          IF links[e].mac = m /\ links[e].peer # "none" THEN PeerClosed(links[e]) ELSE links[e]]
    BY DEF Restart
  <1>3. \A e \in Slots : links'[e] \in LinkState /\ Link(links'[e]) /\ Alike(links[e], links'[e])
    <2> SUFFICES ASSUME NEW e \in Slots
                 PROVE  links'[e] \in LinkState /\ Link(links'[e]) /\ Alike(links[e], links'[e])
      OBVIOUS
    <2>1. CASE links[e].mac = m /\ links[e].peer # "none"
      <3>1. links'[e] = PeerClosed(links[e])
        BY <1>2, <2>1
      <3> QED BY <1>1, <2>1, <3>1, PeerClosedIs
    <2>2. CASE ~(links[e].mac = m /\ links[e].peer # "none")
      <3>1. links'[e] = links[e]
        BY <1>2, <2>2
      <3> QED BY <1>1, <3>1 DEF Alike
    <2> QED BY <2>1, <2>2
  <1>4. LinksOK'
    BY <1>2, <1>3 DEF LinksOK
  <1>5. UNCHANGED supervisor /\ misled' = misled /\ request' = request /\ known' = known
    BY DEF Restart
  <1> QED BY <1>3, <1>4, <1>5, SteadyLinks, TypeParts DEF Kept

\* A request is asked or answered: no connection changes.
LEMMA RequestKeeps ==
  ASSUME Kept, NEW r \in Requests, Read(r) \/ Write(r) \/ Response(r) PROVE Kept'
  <1>1. UNCHANGED <<links, supervisor, known, counts>>
    BY DEF Read, Write, Response
  <1>2. request \in [Requests -> Asked] /\ IdleRequest \in Asked /\ Held \in Asked
    BY TypeParts DEF Kept, Asked
  <1>3. current # 0 => Sent(current) \in Asked
    BY SentIs, TypeParts DEF Kept
  <1>4. request' \in [Requests -> Asked]
    BY <1>2, <1>3 DEF Read, Write, Response
  <1>5. LinksOK' /\ \A f \in Slots : Alike(links[f], links'[f])
    BY <1>1, TypeParts DEF Kept, LinksOK, Alike
  <1>6. misled' = misled /\ UNCHANGED supervisor /\ known' = known
    BY <1>1 DEF counts
  <1> QED BY <1>4, <1>5, <1>6, SteadyLinks, TypeParts DEF Kept

LEMMA StutterKeeps ==
  ASSUME Kept, UNCHANGED vars PROVE Kept'
  <1>1. UNCHANGED <<links, supervisor, request, known, counts>>
    BY DEF vars
  <1>2. LinksOK' /\ \A f \in Slots : Alike(links[f], links'[f])
    BY <1>1, TypeParts DEF Kept, LinksOK, Alike
  <1>3. misled' = misled /\ UNCHANGED supervisor /\ known' = known /\ request' = request
    BY <1>1 DEF counts
  <1> QED BY <1>2, <1>3, SteadyLinks, TypeParts DEF Kept

-----------------------------------------------------------------------------
(* The attempts.                                                           *)

\* The current attempt is in flight only while the phone wants a connection.
LEMMA WantedInFlight ==
  ASSUME Kept, NEW e \in Slots, InFlight(links[e]), cur = e PROVE wanted
  BY NoSlot DEF Kept, Supervised, Resigned

LEMMA LoadFailsKeeps ==
  ASSUME Kept, NEW e \in Slots, LoadFails(e) PROVE Kept'
  <1>1. links[e] \in LinkState /\ Link(links[e]) /\ InFlight(links[e])
    BY LinkTyped DEF Kept, LoadFails, InFlight
  <1>2. PICK l : l = Over(links[e])
    OBVIOUS
  <1>3. l \in LinkState /\ Link(l) /\ l.phase = "over" /\ Puts(e, l)
    BY <1>1, <1>2, OverIs DEF LoadFails, Puts
  <1>4. LinksOK' /\ links'[e].phase = "over" /\ Besides(e)
    BY <1>3, PutIs DEF Kept
  <1>5. UNCHANGED <<cur, current, timer, wanted, paired, stored, protocolError, forgetting, request, known, misled>>
        /\ status' = IF cur = e THEN "error" ELSE status
    BY DEF LoadFails, counts
  <1>6. Supervised'
    BY <1>1, <1>4, <1>5, EndsKeep DEF Kept, Adrift
  <1>7. TypeOK'
    BY <1>4, <1>5, TypeParts, PartsType DEF Kept
  <1> QED BY <1>6, <1>7 DEF Kept

LEMMA LoadKeeps ==
  ASSUME Kept, NEW e \in Slots, Load(e) PROVE Kept'
  <1>1. links[e] \in LinkState /\ Link(links[e]) /\ InFlight(links[e]) /\ links[e].phase = "loading"
    BY LinkTyped DEF Kept, Load, InFlight
  <1>2. UNCHANGED <<cur, current, timer, wanted, stored, protocolError, forgetting, request, known, misled>>
    BY DEF Load, counts
  <1>t. TypeOK /\ stored \in Macs \cup {NoMac} /\ paired \in Macs \cup {NoMac}
    BY TypeParts DEF Kept
  <1>3. CASE stored = NoMac
    <2>1. PICK l : l = Over(links[e])
      OBVIOUS
    <2>2. l \in LinkState /\ Link(l) /\ l.phase = "over" /\ Puts(e, l)
      BY <1>1, <1>3, <2>1, OverIs DEF Load, Puts
    <2>3. LinksOK' /\ links'[e].phase = "over" /\ Besides(e)
      BY <1>t, <2>2, PutIs
    <2>4. IF cur = e THEN paired' = NoMac /\ status' = "unpaired" ELSE UNCHANGED <<paired, status>>
      BY <1>3 DEF Load
    <2>5. Supervised'
      BY <1>1, <1>2, <1>3, <2>3, <2>4, EndsKeep, WantedInFlight DEF Kept, Adrift
    <2>6. TypeOK'
      BY <1>2, <1>t, <2>3, <2>4, TypeParts, PartsType
    <2> QED BY <2>5, <2>6 DEF Kept
  <1>4. CASE stored # NoMac
    <2>1. PICK l : l = [links[e] EXCEPT !.phase = "dialing", !.mac = stored]
      OBVIOUS
    <2>2. paired' = stored /\ status' = status /\ Puts(e, l)
      <3>1. links' = [links EXCEPT ![e].phase = "dialing", ![e].mac = stored]
        BY <1>4 DEF Load
      <3>2. links' = [links EXCEPT ![e] = l]
        BY <2>1, <3>1
      <3> QED BY <1>4, <3>2 DEF Load, Puts
    <2>3. l \in LinkState /\ Link(l) /\ InFlight(l) /\ l.kind = links[e].kind
      BY <1>1, <1>4, <1>t, <2>1 DEF LinkState, Link, InFlight
    <2>4. LinksOK' /\ links'[e] = l /\ Besides(e)
      BY <1>t, <2>2, <2>3, PutIs
    <2>5. Supervised'
      BY <1>1, <1>2, <1>4, <2>2, <2>3, <2>4, GoesOnKeeps DEF Kept
    <2>6. TypeOK'
      BY <1>2, <1>t, <2>2, <2>4, TypeParts, PartsType
    <2> QED BY <2>5, <2>6 DEF Kept
  <1> QED BY <1>3, <1>4

LEMMA DialKeeps ==
  ASSUME Kept, NEW e \in Slots, Dial(e) PROVE Kept'
  <1>1. links[e] \in LinkState /\ Link(links[e]) /\ InFlight(links[e]) /\ links[e].phase = "dialing"
    BY LinkTyped DEF Kept, Dial, InFlight
  <1>2. UNCHANGED <<cur, current, timer, wanted, status, paired, stored, protocolError, forgetting, request, known, misled>>
    BY DEF Dial, counts, supervisor
  <1>3. PICK l : l = [links[e] EXCEPT !.phase = "hello", !.wire = "open", !.peer = "incoming", !.mail = "hello"]
    OBVIOUS
  <1>4. Puts(e, l)
    <2>1. links' = [links EXCEPT ![e].phase = "hello", ![e].wire = "open", ![e].peer = "incoming", ![e].mail = "hello"]
      BY DEF Dial
    <2>2. links' = [links EXCEPT ![e] = l]
      BY <1>3, <2>1
    <2> QED BY <2>2 DEF Puts
  <1>5. l \in LinkState /\ Link(l) /\ InFlight(l) /\ l.kind = links[e].kind
    BY <1>1, <1>3 DEF LinkState, Link, InFlight
  <1>6. LinksOK' /\ links'[e] = l /\ Besides(e)
    BY <1>4, <1>5, PutIs DEF Kept
  <1>7. Supervised'
    BY <1>1, <1>2, <1>5, <1>6, GoesOnKeeps DEF Kept
  <1>8. TypeOK'
    BY <1>2, <1>6, TypeParts, PartsType DEF Kept
  <1> QED BY <1>7, <1>8 DEF Kept

LEMMA GreetedKeeps ==
  ASSUME Kept, NEW e \in Slots, Greeted(e) PROVE Kept'
  <1>1. links[e] \in LinkState /\ Link(links[e]) /\ InFlight(links[e]) /\ links[e].phase = "hello"
        /\ links[e].kind = "pair"
    BY LinkTyped DEF Kept, Greeted, InFlight
  <1>2. UNCHANGED <<cur, current, timer, wanted, status, paired, stored, protocolError, forgetting, request, known, misled>>
    BY DEF Greeted, counts, supervisor
  <1>3. PICK l : l = [links[e] EXCEPT !.phase = "storing", !.mail = "none"]
    OBVIOUS
  <1>4. Puts(e, l)
    <2>1. links' = [links EXCEPT ![e].phase = "storing", ![e].mail = "none"]
      BY DEF Greeted
    <2>2. links' = [links EXCEPT ![e] = l]
      BY <1>3, <2>1
    <2> QED BY <2>2 DEF Puts
  <1>5. l \in LinkState /\ Link(l) /\ InFlight(l) /\ l.kind = links[e].kind
    BY <1>1, <1>3 DEF LinkState, Link, InFlight
  <1>6. LinksOK' /\ links'[e] = l /\ Besides(e)
    BY <1>4, <1>5, PutIs DEF Kept
  <1>7. Supervised'
    BY <1>1, <1>2, <1>5, <1>6, GoesOnKeeps DEF Kept
  <1>8. TypeOK'
    BY <1>2, <1>6, TypeParts, PartsType DEF Kept
  <1> QED BY <1>7, <1>8 DEF Kept

\* An attempt that fails is retried, or shows why it is not, or fails the
\* pairing it was for.
LEMMA FailsKeep ==
  ASSUME Kept, NEW e \in Slots, NEW mismatch \in BOOLEAN, InFlight(links[e]), Fails(e, mismatch),
         LinksOK', links'[e].phase = "over", Besides(e),
         UNCHANGED <<cur, current, paired, stored, forgetting, request, known>>
  PROVE  Kept'
  <1>0. links'[e].phase \in Adrift
    BY DEF Adrift
  <1>1. CASE links[e].kind = "pair"
    <2>1. misled' = TRUE /\ UNCHANGED <<timer, wanted, status, protocolError>>
      BY <1>1 DEF Fails
    <2>2. Supervised'
      BY <2>1, <1>0, EndsKeep, WantedInFlight DEF Kept
    <2>3. TypeOK'
      BY <2>1, TypeParts, PartsType DEF Kept
    <2> QED BY <2>2, <2>3 DEF Kept
  <1>2. CASE links[e].kind # "pair" /\ cur # e
    <2>1. misled' = misled /\ UNCHANGED <<timer, wanted, status, protocolError>>
      BY <1>2 DEF Fails, ConnectFails
    <2>2. Supervised'
      BY <1>2, <2>1, <1>0, EndsKeep DEF Kept
    <2>3. TypeOK'
      BY <2>1, TypeParts, PartsType DEF Kept
    <2> QED BY <2>2, <2>3 DEF Kept
  <1>3. CASE links[e].kind # "pair" /\ cur = e
    <2>1. wanted /\ misled' = misled
      BY <1>3, WantedInFlight DEF Fails
    <2>2. \/ wanted' = FALSE /\ protocolError' = TRUE /\ status' = "error" /\ timer' = timer
          \/ status' = "offline" /\ timer' = e /\ UNCHANGED <<wanted, protocolError>>
      BY <1>3, <2>1 DEF Fails, ConnectFails
    <2>3. Supervised'
      BY <1>3, <2>1, <2>2, <1>0, EndsKeep DEF Kept
    <2>4. TypeOK'
      BY <2>1, <2>2, TypeParts, PartsType DEF Kept
    <2> QED BY <2>3, <2>4 DEF Kept
  <1> QED BY <1>1, <1>2, <1>3

LEMMA HandshakeEndsKeeps ==
  ASSUME Kept, NEW e \in Slots, HandshakeFails(e) \/ Refused(e) PROVE Kept'
  <1>1. links[e] \in LinkState /\ Link(links[e]) /\ InFlight(links[e])
    BY LinkTyped DEF Kept, HandshakeFails, Refused, InFlight
  <1>2. PICK l : l = Over(links[e])
    OBVIOUS
  <1>3. l \in LinkState /\ Link(l) /\ l.phase = "over" /\ Puts(e, l)
    BY <1>1, <1>2, OverIs DEF HandshakeFails, Refused, Puts
  <1>4. LinksOK' /\ links'[e].phase = "over" /\ Besides(e)
    BY <1>3, PutIs DEF Kept
  <1>5. UNCHANGED <<cur, current, paired, stored, forgetting, request, known>>
    BY DEF HandshakeFails, Refused
  <1>6. Fails(e, TRUE) \/ Fails(e, FALSE)
    BY DEF HandshakeFails, Refused
  <1> QED BY <1>1, <1>4, <1>5, <1>6, FailsKeep

LEMMA DialFailsKeeps ==
  ASSUME Kept, NEW e \in Slots, DialFails(e) PROVE Kept'
  <1>1. links[e] \in LinkState /\ Link(links[e]) /\ InFlight(links[e]) /\ links[e].phase = "dialing"
    BY LinkTyped DEF Kept, DialFails, InFlight
  <1>2. PICK l \in LinkState : Link(l) /\ l.phase = "over" /\ Puts(e, l)
    <2>1. CASE links' = [links EXCEPT ![e] = Over(@)]
      <3>1. PICK l : l = Over(links[e])
        OBVIOUS
      <3>2. l \in LinkState /\ Link(l) /\ l.phase = "over" /\ Puts(e, l)
        BY <1>1, <2>1, <3>1, OverIs DEF Puts
      <3> QED BY <3>2
    <2>2. CASE links' = [links EXCEPT ![e].phase = "over", ![e].wire = "open", ![e].peer = "incoming"]
      <3>1. PICK l : l = [links[e] EXCEPT !.phase = "over", !.wire = "open", !.peer = "incoming"]
        OBVIOUS
      <3>2. links' = [links EXCEPT ![e] = l]
        BY <2>2, <3>1
      <3>3. l \in LinkState /\ Link(l) /\ l.phase = "over"
        BY <1>1, <3>1 DEF LinkState, Link
      <3> QED BY <3>2, <3>3 DEF Puts
    <2> QED BY <2>1, <2>2 DEF DialFails
  <1>3. LinksOK' /\ links'[e].phase = "over" /\ Besides(e)
    BY <1>2, PutIs DEF Kept
  <1>4. UNCHANGED <<cur, current, paired, stored, forgetting, request, known>> /\ Fails(e, FALSE)
    BY DEF DialFails
  <1> QED BY <1>1, <1>3, <1>4, FailsKeep

LEMMA StoreKeeps ==
  ASSUME Kept, NEW e \in Slots, Store(e) PROVE Kept'
  <1>1. links[e] \in LinkState /\ Link(links[e]) /\ InFlight(links[e]) /\ links[e].phase = "storing"
    BY LinkTyped DEF Kept, Store, InFlight
  <1>2. UNCHANGED <<cur, current, timer, wanted, status, paired, protocolError, forgetting, request, known, misled>>
    BY DEF Store, counts
  <1>3. cur = e /\ links[e].mac # NoMac
    BY <1>1 DEF Link, Kept, Supervised, OnePairing
  <1>4. PICK l : l = [links[e] EXCEPT !.phase = "checking"]
    OBVIOUS
  <1>5. Puts(e, l)
    BY <1>3, <1>4 DEF Store, Puts
  <1>6. l \in LinkState /\ Link(l) /\ InFlight(l) /\ l.kind = links[e].kind
    BY <1>1, <1>4 DEF LinkState, Link, InFlight
  <1>7. LinksOK' /\ links'[e] = l /\ Besides(e)
    BY <1>5, <1>6, PutIs DEF Kept
  <1>8. Supervised'
    BY <1>1, <1>2, <1>3, <1>6, <1>7, GoesOnKeeps DEF Kept
  <1>9. stored' \in Macs \cup {NoMac}
    BY <1>1 DEF Store, LinkState
  <1>10. TypeOK'
    BY <1>2, <1>7, <1>9, TypeParts, PartsType DEF Kept
  <1> QED BY <1>8, <1>10 DEF Kept

\* A pairing whose record is not stored leaves its transport to itself.
LEMMA LeakedIs ==
    ASSUME NEW l \in LinkState, Link(l), l.phase \in {"storing", "checking"}
    PROVE  Leaked(l) \in LinkState /\ Link(Leaked(l)) /\ Leaked(l).phase \in Adrift
  <1>1. CASE l.wire = "open"
    <2> PICK k : k = [l EXCEPT !.phase = "leaked", !.probing = FALSE]
      OBVIOUS
    <2>1. /\ k \in LinkState /\ k.phase = "leaked" /\ k.probing = FALSE /\ k.wire = l.wire
          /\ k.heard = l.heard /\ k.mail = l.mail /\ k.mac = l.mac /\ k.peer = l.peer /\ k.kind = l.kind
      BY DEF LinkState
    <2>2. Link(k)
      BY <2>1 DEF Link
    <2>3. Leaked(l) = k
      BY <1>1 DEF Leaked
    <2> QED BY <2>1, <2>2, <2>3 DEF Adrift
  <1>2. CASE l.wire # "open"
    <2>1. Leaked(l) = Over(l)
      BY <1>2 DEF Leaked
    <2> QED BY <2>1, OverIs DEF Adrift
  <1> QED BY <1>1, <1>2

LEMMA StoreFailsKeeps ==
  ASSUME Kept, NEW e \in Slots, StoreFails(e) PROVE Kept'
  <1>1. /\ links[e] \in LinkState /\ Link(links[e]) /\ InFlight(links[e])
        /\ links[e].phase \in {"storing", "checking"}
    BY LinkTyped DEF Kept, StoreFails, InFlight
  <1>2. cur = e
    BY <1>1 DEF Link, Kept, Supervised, OnePairing
  <1>3. PICK l \in LinkState : l = Leaked(links[e]) /\ Link(l) /\ l.phase \in Adrift
    BY <1>1, LeakedIs
  <1>4. Puts(e, l)
    BY <1>3 DEF StoreFails, Puts
  <1>5. LinksOK' /\ links'[e] = l /\ Besides(e)
    BY <1>3, <1>4, PutIs DEF Kept
  <1>6. misled' = TRUE
    BY <1>2, TypeParts DEF StoreFails, Kept
  <1>7. UNCHANGED supervisor /\ request' = request /\ known' = known
    BY DEF StoreFails
  <1>8. Supervised'
    BY <1>1, <1>3, <1>5, <1>6, <1>7, EndsKeep, WantedInFlight DEF Kept, supervisor
  <1>9. TypeOK'
    <2>1. /\ cur' = cur /\ current' = current /\ timer' = timer /\ wanted' = wanted
          /\ status' = status /\ paired' = paired /\ stored' = stored
          /\ forgetting' = forgetting /\ protocolError' = protocolError
      BY <1>7 DEF supervisor
    <2> QED BY <1>5, <1>6, <1>7, <2>1, TypeParts, PartsType DEF Kept
  <1> QED BY <1>8, <1>9 DEF Kept

\* The slot the facade takes, in an array that still holds its attempt.
LEMMA TakenIs ==
  ASSUME NEW e \in Slots, NEW ls \in [Slots -> LinkState], \A f \in Slots : Link(ls[f]),
         ls[e].phase \in {"hello", "checking"}, links' = Taken(e, ls)
  PROVE  /\ LinksOK'
         /\ links'[e].phase = "attached" /\ links'[e].heard /\ links'[e].wire = ls[e].wire
         /\ \A f \in Slots \ {e} : links'[f] = ls[f]
  <1>1. PICK l : l = [ls[e] EXCEPT !.phase = "attached", !.heard = TRUE, !.mail = "none"]
    OBVIOUS
  <1>2. links' = [ls EXCEPT ![e] = l]
    BY <1>1 DEF Taken
  <1>3. ls[e] \in LinkState /\ Link(ls[e])
    OBVIOUS
  <1>4. /\ l \in LinkState /\ l.phase = "attached" /\ l.heard = TRUE /\ l.mail = "none"
        /\ l.wire = ls[e].wire /\ l.probing = ls[e].probing /\ l.mac = ls[e].mac
    BY <1>1, <1>3 DEF LinkState
  <1>5. Link(l)
    BY <1>3, <1>4 DEF Link
  <1>6. links' \in [Slots -> LinkState] /\ links'[e] = l /\ \A f \in Slots \ {e} : links'[f] = ls[f]
    BY <1>2, <1>4
  <1>7. \A f \in Slots : Link(links'[f])
    BY <1>5, <1>6
  <1> QED BY <1>4, <1>6, <1>7 DEF LinksOK

LEMMA AttachKeeps ==
  ASSUME Kept, NEW e \in Slots, Attach(e) PROVE Kept'
  <1>1. links[e] \in LinkState /\ Link(links[e]) /\ InFlight(links[e]) /\ links[e].phase = "hello"
        /\ links[e].kind = "connect" /\ links[e].wire = "open"
    BY LinkTyped DEF Kept, Attach, InFlight, Arrives
  <1>2. known' = known /\ misled' = misled
    BY DEF Attach, counts
  <1>t. TypeOK /\ links \in [Slots -> LinkState] /\ \A f \in Slots : Link(links[f])
    BY DEF Kept, TypeOK
  <1>3. CASE cur # e
    <2>1. PICK l : l = Over(links[e])
      OBVIOUS
    <2>2. l \in LinkState /\ Link(l) /\ l.phase = "over" /\ Puts(e, l)
      BY <1>1, <1>3, <2>1, OverIs DEF Attach, Puts
    <2>3. LinksOK' /\ links'[e].phase = "over" /\ Besides(e)
      BY <1>t, <2>2, PutIs
    <2>4. /\ UNCHANGED <<cur, current, timer, wanted, status, paired, stored, protocolError, forgetting>>
          /\ request' = request
      BY <1>3 DEF Attach, supervisor
    <2>5. Supervised'
      BY <1>1, <1>2, <1>3, <2>3, <2>4, EndsKeep DEF Kept, Adrift
    <2>6. TypeOK'
      BY <1>2, <1>t, <2>3, <2>4, TypeParts, PartsType
    <2> QED BY <2>5, <2>6 DEF Kept
  <1>4. CASE cur = e
    <2>1. /\ links' = Taken(e, links) /\ current' = e /\ request' = Granted(e)
          /\ protocolError' = FALSE /\ status' = "ready"
          /\ UNCHANGED <<cur, timer, wanted, paired, stored, forgetting>>
      BY <1>4 DEF Attach
    <2>2. /\ LinksOK' /\ links'[e].phase = "attached" /\ links'[e].heard /\ links'[e].wire = "open"
          /\ \A f \in Slots \ {e} : links'[f] = links[f]
      BY <1>1, <1>t, <2>1, TakenIs
    <2>3. current = 0
      BY <1>1, <1>4, NoSlot DEF Kept, Supervised, Detached
    <2>4. \A f \in Slots \ {e} : links'[f] = links[f] /\ f # current
      BY <2>2, <2>3, NoSlot
    <2>5. Supervised'
      BY <1>1, <1>4, <2>1, <2>2, <2>4, AttachesKeep DEF Kept
    <2>6. TypeOK'
      BY <1>2, <1>t, <2>1, <2>2, GrantedIs, TypeParts, PartsType
    <2> QED BY <2>5, <2>6 DEF Kept
  <1> QED BY <1>3, <1>4

LEMMA SwapKeeps ==
  ASSUME Kept, NEW e \in Slots, Swap(e) PROVE Kept'
  <1>1. links[e] \in LinkState /\ Link(links[e]) /\ InFlight(links[e]) /\ links[e].phase = "checking"
    BY LinkTyped DEF Kept, Swap, InFlight
  <1>2. UNCHANGED <<cur, timer, wanted, stored, forgetting, known>>
    BY DEF Swap
  <1>t. TypeOK /\ links \in [Slots -> LinkState] /\ \A f \in Slots : Link(links[f])
    BY DEF Kept, TypeOK
  <1>3. cur = e /\ wanted
    BY <1>1, WantedInFlight DEF Link, Kept, Supervised, OnePairing
  <1>4. CASE stored = NoMac
    <2>1. PICK l : l = Over(links[e])
      OBVIOUS
    <2>2. l \in LinkState /\ Link(l) /\ l.phase = "over" /\ Puts(e, l)
      BY <1>1, <1>4, <2>1, OverIs DEF Swap, Puts
    <2>3. LinksOK' /\ links'[e].phase = "over" /\ Besides(e)
      BY <1>t, <2>2, PutIs
    <2>4. UNCHANGED <<current, status, paired, protocolError, request>> /\ misled' = TRUE
      BY <1>3, <1>4, <1>t DEF Swap
    <2>5. Supervised'
      BY <1>1, <1>2, <1>3, <2>3, <2>4, EndsKeep DEF Kept, Adrift
    <2>6. TypeOK'
      BY <1>2, <1>t, <2>3, <2>4, TypeParts, PartsType
    <2> QED BY <2>5, <2>6 DEF Kept
  <1>5. CASE stored # NoMac
    <2>1. /\ current' = e /\ request' = Granted(e) /\ paired' = stored
          /\ protocolError' = FALSE /\ status' = "ready"
          /\ misled' = (misled \/ links[e].wire # "open")
      BY <1>3, <1>5 DEF Swap
    <2>2. PICK ls \in [Slots -> LinkState] :
             /\ links' = Taken(e, ls)
             /\ ls[e] = links[e] /\ \A f \in Slots : Link(ls[f])
             /\ \A f \in Slots \ {e} : \/ ls[f] = links[f] /\ f # current
                                       \/ ls[f].phase = "over"
      <3>1. CASE current = 0
        <4>1. links' = Taken(e, links)
          BY <1>3, <1>5, <3>1 DEF Swap
        <4> QED BY <1>t, <3>1, <4>1, NoSlot
      <3>2. CASE current # 0
        <4>1. PICK l : l = Over(links[current])
          OBVIOUS
        <4>2. current \in Slots /\ current # e
          BY <1>1, <1>t, <3>2, TypeParts DEF Kept, Supervised, InUse
        <4>3. l \in LinkState /\ Link(l) /\ l.phase = "over"
          BY <1>t, <4>1, <4>2, OverIs
        <4>4. PICK ls : ls = [links EXCEPT ![current] = l]
          OBVIOUS
        <4>5. links' = Taken(e, ls)
          BY <1>3, <1>5, <3>2, <4>1, <4>4 DEF Swap
        <4>6. /\ ls \in [Slots -> LinkState] /\ ls[e] = links[e]
              /\ ls[current] = l /\ \A f \in Slots : f # current => ls[f] = links[f]
          BY <1>t, <4>2, <4>3, <4>4
        <4> QED BY <1>t, <4>3, <4>5, <4>6
      <3> QED BY <3>1, <3>2
    <2>3. /\ LinksOK' /\ links'[e].phase = "attached" /\ links'[e].heard
          /\ links'[e].wire = links[e].wire
          /\ \A f \in Slots \ {e} : links'[f] = ls[f]
      BY <1>1, <2>2, TakenIs
    <2>4. misled' \/ links'[e].wire = "open"
      BY <2>1, <2>3
    <2>5. Supervised'
      BY <1>1, <1>2, <1>3, <2>1, <2>2, <2>3, <2>4, AttachesKeep DEF Kept
    <2>6. TypeOK'
      BY <1>2, <1>t, <2>1, <2>3, GrantedIs, TypeParts, PartsType
    <2> QED BY <2>5, <2>6 DEF Kept
  <1> QED BY <1>4, <1>5

-----------------------------------------------------------------------------
(* The close of a transport.                                               *)

LEMMA CloseSeenKeeps ==
  ASSUME Kept, NEW e \in Slots, Established(e), CloseSeen(e) PROVE Kept'
  <1>1. links[e] \in LinkState /\ Link(links[e])
    BY LinkTyped DEF Kept
  <1>2. PICK l : l = Shut(links[e])
    OBVIOUS
  <1>3. /\ l \in LinkState /\ Link(l) /\ l.phase = links[e].phase /\ l.kind = links[e].kind
        /\ l.wire = "closed"
    BY <1>1, <1>2, ShutIs
  <1>4. LinksOK' /\ links'[e] = l /\ Besides(e)
    BY <1>2, <1>3, PutIs DEF CloseSeen, Puts, Kept
  <1>5. /\ UNCHANGED <<cur, current, wanted, paired, stored, protocolError, forgetting, known, misled>>
        /\ request' = Rejected(e)
        /\ IF Retries(e) THEN timer' = e /\ status' = "offline" ELSE UNCHANGED <<timer, status>>
    BY DEF CloseSeen, counts
  <1>6. TypeOK'
    BY <1>4, <1>5, RejectedIs, TypeParts, PartsType DEF Kept
  <1>0. 0 \notin Slots /\ cur \in Slots \cup {0} /\ current \in Slots \cup {0}
    BY NoSlot, TypeParts DEF Kept
  <1>7. \A f \in Slots : links'[f].phase = links[f].phase /\ links'[f].kind = links[f].kind
    BY <1>3, <1>4 DEF Besides
  <1>8. \A f \in Slots : f # e => links'[f] = links[f]
    BY <1>4 DEF Besides
  <1>9. \A f \in Slots : InFlight(links'[f]) <=> InFlight(links[f])
    BY <1>7 DEF InFlight
  <1>10. Retries(e) => cur = e /\ wanted /\ ~InFlight(links[e])
    BY <1>1 DEF Retries, Link, InFlight
  <1>11. Detached'
    BY <1>0, <1>5, <1>7, <1>9 DEF Kept, Supervised, Detached
  <1>12. InUse'
    BY <1>0, <1>5, <1>7 DEF Kept, Supervised, InUse
  <1>13. OnePairing'
    BY <1>5, <1>7, <1>9 DEF Kept, Supervised, OnePairing
  <1>14. RetryWaits'
    BY <1>0, <1>5, <1>9, <1>10 DEF Kept, Supervised, RetryWaits
  <1>15. Resigned'
    BY <1>0, <1>5, <1>9, <1>10 DEF Kept, Supervised, Resigned
  <1>16. Covered'
    <2>1. CASE Retries(e)
      <3>1. timer' = e /\ cur' = e
        BY <1>5, <1>10, <2>1
      <3> QED BY <1>0, <3>1 DEF Covered, Attended
    <2>2. CASE ~Retries(e)
      <3>1. UNCHANGED <<cur, current, timer, wanted, status, paired, stored, forgetting, misled>>
        BY <1>5, <2>2
      <3>2. wanted /\ Attended => Attended'
        BY <1>0, <1>8, <1>9, <2>2, <3>1 DEF Attended, Retries
      <3>3. wanted \/ status = "error" \/ forgetting \/ (paired = NoMac /\ stored = NoMac)
        BY DEF Kept, Supervised, Resigned
      <3> QED BY <3>1, <3>2, <3>3 DEF Kept, Supervised, Covered
    <2> QED BY <2>1, <2>2
  <1>17. OneTransport'
    BY <1>3, <1>4, <1>5, <1>8 DEF Kept, Supervised, OneTransport
  <1>18. Supervised'
    BY <1>11, <1>12, <1>13, <1>14, <1>15, <1>16, <1>17 DEF Supervised
  <1> QED BY <1>6, <1>18 DEF Kept

LEMMA TransportKeeps ==
  ASSUME Kept, NEW e \in Slots, Transport(e) PROVE Kept'
  BY PingKeeps, PongKeeps, CloseSeenKeeps DEF Transport, Closed, PongTimeout

-----------------------------------------------------------------------------
(* The supervisor.                                                         *)

LEMMA StartConnectKeeps ==
  ASSUME Kept, ~Pairing, StartConnect PROVE Kept'
  <1>1. PICK n \in Slots : n = Next_Slot /\ links[n] = Blank
    BY NextIsFresh DEF StartConnect
  <1>t. TypeOK /\ links \in [Slots -> LinkState] /\ \A f \in Slots : Link(links[f])
    BY DEF Kept, TypeOK
  <1>2. PICK b : b = [Blank EXCEPT !.phase = "loading"]
    OBVIOUS
  <1>3. b \in LinkState /\ Link(b) /\ InFlight(b) /\ b.kind = "connect"
    BY <1>2 DEF Blank, LinkState, Link, InFlight
  <1>4. links' = [e \in Slots |-> IF e = n THEN b ELSE IF e = current THEN Over(links[e]) ELSE links[e]]
    BY <1>1, <1>2 DEF StartConnect
  <1>5. current # n
    BY <1>1, BlankIs, NoSlot DEF Kept, Supervised, InUse
  <1>6. links'[n] = b
    BY <1>4
  <1>7. \A f \in Slots \ {n} : /\ links'[f] \in LinkState /\ Link(links'[f])
                               /\ \/ links'[f] = links[f] /\ f # current
                                  \/ links'[f].phase = "over"
    <2> SUFFICES ASSUME NEW f \in Slots \ {n}
                 PROVE  /\ links'[f] \in LinkState /\ Link(links'[f])
                        /\ \/ links'[f] = links[f] /\ f # current
                           \/ links'[f].phase = "over"
      OBVIOUS
    <2>1. CASE f = current
      <3>1. links'[f] = Over(links[f])
        BY <1>4, <2>1
      <3>2. Over(links[f]) \in LinkState /\ Link(Over(links[f])) /\ Over(links[f]).phase = "over"
        BY <1>t, OverIs
      <3> QED BY <3>1, <3>2
    <2>2. CASE f # current
      <3>1. links'[f] = links[f]
        BY <1>4, <2>2
      <3> QED BY <1>t, <2>2, <3>1
    <2> QED BY <2>1, <2>2
  <1>8. LinksOK'
    BY <1>3, <1>4, <1>6, <1>7 DEF LinksOK
  <1>9. /\ cur' = n /\ timer' = 0 /\ current' = 0 /\ request' = Rejected(current)
        /\ wanted' = TRUE /\ status' = "connecting"
        /\ UNCHANGED <<paired, stored, protocolError, forgetting, known, misled>>
    BY <1>1 DEF StartConnect, counts
  <1>10. Supervised'
    BY <1>1, <1>3, <1>6, <1>7, <1>9, BeginsKeeps DEF Kept
  <1>11. TypeOK'
    BY <1>t, <1>8, <1>9, RejectedIs, TypeParts, PartsType
  <1> QED BY <1>10, <1>11 DEF Kept

LEMMA ResetKeeps ==
  ASSUME Kept, Reset PROVE Kept'
  BY StartConnectKeeps DEF Reset

LEMMA TimerFiresKeeps ==
  ASSUME Kept, TimerFires PROVE Kept'
  <1>0. 0 \notin Slots /\ cur \in Slots \cup {0} /\ current \in Slots \cup {0}
    BY NoSlot, TypeParts DEF Kept
  <1>1. CASE timer = cur /\ wanted
    <2>1. ~InFlight(links[cur])
      BY <1>1 DEF TimerFires, Kept, Supervised, RetryWaits
    <2>2. ~Pairing
      BY <2>1 DEF Kept, Supervised, OnePairing, Pairing
    <2> QED BY <1>1, <2>2, StartConnectKeeps DEF TimerFires
  <1>2. CASE ~(timer = cur /\ wanted)
    <2>1. timer' = 0 /\ UNCHANGED <<links, cur, current, wanted, status, paired, stored, protocolError, forgetting, request, known, misled>>
      BY <1>2 DEF TimerFires, counts
    <2>2. LinksOK'
      BY <2>1, TypeParts DEF Kept, LinksOK
    <2>3. TypeOK'
      BY <2>1, <2>2, TypeParts, PartsType DEF Kept
    <2>4. (Detached /\ InUse /\ OnePairing)'
      BY <2>1 DEF Kept, Supervised, Detached, InUse, OnePairing, InFlight
    <2>5. (RetryWaits /\ Resigned /\ OneTransport)'
      BY <2>1 DEF Kept, Supervised, RetryWaits, Resigned, OneTransport, InFlight
    <2>6. Covered'
      <3>1. wanted \/ status = "error" \/ forgetting \/ (paired = NoMac /\ stored = NoMac)
        BY DEF Kept, Supervised, Resigned
      <3>2. wanted /\ Attended => Attended'
        BY <1>2, <2>1 DEF Attended, InFlight
      <3> QED BY <2>1, <3>1, <3>2 DEF Kept, Supervised, Covered
    <2> QED BY <2>3, <2>4, <2>5, <2>6 DEF Kept, Supervised
  <1> QED BY <1>1, <1>2

LEMMA StartPairKeeps ==
  ASSUME Kept, NEW m \in Macs, StartPair(m) PROVE Kept'
  <1>1. PICK n \in Slots : n = Next_Slot /\ links[n] = Blank
    BY NextIsFresh DEF StartPair
  <1>2. PICK b : b = [Blank EXCEPT !.kind = "pair", !.mac = m, !.phase = "dialing"]
    OBVIOUS
  <1>3. b \in LinkState /\ Link(b) /\ InFlight(b) /\ b.kind = "pair"
    BY <1>2, ConnectionAssumption DEF Blank, LinkState, Link, InFlight
  <1>4. Puts(n, b)
    BY <1>1, <1>2 DEF StartPair, Puts
  <1>5. LinksOK' /\ links'[n] = b /\ Besides(n)
    BY <1>3, <1>4, PutIs DEF Kept
  <1>6. /\ cur' = n /\ timer' = 0 /\ wanted' = TRUE /\ ~Pairing
        /\ UNCHANGED <<current, status, paired, stored, protocolError, forgetting, request, known, misled>>
    BY <1>1 DEF StartPair
  <1>7. Supervised'
    BY <1>1, <1>3, <1>5, <1>6, BeginsKeeps DEF Kept
  <1>8. TypeOK'
    BY <1>5, <1>6, TypeParts, PartsType DEF Kept
  <1> QED BY <1>7, <1>8 DEF Kept

LEMMA UnpairKeeps ==
  ASSUME Kept, Unpair PROVE Kept'
  <1>0. 0 \notin Slots /\ current \in Slots \cup {0} /\ TypeOK
    BY NoSlot, TypeParts DEF Kept
  <1>t. links \in [Slots -> LinkState] /\ \A f \in Slots : Link(links[f])
    BY DEF Kept, TypeOK
  <1>1. /\ cur' = 0 /\ wanted' = FALSE /\ timer' = 0 /\ current' = 0 /\ forgetting' = TRUE
        /\ request' = Rejected(current) /\ ~Pairing
        /\ UNCHANGED <<status, paired, stored, protocolError, known, misled>>
    BY DEF Unpair, counts
  <1>2. /\ LinksOK'
        /\ \A f \in Slots : \/ links'[f] = links[f] /\ f # current
                            \/ links'[f].phase = "over"
    <2>1. CASE current = 0
      <3>1. links' = links
        BY <2>1 DEF Unpair
      <3> QED BY <1>0, <1>t, <2>1, <3>1 DEF LinksOK
    <2>2. CASE current # 0
      <3>1. PICK l : l = Over(links[current])
        OBVIOUS
      <3>2. l \in LinkState /\ Link(l) /\ l.phase = "over"
        BY <1>0, <1>t, <2>2, <3>1, OverIs
      <3>3. Puts(current, l)
        BY <2>2, <3>1 DEF Unpair, Puts
      <3>4. LinksOK' /\ links'[current] = l /\ Besides(current)
        BY <1>0, <2>2, <3>2, <3>3, PutIs
      <3> QED BY <3>2, <3>4 DEF Besides
    <2> QED BY <2>1, <2>2
  <1>3. (Detached /\ InUse /\ RetryWaits)'
    BY <1>1 DEF Detached, InUse, RetryWaits
  <1>4. (Resigned /\ Covered)'
    BY <1>1 DEF Resigned, Covered
  <1>5. OnePairing'
    <2>1. \A f \in Slots : InFlight(links'[f]) => links'[f] = links[f]
      BY <1>2 DEF InFlight
    <2> QED BY <1>1, <2>1 DEF OnePairing, Pairing
  <1>6. OneTransport'
    BY <1>2 DEF Kept, Supervised, OneTransport
  <1>7. TypeOK'
    BY <1>0, <1>1, <1>2, RejectedIs, TypeParts, PartsType
  <1> QED BY <1>3, <1>4, <1>5, <1>6, <1>7 DEF Kept, Supervised

LEMMA ForgottenKeeps ==
  ASSUME Kept, Forgotten PROVE Kept'
  <1>1. /\ forgetting' = FALSE /\ stored' = NoMac /\ paired' = NoMac
        /\ protocolError' = FALSE /\ status' = "unpaired"
        /\ UNCHANGED <<links, cur, current, timer, wanted, request, known, misled>>
    BY DEF Forgotten, counts
  <1>2. LinksOK'
    BY <1>1, TypeParts DEF Kept, LinksOK
  <1>3. TypeOK'
    BY <1>1, <1>2, TypeParts, PartsType DEF Kept
  <1>4. (Detached /\ InUse /\ OnePairing)'
    BY <1>1 DEF Kept, Supervised, Detached, InUse, OnePairing, InFlight
  <1>5. (RetryWaits /\ OneTransport)'
    BY <1>1 DEF Kept, Supervised, RetryWaits, OneTransport, InFlight
  <1>6. (Resigned /\ Covered)'
    BY <1>1 DEF Kept, Supervised, Resigned, Covered, InFlight
  <1> QED BY <1>3, <1>4, <1>5, <1>6 DEF Kept, Supervised

-----------------------------------------------------------------------------
(* The theorems.                                                           *)

LEMMA KeptInitially ==
  ASSUME Init PROVE Kept
  <1>1. PICK b : b = [Blank EXCEPT !.phase = "loading"]
    OBVIOUS
  <1>2. b \in LinkState /\ Link(b) /\ InFlight(b) /\ b.kind = "connect" /\ b.phase = "loading"
    BY <1>1 DEF Blank, LinkState, Link, InFlight
  <1>3. links = [e \in Slots |-> IF e = 1 THEN b ELSE Blank]
    BY <1>1 DEF Init
  <1>4. links[1] = b /\ (\A e \in Slots : e # 1 => links[e] = Blank) /\ LinksOK
    BY <1>2, <1>3, BlankIs, NoSlot DEF LinksOK
  <1>5. /\ cur = 1 /\ current = 0 /\ timer = 0 /\ wanted = TRUE /\ status = "connecting"
        /\ paired = NoMac /\ stored \in Macs \cup {NoMac}
        /\ protocolError = FALSE /\ forgetting = FALSE /\ misled = FALSE
        /\ known = {stored} \ {NoMac} /\ request = [r \in Requests |-> IdleRequest]
    BY DEF Init
  <1>6. TypeOK
    <2>1. request \in [Requests -> Asked]
      BY <1>5 DEF Asked
    <2> QED BY <1>4, <1>5, <2>1, NoSlot, TypeParts
  <1>7. Supervised
    <2>1. Detached /\ InUse /\ RetryWaits /\ Resigned
      BY <1>5 DEF Detached, InUse, RetryWaits, Resigned
    <2>2. OnePairing /\ OneTransport
      BY <1>2, <1>4, <1>5, BlankIs DEF OnePairing, OneTransport
    <2>3. Covered
      BY <1>2, <1>4, <1>5 DEF Covered, Attended
    <2> QED BY <2>1, <2>2, <2>3 DEF Supervised
  <1> QED BY <1>6, <1>7 DEF Kept

LEMMA KeptAlways ==
  ASSUME Kept, [Next]_vars PROVE Kept'
  <1>1. CASE UNCHANGED vars
    BY <1>1, StutterKeeps
  <1>2. CASE Supervise
    BY <1>2, ResetKeeps, TimerFiresKeeps, UnpairKeeps, ForgottenKeeps, StartPairKeeps DEF Supervise
  <1>3. CASE \E e \in Slots : Attempt(e) \/ Transport(e) \/ Peer(e) \/ Cut(e)
    <2> PICK e \in Slots : Attempt(e) \/ Transport(e) \/ Peer(e) \/ Cut(e)
      BY <1>3
    <2>1. CASE Attempt(e)
      BY <2>1, LoadKeeps, LoadFailsKeeps, DialKeeps, DialFailsKeeps, HandshakeEndsKeeps,
         AttachKeeps, GreetedKeeps, StoreKeeps, StoreFailsKeeps, SwapKeeps DEF Attempt
    <2> QED BY <2>1, TransportKeeps, PeerKeeps, CutKeeps
  <1>4. CASE \E r \in Requests : Read(r) \/ Write(r) \/ Response(r)
    BY <1>4, RequestKeeps
  <1>5. CASE \E m \in Macs : Restart(m)
    BY <1>5, RestartKeeps
  <1> QED BY <1>1, <1>2, <1>3, <1>4, <1>5 DEF Next

LEMMA KeptThroughout == Spec => []Kept
  <1>1. Init => Kept
    BY KeptInitially
  <1>2. Kept /\ [Next]_vars => Kept'
    BY KeptAlways
  <1> QED BY <1>1, <1>2, PTL DEF Spec

\* Every slot holds an attempt and a connection that fit together, and the
\* supervisor's references name slots or nothing (daemon-client-context.tsx:150-200).
THEOREM TypeCorrect == Spec => []TypeOK
  <1>1. Kept => TypeOK
    BY DEF Kept
  <1> QED BY <1>1, KeptThroughout, PTL

\* Whatever attempts overtake each other, an attached transport whose wire is
\* open is the one the facade speaks on (daemon-client-context.tsx:355-361, 409-447).
THEOREM SpeaksOnOne == Spec => []OneTransport
  <1>1. Kept => OneTransport
    BY DEF Kept, Supervised
  <1> QED BY <1>1, KeptThroughout, PTL

\* A phone that has a Mac is attended in every state: its attempt is under way,
\* its retry armed, or its transport open and heard (daemon-client-context.tsx:164-166).
THEOREM AlwaysAttended == Spec => []NeverStranded
  <1>1. Kept => NeverStranded
    BY DEF Kept, Supervised, Covered, NeverStranded, OnItsOwn
  <1> QED BY <1>1, KeptThroughout, PTL
=============================================================================
