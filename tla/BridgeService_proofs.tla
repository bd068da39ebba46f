------------------------ MODULE BridgeService_proofs ------------------------
(***************************************************************************)
(* Theorems about BridgeService, for every set of sessions and every       *)
(* bound: the safety properties of its runs.  What an awaiting operation   *)
(* holds on to is in order whatever overlaps (Held, Apart, Owned, Homes).  *)
(* Of a session whose lifecycle operations have never overlapped a good    *)
(* deal more is known (Alone, Mirrored, Flushed), and of the streams while *)
(* no session's have (InStep); that makes the properties inductive.        *)
(***************************************************************************)
EXTENDS BridgeService, TLAPS

-----------------------------------------------------------------------------
(* The strengthenings.                                                     *)

\* A transport of the session: not connected, or connected once.
Connecting(l, s) == l.state \in {"connecting", "refused"} /\ l.session = s
Connected(l, s)  == l.state \in {"up", "dead", "closed"} /\ l.session = s

\* What the awaiting operations hold: an attach its session and transport,
\* an entry its session's transport, a reconnect an entry and, perhaps, the
\* transport that is to replace the entry's.
EntryHeld(i) ==
    /\ entry[i].session = None => entry[i] = NoEntry /\ rec[i] = NoRec
    /\ entry[i].session # None =>
          /\ i <= opened /\ op[i].phase \notin {"auth", "connect"}
          /\ entry[i].link \in Links /\ Connected(link[entry[i].link], entry[i].session)

RecHeld(i) ==
    IF rec[i].phase = "reattach"
    THEN /\ rec[i].link \in Links /\ Connecting(link[rec[i].link], entry[i].session)
         /\ link[rec[i].link].cse = link[entry[i].link].cse
    ELSE rec[i].link = None

OpHeld(i) ==
    /\ op[i].phase # "none" => i <= opened /\ op[i].session \in Sessions
    /\ op[i].phase = "connect" =>
          /\ op[i].link \in Links /\ Connecting(link[op[i].link], op[i].session)
          /\ op[i].cse = link[op[i].link].cse
    /\ op[i].phase \in {"history", "mark"} =>
          /\ op[i].link \in Links /\ Connected(link[op[i].link], op[i].session)
          /\ op[i].kind = "upgrade"

LinkHeld(t) ==
    IF link[t].state = "none" THEN link[t] = NoLink
    ELSE t <= links /\ link[t].session \in Sessions /\ link[t].cse # None

Held ==
    /\ \A s \in Sessions : map[s] # None => entry[map[s]].session = s
    /\ \A i \in Attaches : EntryHeld(i) /\ RecHeld(i) /\ OpHeld(i)
    /\ \A t \in Links : LinkHeld(t)

\* No two of them hold one transport.
Apart ==
    /\ \A i, j \in Attaches : entry[i].link = entry[j].link => i = j \/ entry[i].link = None
    /\ \A i, j \in Attaches : rec[i].link = rec[j].link => i = j \/ rec[i].link = None
    /\ \A i, j \in Attaches :
          op[i].phase = "connect" /\ op[j].phase = "connect" /\ op[i].link = op[j].link => i = j
    /\ \A i, j \in Attaches : op[i].phase = "connect" => op[i].link # rec[j].link

\* A transport that is being connected is an attach's or a reconnect's.
Holds(i, t) ==
    \/ op[i].phase = "connect" /\ op[i].link = t
    \/ rec[i].phase = "reattach" /\ rec[i].link = t
Owned == \A t \in Links : link[t].state = "connecting" => \E i \in Attaches : Holds(i, t)

\* A transport that is up has no close to report.
Silent == \A t \in Links : link[t].state \in {"connecting", "up"} => link[t].closes = 0

\* A cloud session is named once, and belongs to one session.
Uses(s, c) ==
    \/ \E i \in Attaches : op[i].phase # "none" /\ op[i].session = s /\ op[i].cse = c
    \/ \E t \in Links : link[t].session = s /\ link[t].cse = c
    \/ disk[s].cse = c
    \/ boot[s].cse = c

Unnamed(c) == c > opened \/ (op[c].phase = "auth" /\ op[c].cse = None)

Homes ==
    \A c \in Clouds :
       /\ \A r, s \in Sessions : Uses(r, c) /\ Uses(s, c) => r = s
       /\ Unnamed(c) => got[c].ever = 0 /\ got[c].now = 0 /\ \A s \in Sessions : ~Uses(s, c)

\* A session whose operations have never overlapped.
Attaching(i, s) == op[i].session = s /\ op[i].phase \in {"auth", "connect"}
Flushing(i, s)  == op[i].session = s /\ op[i].phase \in {"history", "mark"}
Recovering(i, s) == entry[i].session = s /\ rec[i].phase # "none"

Alone(s) ==
    /\ \A i, j \in Attaches : op[i].session = s /\ op[i].phase # "none"
          /\ op[j].session = s /\ op[j].phase # "none" => i = j
    /\ \A i \in Attaches : Attaching(i, s) =>
          /\ map[s] = None /\ boot[s] = Pure /\ ~stopped
          /\ op[i].kind = "existing" => op[i].cse = disk[s].cse /\ op[i].cse # None
          /\ op[i].kind # "existing" /\ op[i].phase = "auth" => op[i].cse = None
    /\ \A i \in Attaches : Flushing(i, s) => boot[s] = Pure /\ ~stopped
    /\ \A i \in Attaches : Recovering(i, s) => map[s] = i
    /\ \A i \in Attaches : entry[i].session = s /\ (entry[i].refresh \/ entry[i].backoff) =>
          map[s] = i
    /\ boot[s] # Pure => map[s] = None /\ disk[s] = boot[s] /\ ~stopped

Mirrored(s) ==
    /\ ~stopped => bridge[s] = IF map[s] = None THEN None ELSE entry[map[s]].link
    /\ stopped => map[s] = None
    /\ stopped /\ bridge[s] # None =>
          link[bridge[s]].state = "closed" /\ link[bridge[s]].session = s
    /\ \A t \in Links : link[t].session = s /\ link[t].state = "up" =>
          map[s] # None /\ entry[map[s]].link = t
    /\ map[s] # None =>
          /\ link[entry[map[s]].link].state \in {"up", "dead"}
          /\ disk[s].cse = link[entry[map[s]].link].cse
    /\ \A i \in Attaches : entry[i].session = s /\ rec[i].phase = "reattach" =>
          link[entry[i].link].state # "up"

Flushed(s) ==
    /\ \A i \in Attaches : op[i].session = s /\ op[i].phase = "history" =>
          /\ disk[s].cse \in {None, link[op[i].link].cse}
          /\ link[op[i].link].state = "closed" => disk[s].cse = None
    /\ \A i \in Attaches : op[i].session = s /\ op[i].phase = "mark" =>
          disk[s].cse = None \/ disk[s].cse \in flushed
    /\ disk[s].backfilled => disk[s].cse \in flushed

Stamped(s) ==
    /\ disk[s].cse = None => disk[s] = Pure
    /\ boot[s].cse = None => boot[s] = Pure

\* The place in a cloud session's stream that is held on to: nothing before it
\* is still to be given, and what was given after it to this process came by a
\* transport whose connect failed.
Fits(c, n) == n <= got[c].ever /\ \A k \in n + 1 .. got[c].now : <<c, k>> \in spilt

LinkFits(t) == Fits(link[t].cse, link[t].seq)

OpFits(i) ==
    /\ op[i].phase = "auth" =>
          IF op[i].cse = None THEN op[i].seq = 0 ELSE Fits(op[i].cse, op[i].seq)
    /\ op[i].phase = "connect" => LinkFits(op[i].link)

RecFits(i) == rec[i].phase = "reattach" => LinkFits(rec[i].link)

\* The transport that is to replace an entry's may have given some more.
More(i, k) == rec[i].phase = "reattach" /\ k <= link[rec[i].link].seq
EntryFits(i) ==
    LET t == entry[i].link
        c == link[t].cse
    IN /\ link[t].seq <= got[c].ever
       /\ \A k \in link[t].seq + 1 .. got[c].now : <<c, k>> \in spilt \/ More(i, k)
MapFits(s) == map[s] # None => EntryFits(map[s])

FileFits(s) ==
    /\ disk[s].cse # None => disk[s].seq <= got[disk[s].cse].ever
    /\ boot[s] # Pure => got[boot[s].cse].now = 0

InStep ==
    /\ \A i \in Attaches : OpFits(i) /\ RecFits(i)
    /\ \A s \in Sessions : MapFits(s) /\ FileFits(s)

Stamps == \A s \in Sessions : Stamped(s)

\* No two lifecycle operations of any session have overlapped.
Peace    == \A s \in Sessions : ~raced[s]
Streamed == Peace => InStep /\ ~skipped /\ repeated \subseteq spilt

-----------------------------------------------------------------------------
(* Types.                                                                  *)

TypeInv == TypeOK /\ Held

\* The constants, as the proofs use them.
LEMMA Constants ==
    /\ None = 0 /\ None \notin Sessions /\ Ladder \in Nat
    /\ MaxAttaches \in Nat /\ MaxLinks \in Nat /\ MaxInbound \in Nat
    /\ None \notin Attaches /\ None \notin Links /\ None \notin Clouds
    /\ \A i \in Attaches : i \in Nat /\ i >= 1 /\ i \in Clouds
    /\ \A t \in Links : t \in Nat /\ t >= 1
  BY LadderAssumption, SessionsAssumption, BoundsAssumption
     DEF None, Attaches, Links, Clouds

LEMMA Blanks ==
    /\ NoEntry \in Entry /\ NoOp \in Operation /\ NoRec \in Recovery
    /\ NoLink \in Transport /\ Pure \in Worker
  BY Constants DEF NoEntry, NoOp, NoRec, NoLink, Pure, Entry, Operation, Phases,
     Recovery, Transport, Worker

LEMMA Fields ==
    ASSUME TypeOK
    PROVE  /\ \A s \in Sessions : map[s] \in Attaches \cup {None}
           /\ \A i \in Attaches :
                 /\ entry[i] \in Entry /\ entry[i].session \in Sessions \cup {None}
                 /\ entry[i].link \in Links \cup {None} /\ entry[i].attempt \in 0 .. Ladder
                 /\ entry[i].refresh \in BOOLEAN /\ entry[i].backoff \in BOOLEAN
                 /\ op[i] \in Operation /\ op[i].phase \in Phases
                 /\ op[i].session \in Sessions \cup {None}
                 /\ op[i].kind \in {"fresh", "upgrade", "existing"}
                 /\ op[i].cse \in Clouds \cup {None} /\ op[i].link \in Links \cup {None}
                 /\ op[i].seq \in 0 .. MaxInbound
                 /\ rec[i] \in Recovery /\ rec[i].link \in Links \cup {None}
                 /\ rec[i].phase \in {"none", "probe", "swap", "reattach"}
           /\ \A t \in Links :
                 /\ link[t] \in Transport
                 /\ link[t].state \in {"none", "connecting", "refused", "up", "dead", "closed"}
                 /\ link[t].session \in Sessions \cup {None}
                 /\ link[t].cse \in Clouds \cup {None}
                 /\ link[t].seq \in 0 .. MaxInbound /\ link[t].closes \in 0 .. 2
           /\ \A s \in Sessions :
                 /\ disk[s] \in Worker /\ boot[s] \in Worker
                 /\ disk[s].cse \in Clouds \cup {None} /\ boot[s].cse \in Clouds \cup {None}
                 /\ disk[s].seq \in 0 .. MaxInbound /\ boot[s].seq \in 0 .. MaxInbound
  <1>1. /\ map \in [Sessions -> Attaches \cup {None}]
        /\ entry \in [Attaches -> Entry] /\ op \in [Attaches -> Operation]
        /\ rec \in [Attaches -> Recovery] /\ boot \in [Sessions -> Worker]
        /\ link \in [Links -> Transport] /\ disk \in [Sessions -> Worker]
    BY DEF TypeOK
  <1>2. \A i \in Attaches : entry[i] \in Entry /\ op[i] \in Operation /\ rec[i] \in Recovery
    BY <1>1
  <1>3. \A t \in Links : link[t] \in Transport
    BY <1>1
  <1>4. \A s \in Sessions : disk[s] \in Worker /\ boot[s] \in Worker
    BY <1>1
  <1>5. \A i \in Attaches :
           /\ entry[i].session \in Sessions \cup {None}
           /\ entry[i].link \in Links \cup {None} /\ entry[i].attempt \in 0 .. Ladder
           /\ entry[i].refresh \in BOOLEAN /\ entry[i].backoff \in BOOLEAN
    BY <1>2 DEF Entry
  <1>6. \A i \in Attaches :
           /\ op[i].phase \in Phases
           /\ op[i].session \in Sessions \cup {None}
           /\ op[i].kind \in {"fresh", "upgrade", "existing"}
           /\ op[i].cse \in Clouds \cup {None} /\ op[i].link \in Links \cup {None}
           /\ op[i].seq \in 0 .. MaxInbound
    BY <1>2 DEF Operation
  <1>7. \A i \in Attaches : rec[i].link \in Links \cup {None}
                            /\ rec[i].phase \in {"none", "probe", "swap", "reattach"}
    BY <1>2 DEF Recovery
  <1>8. \A t \in Links :
           /\ link[t].state \in {"none", "connecting", "refused", "up", "dead", "closed"}
           /\ link[t].session \in Sessions \cup {None}
           /\ link[t].cse \in Clouds \cup {None}
           /\ link[t].seq \in 0 .. MaxInbound /\ link[t].closes \in 0 .. 2
    BY <1>3 DEF Transport
  <1>9. \A s \in Sessions :
           /\ disk[s].cse \in Clouds \cup {None} /\ boot[s].cse \in Clouds \cup {None}
           /\ disk[s].seq \in 0 .. MaxInbound /\ boot[s].seq \in 0 .. MaxInbound
    BY <1>4 DEF Worker
  <1> QED BY <1>1, <1>2, <1>3, <1>4, <1>5, <1>6, <1>7, <1>8, <1>9

\* The entries are the same objects, with other timers and attempts.
Retimed(e, f) ==
    /\ f \in [Attaches -> Entry]
    /\ \A i \in Attaches : f[i].session = e[i].session /\ f[i].link = e[i].link

\* Nothing of entry i has changed but it.
Besides(e, f, i) == \A j \in Attaches \ {i} : f[j] = e[j]

LEMMA DisarmedEntry ==
    ASSUME NEW e \in [Attaches -> Entry], NEW i \in Attaches
    PROVE  /\ Retimed(e, Disarmed(e, i)) /\ Besides(e, Disarmed(e, i), i)
           /\ ~Disarmed(e, i)[i].refresh /\ ~Disarmed(e, i)[i].backoff
           /\ Disarmed(e, i)[i].attempt = e[i].attempt
  BY DEF Disarmed, Entry, Retimed, Besides

\* Entry j may have got its refresh timer.
Armed(e, f, j) ==
    /\ Retimed(e, f) /\ Besides(e, f, j)
    /\ \A i \in Attaches : f[i].backoff = e[i].backoff /\ f[i].attempt = e[i].attempt

LEMMA ArmedEntry ==
    ASSUME NEW e \in [Attaches -> Entry], NEW s \in Sessions,
           NEW m \in [Sessions -> Attaches \cup {None}]
    PROVE  Armed(e, ArmRefresh(e, m, s), m[s])
  BY DEF ArmRefresh, Entry, Armed, Retimed, Besides

LEMMA RetriedEntry ==
    ASSUME TypeOK, NEW s \in Sessions
    PROVE  /\ Retimed(entry, ScheduleRetry(entry, s))
           /\ Besides(entry, ScheduleRetry(entry, s), map[s])
           /\ map[s] # None => \/ ScheduleRetry(entry, s)[map[s]].backoff
                               \/ ScheduleRetry(entry, s)[map[s]].attempt = Ladder
  <1>1. entry \in [Attaches -> Entry] /\ map[s] \in Attaches \cup {None} /\ Ladder \in Nat
    BY Constants DEF TypeOK
  <1>2. CASE map[s] = None
    BY <1>1, <1>2 DEF ScheduleRetry, Retimed, Besides
  <1>3. CASE map[s] # None
    <2>1. map[s] \in Attaches /\ entry[map[s]] \in Entry /\ entry[map[s]].attempt \in 0 .. Ladder
      BY <1>1, <1>3 DEF Entry
    <2>2. CASE entry[map[s]].attempt >= Ladder
      <3>1. ScheduleRetry(entry, s) = [entry EXCEPT ![map[s]].backoff = FALSE]
        BY <1>3, <2>2 DEF ScheduleRetry
      <3>2. entry[map[s]].attempt = Ladder
        BY <2>1, <2>2, <1>1
      <3>3. /\ Retimed(entry, ScheduleRetry(entry, s))
            /\ Besides(entry, ScheduleRetry(entry, s), map[s])
        <4> PICK m \in Attaches : m = map[s]
          BY <2>1
        <4>1. [entry EXCEPT ![m].backoff = FALSE] \in [Attaches -> Entry]
          BY <1>1 DEF Entry
        <4> QED BY <4>1, <1>1, <3>1 DEF Retimed, Besides
      <3>4. ScheduleRetry(entry, s)[map[s]].attempt = Ladder
        BY <1>1, <2>1, <3>1, <3>2
      <3> QED BY <3>3, <3>4
    <2>3. CASE ~(entry[map[s]].attempt >= Ladder)
      <3>1. ScheduleRetry(entry, s)
            = [entry EXCEPT ![map[s]].attempt = @ + 1, ![map[s]].backoff = TRUE]
        BY <1>3, <2>3 DEF ScheduleRetry
      <3>2. entry[map[s]].attempt + 1 \in 0 .. Ladder
        BY <2>1, <2>3, <1>1
      <3> QED BY <1>1, <2>1, <3>1, <3>2 DEF Entry, Retimed, Besides
    <2> QED BY <2>2, <2>3
  <1> QED BY <1>2, <1>3


-----------------------------------------------------------------------------
(* What is held, under the actions that take nothing up.                   *)

\* A transport is the same object, and was not connected by the step.
SameLink(t) ==
    /\ link'[t].session = link[t].session /\ link'[t].cse = link[t].cse
    /\ link[t].state = "none" => link'[t] = link[t]
    /\ \/ link'[t].state = link[t].state
       \/ link[t].state \in {"up", "dead", "closed"} /\ link'[t].state \in {"up", "dead", "closed"}
       \/ link[t].state = "connecting" /\ link'[t].state = "refused"

\* An attach or upgrade is as it was, or at its end, or past the history.
OpEased(i) ==
    \/ op'[i] = op[i]
    \/ op'[i].phase = "none" /\ op'[i].session = None /\ op[i].phase # "connect"
    \/ /\ op[i].phase = "history" /\ op'[i].phase = "mark"
       /\ op'[i].session = op[i].session /\ op'[i].link = op[i].link
       /\ op'[i].kind = op[i].kind /\ op'[i].cse = op[i].cse

\* A reconnect is as it was, at its end, or without a transport.
RecEased(i) ==
    \/ rec'[i] = rec[i]
    \/ rec'[i] = NoRec /\ rec[i].phase # "reattach"
    \/ /\ entry[i].session # None /\ rec[i].phase # "reattach" /\ rec'[i].link = None
       /\ rec'[i].phase \in {"probe", "swap"}

EntriesEased ==
    /\ Retimed(entry, entry')
    /\ \A i \in Attaches : entry[i].session = None => entry'[i] = entry[i]

Eased ==
    /\ \A s \in Sessions : map'[s] \in {map[s], None}
    /\ EntriesEased
    /\ \A i \in Attaches : RecEased(i) /\ OpEased(i)
    /\ \A t \in Links : SameLink(t)
    /\ opened' = opened /\ links' = links

LEMMA EasedHolds ==
    ASSUME TypeInv, Apart, Eased
    PROVE  Held' /\ Apart'
  <1>t. /\ None = 0 /\ None \notin Sessions /\ None \notin Attaches /\ None \notin Links
    BY Constants
  <1>f. \A i \in Attaches : entry'[i].session = entry[i].session /\ entry'[i].link = entry[i].link
    BY DEF Eased, EntriesEased, Retimed
  <1>l. \A t \in Links : \A s :
       /\ (Connecting(link'[t], s) <=> Connecting(link[t], s))
       /\ (Connected(link'[t], s) <=> Connected(link[t], s))
    BY DEF Eased, SameLink, Connecting, Connected
  <1>c. \A t \in Links : link'[t].cse = link[t].cse /\ link'[t].session = link[t].session
    BY DEF Eased, SameLink
  <1>o. \A i \in Attaches :
           /\ op'[i].phase \in {"auth", "connect"} => op'[i] = op[i]
           /\ op'[i].phase # "none" => op[i].phase # "none" /\ op'[i].session = op[i].session
           /\ op'[i].phase \in {"history", "mark"} =>
                 /\ op[i].phase \in {"history", "mark"}
                 /\ op'[i].link = op[i].link /\ op'[i].kind = op[i].kind
    BY DEF Eased, OpEased
  <1>r. \A i \in Attaches :
           /\ rec'[i].phase = "reattach" => rec'[i] = rec[i]
           /\ rec'[i].phase # "reattach" => rec'[i].link = None
    BY DEF Eased, RecEased, NoRec, TypeInv, Held, RecHeld
  <1>1. \A s \in Sessions : map'[s] # None => entry'[map'[s]].session = s
    <2> SUFFICES ASSUME NEW s \in Sessions, map'[s] # None
                 PROVE  entry'[map'[s]].session = s
      OBVIOUS
    <2>1. map'[s] = map[s] /\ map[s] \in Attaches
      BY Fields DEF Eased, TypeInv
    <2> QED BY <2>1, <1>f DEF TypeInv, Held
  <1>2. ASSUME NEW i \in Attaches PROVE EntryHeld(i)'
    <2>1. entry'[i].session = None => entry'[i] = NoEntry /\ rec'[i] = NoRec
      BY <1>f DEF Eased, EntriesEased, RecEased, TypeInv, Held, EntryHeld
    <2>2. ASSUME entry'[i].session # None
          PROVE  /\ i <= opened' /\ op'[i].phase \notin {"auth", "connect"}
                 /\ entry'[i].link \in Links
                 /\ Connected(link'[entry'[i].link], entry'[i].session)
      <3>1. /\ i <= opened /\ op[i].phase \notin {"auth", "connect"}
            /\ entry[i].link \in Links /\ Connected(link[entry[i].link], entry[i].session)
        BY <2>2, <1>f DEF TypeInv, Held, EntryHeld
      <3> QED BY <3>1, <1>f, <1>l, <1>o DEF Eased
    <2> QED BY <2>1, <2>2 DEF EntryHeld
  <1>3. ASSUME NEW i \in Attaches PROVE RecHeld(i)'
    <2>1. CASE rec'[i].phase # "reattach"
      BY <2>1, <1>r DEF RecHeld
    <2>2. CASE rec'[i].phase = "reattach"
      <3>1. rec'[i] = rec[i] /\ rec[i].phase = "reattach"
        BY <2>2, <1>r
      <3>2. /\ rec[i].link \in Links /\ Connecting(link[rec[i].link], entry[i].session)
            /\ link[rec[i].link].cse = link[entry[i].link].cse
        BY <3>1 DEF TypeInv, Held, RecHeld
      <3>3. entry[i].session # None /\ entry[i].link \in Links
        BY <3>1 DEF TypeInv, Held, EntryHeld, NoRec
      <3> QED BY <2>2, <3>1, <3>2, <3>3, <1>f, <1>l, <1>c DEF RecHeld
    <2> QED BY <2>1, <2>2
  <1>4. ASSUME NEW i \in Attaches PROVE OpHeld(i)'
    <2>1. OpHeld(i)
      BY DEF TypeInv, Held
    <2>2. op'[i].phase # "none" => i <= opened' /\ op'[i].session \in Sessions
      BY <2>1, <1>o DEF Eased, OpHeld
    <2>3. op'[i].phase = "connect" =>
          /\ op'[i].link \in Links /\ Connecting(link'[op'[i].link], op'[i].session)
          /\ op'[i].cse = link'[op'[i].link].cse
      BY <2>1, <1>o, <1>l, <1>c DEF OpHeld
    <2>4. op'[i].phase \in {"history", "mark"} =>
          /\ op'[i].link \in Links /\ Connected(link'[op'[i].link], op'[i].session)
          /\ op'[i].kind = "upgrade"
      BY <2>1, <1>o, <1>l, <1>c DEF OpHeld
    <2> QED BY <2>2, <2>3, <2>4 DEF OpHeld
  <1>5. ASSUME NEW t \in Links PROVE LinkHeld(t)'
    BY DEF Eased, SameLink, TypeInv, Held, LinkHeld
  <1>11. Held'
    BY <1>1, <1>2, <1>3, <1>4, <1>5 DEF Held
  <1>12. Apart'
    <2>1. \A i \in Attaches : rec'[i].link = None \/ rec'[i] = rec[i]
      BY <1>r
    <2>2. \A i \in Attaches : op'[i].phase = "connect" =>
             op[i].phase = "connect" /\ op'[i].link = op[i].link
      BY <1>o
    <2>3. \A i, j \in Attaches : entry'[i].link = entry'[j].link => i = j \/ entry'[i].link = None
      BY <1>f DEF Apart
    <2>4. \A i, j \in Attaches : rec'[i].link = rec'[j].link => i = j \/ rec'[i].link = None
      BY <2>1 DEF Apart
    <2>5. \A i, j \in Attaches : op'[i].phase = "connect" /\ op'[j].phase = "connect"
             /\ op'[i].link = op'[j].link => i = j
      BY <2>2 DEF Apart
    <2>6. \A i, j \in Attaches : op'[i].phase = "connect" => op'[i].link # rec'[j].link
      <3> SUFFICES ASSUME NEW i \in Attaches, NEW j \in Attaches, op'[i].phase = "connect",
                          op'[i].link = rec'[j].link
                   PROVE  FALSE
        OBVIOUS
      <3>1. op[i].link \in Links /\ op[i].link # rec[j].link /\ op[i].phase = "connect"
        BY <2>2 DEF Apart, TypeInv, Held, OpHeld
      <3> QED BY <3>1, <2>1, <2>2, <1>t
    <2> QED BY <2>3, <2>4, <2>5, <2>6 DEF Apart
  <1> QED BY <1>11, <1>12


\* The timers of f are some of those of e, and the attempts are the same.
FewerTimers(e, f) ==
    \A i \in Attaches : /\ f[i].refresh => e[i].refresh
                        /\ f[i].backoff => e[i].backoff
                        /\ f[i].attempt = e[i].attempt

\* What recover has made of the reconnects.
Recovered(s) ==
    /\ \A i \in Attaches : \/ rec'[i] = rec[i]
                           \/ /\ map[s] = i /\ rec[i].phase = "none"
                              /\ rec'[i].phase = "probe" /\ rec'[i].link = None
    /\ ~stopped /\ map[s] # None => rec'[map[s]].phase # "none"

LEMMA RecoverDoes ==
    ASSUME TypeInv, NEW s \in Sessions, NEW e, Retimed(entry, e),
           \A i \in Attaches : entry[i].session = None => e[i] = entry[i],
           Recover(s, e)
    PROVE  /\ EntriesEased /\ rec' \in [Attaches -> Recovery]
           /\ \A i \in Attaches : RecEased(i)
           /\ Recovered(s) /\ FewerTimers(e, entry') /\ Besides(e, entry', map[s])
  <1>t. /\ None \notin Sessions /\ None \notin Attaches
    BY Constants
  <1>1. /\ e \in [Attaches -> Entry] /\ rec \in [Attaches -> Recovery]
        /\ \A i \in Attaches : e[i].session = entry[i].session /\ e[i].link = entry[i].link
        /\ map[s] \in Attaches \cup {None}
    BY DEF Retimed, TypeInv, TypeOK
  <1>2. CASE stopped \/ map[s] = None \/ rec[map[s]].phase # "none"
    <2>1. entry' = e /\ rec' = rec
      BY <1>2 DEF Recover
    <2> QED BY <2>1, <1>1, <1>2 DEF EntriesEased, RecEased, Recovered, FewerTimers, Retimed,
               Besides
  <1>3. CASE ~(stopped \/ map[s] = None \/ rec[map[s]].phase # "none")
    <2> PICK m \in Attaches : m = map[s]
      BY <1>1, <1>3
    <2>1. entry' = Disarmed(e, m) /\ rec' = [rec EXCEPT ![m].phase = "probe"]
      BY <1>3 DEF Recover
    <2>2. /\ Retimed(e, entry') /\ Besides(e, entry', m) /\ ~entry'[m].refresh
          /\ ~entry'[m].backoff /\ entry'[m].attempt = e[m].attempt
      BY <2>1, <1>1, DisarmedEntry
    <2>3. rec[m].phase = "none" /\ rec[m].link = None /\ entry[m].session = s
      BY <1>3, <1>1 DEF TypeInv, Held, RecHeld
    <2>4. /\ rec' \in [Attaches -> Recovery] /\ rec'[m].phase = "probe" /\ rec'[m].link = None
          /\ \A i \in Attaches : i # m => rec'[i] = rec[i]
      BY <2>1, <1>1, <2>3 DEF Recovery
    <2>5. EntriesEased
      BY <2>2, <2>3, <1>1, <1>t DEF EntriesEased, Retimed, Besides
    <2>6. \A i \in Attaches : RecEased(i)
      BY <2>3, <2>4, <1>t DEF RecEased
    <2>7. Recovered(s)
      BY <2>3, <2>4 DEF Recovered
    <2>8. FewerTimers(e, entry')
      BY <2>2 DEF FewerTimers, Besides
    <2> QED BY <2>2, <2>4, <2>5, <2>6, <2>7, <2>8
  <1> QED BY <1>2, <1>3

\* A timer's entry with the timer gone off.
LEMMA TimerOff ==
    ASSUME TypeInv, NEW i \in Attaches, entry[i].refresh \/ entry[i].backoff
    PROVE  /\ entry[i].session \in Sessions
           /\ \A e \in {[entry EXCEPT ![i].refresh = FALSE], [entry EXCEPT ![i].backoff = FALSE]} :
                 /\ Retimed(entry, e) /\ Besides(entry, e, i) /\ FewerTimers(entry, e)
                 /\ \A j \in Attaches : entry[j].session = None => e[j] = entry[j]
  <1>1. entry \in [Attaches -> Entry] /\ entry[i] \in Entry
    BY DEF TypeInv, TypeOK
  <1>2. entry[i].session \in Sessions
    BY <1>1 DEF TypeInv, Held, EntryHeld, NoEntry, Entry
  <1>3. ASSUME NEW e \in {[entry EXCEPT ![i].refresh = FALSE], [entry EXCEPT ![i].backoff = FALSE]}
        PROVE  /\ Retimed(entry, e) /\ Besides(entry, e, i) /\ FewerTimers(entry, e)
               /\ \A j \in Attaches : entry[j].session = None => e[j] = entry[j]
    <2>1. e \in [Attaches -> Entry] /\ \A j \in Attaches : j # i => e[j] = entry[j]
      <3>1. CASE e = [entry EXCEPT ![i].refresh = FALSE]
        <4>1. [entry[i] EXCEPT !.refresh = FALSE] \in Entry
          BY <1>1 DEF Entry
        <4> QED BY <4>1, <3>1, <1>1
      <3>2. CASE e = [entry EXCEPT ![i].backoff = FALSE]
        <4>1. [entry[i] EXCEPT !.backoff = FALSE] \in Entry
          BY <1>1 DEF Entry
        <4> QED BY <4>1, <3>2, <1>1
      <3> QED BY <3>1, <3>2
    <2>2. /\ e[i].session = entry[i].session /\ e[i].link = entry[i].link
          /\ e[i].attempt = entry[i].attempt
          /\ e[i].refresh => entry[i].refresh
          /\ e[i].backoff => entry[i].backoff
      BY <1>1 DEF Entry
    <2>3. entry[i].session # None
      BY <1>2, Constants
    <2> QED BY <2>1, <2>2, <2>3 DEF Retimed, Besides, FewerTimers
  <1> QED BY <1>2, <1>3

\* What a step that changes the entries, the reconnects, the transports and
\* nothing else of them leaves to show.
LEMMA EasedStep ==
    ASSUME TypeInv, EntriesEased, \A i \in Attaches : RecEased(i),
           \A t \in Links : SameLink(t), UNCHANGED <<map, op, opened, links>>
    PROVE  Eased
  BY DEF Eased, OpEased

LEMMA SameLinks ==
    ASSUME link' = link PROVE \A t \in Links : SameLink(t)
  BY DEF SameLink

LEMMA TimersEased ==
    ASSUME TypeInv, NEW i \in Attaches, RefreshDue(i) \/ RetryDue(i)
    PROVE  TypeOK' /\ Eased
  <1>e. PICK e : /\ e \in {[entry EXCEPT ![i].refresh = FALSE], [entry EXCEPT ![i].backoff = FALSE]}
                 /\ Recover(entry[i].session, e)
    BY DEF RefreshDue, RetryDue
  <1>0. /\ entry[i].refresh \/ entry[i].backoff
        /\ UNCHANGED <<stopped, map, refreshing, op, boot, link, bridge, disk, cloudVars,
                   countVars, inboundVars, raced>>
    BY DEF RefreshDue, RetryDue
  <1>1. /\ entry[i].session \in Sessions /\ Retimed(entry, e)
        /\ \A j \in Attaches : entry[j].session = None => e[j] = entry[j]
    BY <1>0, <1>e, TimerOff
  <1>2. EntriesEased /\ rec' \in [Attaches -> Recovery] /\ \A j \in Attaches : RecEased(j)
    BY <1>1, <1>e, RecoverDoes
  <1>3. Eased
    BY <1>0, <1>2, EasedStep, SameLinks DEF countVars
  <1>4. entry' \in [Attaches -> Entry]
    BY <1>2 DEF EntriesEased, Retimed
  <1>5. TypeOK'
    BY <1>0, <1>2, <1>4 DEF TypeInv, TypeOK, cloudVars, countVars, inboundVars
  <1> QED BY <1>3, <1>5


\* What forget has made of the entries and of the map.
Forgotten(s) ==
    /\ map' \in [Sessions -> Attaches \cup {None}] /\ map'[s] = None
    /\ \A r \in Sessions : r # s => map'[r] = map[r] /\ bridge'[r] = bridge[r]
    /\ Besides(entry, entry', map[s]) /\ FewerTimers(entry, entry')
    /\ ~entry'[map[s]].refresh /\ ~entry'[map[s]].backoff
    /\ bridge' \in [Sessions -> Links \cup {None}] /\ refreshing' \in BOOLEAN
    /\ bridge'[s] = IF bridge[s] = entry[map[s]].link THEN None ELSE bridge[s]

LEMMA ForgetDoes ==
    ASSUME TypeInv, NEW s \in Sessions, map[s] # None, Forget(s)
    PROVE  EntriesEased /\ Forgotten(s)
  <1>t. /\ None \notin Sessions /\ None \notin Attaches
    BY Constants
  <1>1. /\ entry \in [Attaches -> Entry] /\ map \in [Sessions -> Attaches \cup {None}]
        /\ bridge \in [Sessions -> Links \cup {None}] /\ refreshing \in BOOLEAN
    BY DEF TypeInv, TypeOK
  <1> PICK m \in Attaches : m = map[s]
    BY <1>1
  <1>2. /\ map' = [map EXCEPT ![s] = None] /\ entry' = Disarmed(entry, m)
        /\ bridge' = [bridge EXCEPT ![s] = IF @ = entry[m].link THEN None ELSE @]
        /\ refreshing' = (refreshing /\ \E r \in Sessions \ {s} : map[r] # None)
    BY DEF Forget
  <1>3. /\ Retimed(entry, entry') /\ Besides(entry, entry', m) /\ ~entry'[m].refresh
        /\ ~entry'[m].backoff /\ entry'[m].attempt = entry[m].attempt
    BY <1>1, <1>2, DisarmedEntry
  <1>4. entry[m].session = s
    BY DEF TypeInv, Held
  <1>5. EntriesEased
    BY <1>3, <1>4, <1>t DEF EntriesEased, Besides
  <1>6. FewerTimers(entry, entry')
    BY <1>3 DEF FewerTimers, Besides
  <1>7. /\ bridge' \in [Sessions -> Links \cup {None}]
        /\ bridge'[s] = IF bridge[s] = entry[m].link THEN None ELSE bridge[s]
        /\ \A r \in Sessions : r # s => bridge'[r] = bridge[r]
    BY <1>1, <1>2
  <1>8. /\ map' \in [Sessions -> Attaches \cup {None}] /\ map'[s] = None
        /\ \A r \in Sessions : r # s => map'[r] = map[r]
    BY <1>1, <1>2
  <1> QED BY <1>2, <1>3, <1>5, <1>6, <1>7, <1>8 DEF Forgotten

\* One transport has changed, and is the same object.
Relinked(t) ==
    /\ link' \in [Links -> Transport] /\ \A u \in Links : u # t => link'[u] = link[u]
    /\ SameLink(t)

LEMMA RelinkedSame ==
    ASSUME NEW t, Relinked(t) PROVE \A u \in Links : SameLink(u)
  BY DEF Relinked, SameLink

LEMMA ShutDoes ==
    ASSUME TypeInv, NEW t \in Links, link' = Shut(t)
    PROVE  /\ link' \in [Links -> Transport] /\ \A u \in Links : u # t => link'[u] = link[u]
           /\ link'[t].state = "closed" /\ link'[t].session = link[t].session
           /\ link'[t].cse = link[t].cse /\ link'[t].seq = link[t].seq
           /\ link'[t].closes = link[t].closes
           /\ link[t].state \notin {"none", "connecting", "refused"} => Relinked(t)
  <1>1. link \in [Links -> Transport] /\ link[t] \in Transport
    BY DEF TypeInv, TypeOK
  <1>2. [link[t] EXCEPT !.state = "closed"] \in Transport
    BY <1>1 DEF Transport
  <1>3. /\ link' \in [Links -> Transport] /\ \A u \in Links : u # t => link'[u] = link[u]
        /\ link'[t] = [link[t] EXCEPT !.state = "closed"]
    BY <1>1, <1>2 DEF Shut
  <1>4. /\ link'[t].state = "closed" /\ link'[t].session = link[t].session
        /\ link'[t].cse = link[t].cse /\ link'[t].seq = link[t].seq
        /\ link'[t].closes = link[t].closes
    BY <1>1, <1>3 DEF Transport
  <1>5. link[t].state \in {"none", "connecting", "refused", "up", "dead", "closed"}
    BY <1>1 DEF Transport
  <1> QED BY <1>3, <1>4, <1>5 DEF Relinked, SameLink

LEMMA DetachDoes ==
    ASSUME TypeInv, NEW s \in Sessions, map[s] # None, Detach(s)
    PROVE  /\ EntriesEased /\ Forgotten(s)
           /\ entry[map[s]].link \in Links /\ link' = Shut(entry[map[s]].link)
           /\ Relinked(entry[map[s]].link)
           /\ disk' \in [Sessions -> Worker] /\ disk'[s] = Pure
           /\ \A r \in Sessions : r # s => disk'[r] = disk[r]
  <1>1. EntriesEased /\ Forgotten(s)
    BY ForgetDoes DEF Detach
  <1>2. entry[map[s]].link \in Links
        /\ link[entry[map[s]].link].state \notin {"none", "connecting", "refused"}
    <2>1. map[s] \in Attaches /\ entry[map[s]].session = s
      BY Fields DEF TypeInv, Held
    <2> QED BY <2>1, Constants DEF TypeInv, Held, EntryHeld, Connected
  <1>3. link' = Shut(entry[map[s]].link) /\ disk' = [disk EXCEPT ![s] = Pure]
    BY DEF Detach
  <1>4. Relinked(entry[map[s]].link)
    BY <1>2, <1>3, ShutDoes
  <1>5. disk \in [Sessions -> Worker]
    BY DEF TypeInv, TypeOK
  <1> QED BY <1>1, <1>2, <1>3, <1>4, <1>5, Blanks

LEMMA SameEntries ==
    ASSUME TypeInv, entry' = entry PROVE EntriesEased /\ FewerTimers(entry, entry')
  BY DEF TypeInv, TypeOK, EntriesEased, Retimed, FewerTimers

\* A step that changes no reconnect, or ends one.
LEMMA ForgetEased ==
    ASSUME TypeInv, EntriesEased, \A i \in Attaches : RecEased(i),
           \A t \in Links : SameLink(t), UNCHANGED <<op, opened, links>>,
           \A s \in Sessions : map'[s] \in {map[s], None}
    PROVE  Eased
  BY DEF Eased, OpEased

LEMMA UnbridgeEased ==
    ASSUME TypeInv, NEW s \in Sessions, Unbridge(s)
    PROVE  TypeOK' /\ Eased
  <1>0. /\ Unbridged(s) /\ raced' = [raced EXCEPT ![s] = @ \/ Busy(s)]
        /\ UNCHANGED <<stopped, waitVars, cloudVars, countVars, inboundVars>>
    BY DEF Unbridge, Overlap
  <1>r. raced' \in [Sessions -> BOOLEAN] /\ \A i \in Attaches : RecEased(i)
    BY <1>0 DEF TypeInv, TypeOK, RecEased, waitVars
  <1>1. CASE map[s] = None
    <2>1. UNCHANGED <<map, entry, bridge, refreshing, link, disk>>
      BY <1>0, <1>1 DEF Unbridged
    <2> QED BY <2>1, <1>0, <1>r, SameEntries, SameLinks, EasedStep
            DEF TypeInv, TypeOK, waitVars, cloudVars, countVars, inboundVars
  <1>2. CASE map[s] # None
    <2>1. Detach(s)
      BY <1>0, <1>2 DEF Unbridged
    <2>2. /\ EntriesEased /\ Forgotten(s) /\ \A t \in Links : SameLink(t)
          /\ disk' \in [Sessions -> Worker] /\ link' \in [Links -> Transport]
      BY <2>1, <1>2, DetachDoes, RelinkedSame DEF Relinked
    <2>3. \A r \in Sessions : map'[r] \in {map[r], None}
      BY <2>2 DEF Forgotten
    <2>4. Eased
      BY <2>2, <2>3, <1>0, <1>r, ForgetEased DEF waitVars, countVars
    <2>5. entry' \in [Attaches -> Entry]
      BY <2>2 DEF EntriesEased, Retimed
    <2> QED BY <2>2, <2>4, <2>5, <1>0, <1>r
            DEF TypeInv, TypeOK, Forgotten, waitVars, cloudVars, countVars, inboundVars
  <1> QED BY <1>1, <1>2


\* A reconnect that ends.
LEMMA FinishedDoes ==
    ASSUME TypeInv, NEW i \in Attaches, Finished(i)
    PROVE  /\ rec' \in [Attaches -> Recovery] /\ rec'[i] = NoRec
           /\ \A j \in Attaches : j # i => rec'[j] = rec[j]
           /\ rec[i].phase # "reattach" => \A j \in Attaches : RecEased(j)
  BY Blanks DEF Finished, TypeInv, TypeOK, RecEased

\* A reconnect that is under way is of an entry with a session.
LEMMA RecoveringHeld ==
    ASSUME TypeInv, NEW i \in Attaches, rec[i].phase # "none"
    PROVE  /\ entry[i].session \in Sessions /\ entry[i].link \in Links
           /\ Connected(link[entry[i].link], entry[i].session)
  <1>1. entry[i].session # None
    BY DEF TypeInv, Held, EntryHeld, NoRec
  <1> QED BY <1>1, Fields DEF TypeInv, Held, EntryHeld

LEMMA RetryEased ==
    ASSUME TypeInv, NEW s \in Sessions, entry' = ScheduleRetry(entry, s)
    PROVE  EntriesEased
  <1>1. Retimed(entry, entry') /\ Besides(entry, entry', map[s])
    BY RetriedEntry DEF TypeInv
  <1>2. map[s] # None => entry[map[s]].session # None
    BY Constants DEF TypeInv, Held
  <1> QED BY <1>1, <1>2, Constants DEF EntriesEased, Besides

LEMMA ArmEased ==
    ASSUME TypeInv, NEW e, Retimed(entry, e), NEW s \in Sessions,
           \A j \in Attaches : entry[j].session = None => e[j] = entry[j],
           entry' = ArmRefresh(e, map, s)
    PROVE  EntriesEased
  <1>1. Retimed(e, entry') /\ Besides(e, entry', map[s])
    <2>1. e \in [Attaches -> Entry] /\ map \in [Sessions -> Attaches \cup {None}]
      BY DEF TypeInv, TypeOK, Retimed
    <2>2. Armed(e, entry', map[s])
      BY <2>1, ArmedEntry
    <2> QED BY <2>2 DEF Armed
  <1>2. map[s] # None => entry[map[s]].session # None
    BY Constants DEF TypeInv, Held
  <1> QED BY <1>1, <1>2, Constants DEF EntriesEased, Retimed, Besides

LEMMA FailuresEased ==
    ASSUME TypeInv, NEW i \in Attaches, ProbeFails(i) \/ SwapFails(i)
    PROVE  TypeOK' /\ Eased
  <1>0. /\ rec[i].phase \in {"probe", "swap"} /\ Finished(i)
        /\ entry' = ScheduleRetry(entry, entry[i].session)
        /\ UNCHANGED <<stopped, map, refreshing, op, boot, link, bridge, disk, cloudVars,
                   countVars, inboundVars, raced>>
    BY DEF ProbeFails, SwapFails
  <1>1. EntriesEased
    BY <1>0, RecoveringHeld, RetryEased
  <1>2. rec' \in [Attaches -> Recovery] /\ \A j \in Attaches : RecEased(j)
    BY <1>0, FinishedDoes
  <1>3. Eased
    BY <1>0, <1>1, <1>2, EasedStep, SameLinks DEF countVars
  <1>4. entry' \in [Attaches -> Entry]
    BY <1>1 DEF EntriesEased, Retimed
  <1> QED BY <1>0, <1>2, <1>3, <1>4 DEF TypeInv, TypeOK, cloudVars, countVars, inboundVars

LEMMA ProbeGoneEased ==
    ASSUME TypeInv, NEW i \in Attaches, ProbeGone(i)
    PROVE  TypeOK' /\ Eased
  <1> PICK s \in Sessions : s = entry[i].session
    BY RecoveringHeld DEF ProbeGone
  <1>0. /\ rec[i].phase = "probe" /\ Finished(i)
        /\ IF map[s] = None
           THEN UNCHANGED <<map, entry, bridge, refreshing, link, disk>>
           ELSE Detach(s)
        /\ raced' = [raced EXCEPT ![s] = @ \/ map[s] # i]
        /\ UNCHANGED <<stopped, op, boot, cloudVars, countVars, inboundVars>>
    BY DEF ProbeGone
  <1>r. /\ raced' \in [Sessions -> BOOLEAN] /\ \A j \in Attaches : RecEased(j)
        /\ rec' \in [Attaches -> Recovery]
    BY <1>0, FinishedDoes DEF TypeInv, TypeOK
  <1>1. CASE map[s] = None
    BY <1>1, <1>0, <1>r, SameEntries, SameLinks, EasedStep
       DEF TypeInv, TypeOK, cloudVars, countVars, inboundVars
  <1>2. CASE map[s] # None
    <2>1. Detach(s)
      BY <1>0, <1>2
    <2>2. /\ EntriesEased /\ Forgotten(s) /\ \A t \in Links : SameLink(t)
          /\ disk' \in [Sessions -> Worker] /\ link' \in [Links -> Transport]
      BY <2>1, <1>2, DetachDoes, RelinkedSame DEF Relinked
    <2>3. \A r \in Sessions : map'[r] \in {map[r], None}
      BY <2>2 DEF Forgotten
    <2>4. Eased
      BY <2>2, <2>3, <1>0, <1>r, ForgetEased DEF countVars
    <2>5. entry' \in [Attaches -> Entry]
      BY <2>2 DEF EntriesEased, Retimed
    <2> QED BY <2>2, <2>4, <2>5, <1>0, <1>r
            DEF TypeInv, TypeOK, Forgotten, cloudVars, countVars, inboundVars
  <1> QED BY <1>1, <1>2

\* A transport rebuilt in place.
LEMMA RebuiltDoes ==
    ASSUME TypeInv, NEW t \in Links, link' = [link EXCEPT ![t] = Rebuilt(@)]
    PROVE  /\ Relinked(t) /\ link'[t].seq = link[t].seq
           /\ link'[t].state = IF link[t].state = "dead" THEN "up" ELSE link[t].state
           /\ link'[t] = link[t] \/ link'[t].closes = 0
  <1>1. link \in [Links -> Transport] /\ link[t] \in Transport
    BY DEF TypeInv, TypeOK
  <1>2. /\ Rebuilt(link[t]) \in Transport /\ Rebuilt(link[t]).session = link[t].session
        /\ Rebuilt(link[t]).cse = link[t].cse /\ Rebuilt(link[t]).seq = link[t].seq
        /\ Rebuilt(link[t]).state = IF link[t].state = "dead" THEN "up" ELSE link[t].state
        /\ link[t].state # "dead" => Rebuilt(link[t]) = link[t]
        /\ link[t].state = "dead" => Rebuilt(link[t]).closes = 0
    <2> PICK l \in Transport : l = link[t]
      BY <1>1
    <2>1. CASE l.state = "dead"
      <3> PICK m : m = Rebuilt(l)
        OBVIOUS
      <3>1. m = [l EXCEPT !.state = "up", !.closes = 0]
        BY <2>1 DEF Rebuilt
      <3>2. 0 \in 0 .. 2
        OBVIOUS
      <3>3. /\ m \in Transport /\ m.state = "up" /\ m.session = l.session
            /\ m.cse = l.cse /\ m.seq = l.seq /\ m.closes = 0
        BY <3>1, <3>2 DEF Transport
      <3> QED BY <2>1, <3>3
    <2>2. CASE l.state # "dead"
      <3>1. Rebuilt(l) = l
        BY <2>2 DEF Rebuilt
      <3> QED BY <2>2, <3>1
    <2> QED BY <2>1, <2>2
  <1>3. /\ link' \in [Links -> Transport] /\ \A u \in Links : u # t => link'[u] = link[u]
        /\ link'[t] = Rebuilt(link[t])
    BY <1>1, <1>2
  <1> QED BY <1>2, <1>3 DEF Relinked, SameLink

\* The entry of a reconnect that succeeded, its ladder begun anew.
LEMMA AttemptsReset ==
    ASSUME TypeInv, NEW i \in Attaches, entry[i].session # None,
           NEW e, e = [entry EXCEPT ![i].attempt = 0]
    PROVE  /\ Retimed(entry, e) /\ Besides(entry, e, i)
           /\ \A j \in Attaches : /\ entry[j].session = None => e[j] = entry[j]
                                  /\ e[j].refresh = entry[j].refresh
                                  /\ e[j].backoff = entry[j].backoff
  <1>1. entry \in [Attaches -> Entry] /\ entry[i] \in Entry /\ 0 \in 0 .. Ladder
    BY Constants DEF TypeInv, TypeOK
  <1>2. [entry[i] EXCEPT !.attempt = 0] \in Entry
    BY <1>1 DEF Entry
  <1>3. /\ e \in [Attaches -> Entry] /\ \A j \in Attaches : j # i => e[j] = entry[j]
        /\ e[i] = [entry[i] EXCEPT !.attempt = 0]
    BY <1>1, <1>2
  <1>4. /\ e[i].session = entry[i].session /\ e[i].link = entry[i].link
        /\ e[i].refresh = entry[i].refresh /\ e[i].backoff = entry[i].backoff
    BY <1>1, <1>3 DEF Entry
  <1> QED BY <1>3, <1>4 DEF Retimed, Besides

LEMMA SwapOkEased ==
    ASSUME TypeInv, NEW i \in Attaches, SwapOk(i)
    PROVE  TypeOK' /\ Eased
  <1>0. /\ rec[i].phase = "swap" /\ Finished(i)
        /\ link' = [link EXCEPT ![entry[i].link] = Rebuilt(@)]
        /\ entry' = ArmRefresh([entry EXCEPT ![i].attempt = 0], map, entry[i].session)
        /\ UNCHANGED <<stopped, map, refreshing, op, boot, bridge, disk, cloudVars,
                   countVars, inboundVars, raced>>
    BY DEF SwapOk
  <1>1. entry[i].session \in Sessions /\ entry[i].link \in Links
    BY <1>0, RecoveringHeld
  <1>2. Relinked(entry[i].link)
    BY <1>0, <1>1, RebuiltDoes
  <1>3. EntriesEased
    BY <1>0, <1>1, AttemptsReset, ArmEased, Constants
  <1>4. rec' \in [Attaches -> Recovery] /\ \A j \in Attaches : RecEased(j)
    BY <1>0, FinishedDoes
  <1>5. Eased
    BY <1>0, <1>2, <1>3, <1>4, EasedStep, RelinkedSame DEF countVars
  <1>6. entry' \in [Attaches -> Entry] /\ link' \in [Links -> Transport]
    BY <1>2, <1>3 DEF EntriesEased, Retimed, Relinked
  <1> QED BY <1>0, <1>4, <1>5, <1>6 DEF TypeInv, TypeOK, cloudVars, countVars, inboundVars


\* What becomes of one transport by a close, a death, a deletion, a message.
LEMMA ClosesDoes ==
    ASSUME TypeInv, NEW t \in Links, link[t].closes > 0,
           link' = [link EXCEPT ![t].closes = @ - 1]
    PROVE  /\ Relinked(t) /\ link[t].session \in Sessions
           /\ link'[t].state = link[t].state /\ link'[t].seq = link[t].seq
  <1>1. /\ link \in [Links -> Transport] /\ link[t] \in Transport
        /\ link[t].closes \in 0 .. 2 /\ link[t].session \in Sessions \cup {None}
    BY Fields DEF TypeInv, TypeOK
  <1>2. link[t].closes - 1 \in 0 .. 2
    BY <1>1
  <1>3. [link[t] EXCEPT !.closes = @ - 1] \in Transport
    BY <1>1, <1>2 DEF Transport
  <1>4. /\ link' \in [Links -> Transport] /\ \A u \in Links : u # t => link'[u] = link[u]
        /\ link'[t] = [link[t] EXCEPT !.closes = @ - 1]
    BY <1>1, <1>3
  <1>5. /\ link'[t].session = link[t].session /\ link'[t].cse = link[t].cse
        /\ link'[t].state = link[t].state /\ link'[t].seq = link[t].seq
    BY <1>1, <1>4 DEF Transport
  <1>6. link[t].state # "none" /\ link[t].session \in Sessions
    BY <1>1 DEF TypeInv, Held, LinkHeld, NoLink
  <1> QED BY <1>4, <1>5, <1>6 DEF Relinked, SameLink

LEMMA DeadDoes ==
    ASSUME TypeInv, NEW t \in Links, link[t].state = "up", link' = Dead(link, t)
    PROVE  /\ Relinked(t) /\ link'[t].state = "dead" /\ link'[t].closes = 2
           /\ link'[t].seq = link[t].seq
  <1>1. /\ link \in [Links -> Transport] /\ link[t] \in Transport
    BY DEF TypeInv, TypeOK
  <1> PICK l \in Transport : l = link[t]
    BY <1>1
  <1> PICK m : m = [l EXCEPT !.state = "dead", !.closes = 2]
    OBVIOUS
  <1>2. /\ m \in Transport /\ m.state = "dead" /\ m.closes = 2
        /\ m.session = l.session /\ m.cse = l.cse /\ m.seq = l.seq
    <2>1. 2 \in 0 .. 2
      OBVIOUS
    <2> QED BY <2>1 DEF Transport
  <1>3. /\ link' \in [Links -> Transport] /\ \A u \in Links : u # t => link'[u] = link[u]
        /\ link'[t] = m
    BY <1>1, <1>2 DEF Dead
  <1> QED BY <1>2, <1>3 DEF Relinked, SameLink

LEMMA RefusedDoes ==
    ASSUME TypeInv, NEW t \in Links, Refuse(t)
    PROVE  /\ Relinked(t) /\ link[t].state = "connecting" /\ link'[t].state = "refused"
           /\ link'[t].closes = 2 /\ link'[t].seq = link[t].seq
  <1>1. /\ link \in [Links -> Transport] /\ link[t] \in Transport
    BY DEF TypeInv, TypeOK
  <1> PICK l \in Transport : l = link[t]
    BY <1>1
  <1> PICK m : m = [l EXCEPT !.state = "refused", !.closes = 2]
    OBVIOUS
  <1>2. /\ m \in Transport /\ m.state = "refused" /\ m.closes = 2
        /\ m.session = l.session /\ m.cse = l.cse /\ m.seq = l.seq
    <2>1. 2 \in 0 .. 2
      OBVIOUS
    <2> QED BY <2>1 DEF Transport
  <1>3. link[t].state = "connecting" /\ link' = [link EXCEPT ![t].state = "refused", ![t].closes = 2]
    BY DEF Refuse
  <1>4. /\ link' \in [Links -> Transport] /\ \A u \in Links : u # t => link'[u] = link[u]
        /\ link'[t] = m
    BY <1>1, <1>2, <1>3
  <1> QED BY <1>2, <1>3, <1>4 DEF Relinked, SameLink

LEMMA DeletedDoes ==
    ASSUME TypeInv, NEW c \in Clouds, DeleteCloud(c)
    PROVE  /\ link' \in [Links -> Transport] /\ \A t \in Links : SameLink(t)
           /\ \A t \in Links : \/ link'[t] = link[t]
                               \/ /\ link[t].state = "up" /\ link'[t].state = "dead"
                                  /\ link'[t].closes = 2 /\ link'[t].seq = link[t].seq
  <1>1. link' = [t \in Links |-> IF link[t].cse = c /\ link[t].state = "up"
                                 THEN Dead(link, t)[t] ELSE link[t]]
    BY DEF DeleteCloud
  <1>2. \A t \in Links : link[t] \in Transport
    BY Fields DEF TypeInv
  <1>3. ASSUME NEW t \in Links
        PROVE  /\ Dead(link, t)[t] \in Transport
               /\ Dead(link, t)[t].session = link[t].session
               /\ Dead(link, t)[t].cse = link[t].cse /\ Dead(link, t)[t].seq = link[t].seq
               /\ Dead(link, t)[t].state = "dead" /\ Dead(link, t)[t].closes = 2
    <2> PICK l \in Transport : l = link[t]
      BY <1>2
    <2> PICK m : m = Dead(link, t)[t]
      OBVIOUS
    <2>1. m = [l EXCEPT !.state = "dead", !.closes = 2]
      BY DEF Dead, TypeInv, TypeOK
    <2>2. 2 \in 0 .. 2
      OBVIOUS
    <2>3. /\ m \in Transport /\ m.state = "dead" /\ m.closes = 2
          /\ m.session = l.session /\ m.cse = l.cse /\ m.seq = l.seq
      BY <2>1, <2>2 DEF Transport
    <2> QED BY <2>3
  <1>4. link' \in [Links -> Transport]
    BY <1>1, <1>2, <1>3
  <1>5. ASSUME NEW t \in Links
        PROVE  /\ SameLink(t)
               /\ \/ link'[t] = link[t]
                  \/ /\ link[t].state = "up" /\ link'[t].state = "dead"
                     /\ link'[t].closes = 2 /\ link'[t].seq = link[t].seq
    <2>1. CASE link[t].cse = c /\ link[t].state = "up"
      <3>1. link'[t] = Dead(link, t)[t]
        BY <1>1, <2>1
      <3> QED BY <1>3, <2>1, <3>1 DEF SameLink
    <2>2. CASE ~(link[t].cse = c /\ link[t].state = "up")
      <3>1. link'[t] = link[t]
        BY <1>1, <2>2
      <3> QED BY <3>1 DEF SameLink
    <2> QED BY <2>1, <2>2
  <1> QED BY <1>4, <1>5

LEMMA InboundDoes ==
    ASSUME TypeInv, NEW t \in Links, Inbound(t)
    PROVE  /\ Relinked(t) /\ link[t].state \in {"connecting", "up"}
           /\ link'[t].state = link[t].state /\ link'[t].seq = link[t].seq + 1
           /\ link'[t].closes = link[t].closes
           /\ got' \in [Clouds -> [ever : 0 .. MaxInbound, now : 0 .. MaxInbound]]
           /\ link[t].cse \in Clouds
           /\ \A c \in Clouds : c # link[t].cse => got'[c] = got[c]
           /\ got'[link[t].cse].ever = Larger(got[link[t].cse].ever, link[t].seq + 1)
           /\ got'[link[t].cse].now = Larger(got[link[t].cse].now, link[t].seq + 1)
  <1>1. /\ link \in [Links -> Transport] /\ link[t] \in Transport
        /\ link[t].seq \in 0 .. MaxInbound /\ link[t].cse \in Clouds \cup {None}
        /\ got \in [Clouds -> [ever : 0 .. MaxInbound, now : 0 .. MaxInbound]]
    BY Fields DEF TypeInv, TypeOK
  <1> PICK n : n = link[t].seq + 1
    OBVIOUS
  <1> PICK c : c = link[t].cse
    OBVIOUS
  <1>2. /\ link[t].state \in {"connecting", "up"} /\ link[t].seq < MaxInbound
        /\ link' = [link EXCEPT ![t].seq = n]
        /\ got' = [got EXCEPT ![c] = [ever |-> Larger(@.ever, n), now |-> Larger(@.now, n)]]
    BY DEF Inbound
  <1>3. c \in Clouds
    BY <1>1, <1>2 DEF TypeInv, Held, LinkHeld
  <1>4. n \in 0 .. MaxInbound
    BY <1>1, <1>2, Constants
  <1>5. [link[t] EXCEPT !.seq = n] \in Transport
    BY <1>1, <1>4 DEF Transport
  <1>6. /\ link' \in [Links -> Transport] /\ \A u \in Links : u # t => link'[u] = link[u]
        /\ link'[t] = [link[t] EXCEPT !.seq = n]
    BY <1>1, <1>2, <1>5
  <1>7. /\ link'[t].session = link[t].session /\ link'[t].cse = link[t].cse
        /\ link'[t].state = link[t].state /\ link'[t].seq = n
        /\ link'[t].closes = link[t].closes
    BY <1>1, <1>6 DEF Transport
  <1>8. Larger(got[c].ever, n) \in 0 .. MaxInbound /\ Larger(got[c].now, n) \in 0 .. MaxInbound
    BY <1>1, <1>3, <1>4 DEF Larger
  <1>9. /\ got' \in [Clouds -> [ever : 0 .. MaxInbound, now : 0 .. MaxInbound]]
        /\ got'[c].ever = Larger(got[c].ever, n) /\ got'[c].now = Larger(got[c].now, n)
        /\ \A d \in Clouds : d # c => got'[d] = got[d]
    BY <1>1, <1>2, <1>3, <1>8
  <1> QED BY <1>2, <1>3, <1>6, <1>7, <1>9 DEF Relinked, SameLink


LEMMA CloseFiresEased ==
    ASSUME TypeInv, NEW t \in Links, CloseFires(t)
    PROVE  TypeOK' /\ Eased
  <1> PICK s : s = link[t].session
    OBVIOUS
  <1>0. /\ link[t].closes > 0
        /\ link' = [link EXCEPT ![t].closes = @ - 1]
        /\ IF IsStale(s, t) THEN UNCHANGED <<entry, rec>> ELSE Recover(s, entry)
        /\ UNCHANGED <<stopped, map, refreshing, op, boot, bridge, disk, cloudVars,
                   countVars, inboundVars, raced>>
    BY DEF CloseFires
  <1>1. Relinked(t) /\ s \in Sessions
    BY <1>0, ClosesDoes
  <1>2. EntriesEased /\ rec' \in [Attaches -> Recovery] /\ \A i \in Attaches : RecEased(i)
    <2>1. CASE IsStale(s, t)
      BY <2>1, <1>0, SameEntries DEF TypeInv, TypeOK, RecEased
    <2>2. CASE ~IsStale(s, t)
      <3>1. Retimed(entry, entry)
        BY DEF Retimed, TypeInv, TypeOK
      <3> QED BY <2>2, <3>1, <1>0, <1>1, RecoverDoes
    <2> QED BY <2>1, <2>2
  <1>3. Eased
    BY <1>0, <1>1, <1>2, EasedStep, RelinkedSame DEF countVars
  <1>4. entry' \in [Attaches -> Entry] /\ link' \in [Links -> Transport]
    BY <1>1, <1>2 DEF EntriesEased, Retimed, Relinked
  <1> QED BY <1>0, <1>2, <1>3, <1>4 DEF TypeInv, TypeOK, cloudVars, countVars, inboundVars

LEMMA CleanCloseEased ==
    ASSUME TypeInv, NEW t \in Links, CleanClose(t)
    PROVE  TypeOK' /\ Eased
  <1> PICK s : s = link[t].session
    OBVIOUS
  <1>0. /\ link[t].closes > 0
        /\ link' = [link EXCEPT ![t].closes = @ - 1]
        /\ IF map[s] = None \/ IsStale(s, t)
           THEN UNCHANGED <<map, entry, bridge, refreshing, raced>>
           ELSE /\ Forget(s)
                /\ raced' = [raced EXCEPT ![s] = @ \/ Busy(s) \/ link[t].state = "refused"]
        /\ UNCHANGED <<stopped, waitVars, disk, cloudVars, countVars, inboundVars>>
    BY DEF CleanClose
  <1>1. /\ Relinked(t) /\ s \in Sessions /\ \A i \in Attaches : RecEased(i)
        /\ \A u \in Links : SameLink(u)
    BY <1>0, ClosesDoes, RelinkedSame DEF RecEased, waitVars
  <1>l. link' \in [Links -> Transport]
    BY <1>1 DEF Relinked
  <1>2. CASE map[s] = None \/ IsStale(s, t)
    BY <1>2, <1>0, <1>1, <1>l, SameEntries, EasedStep
       DEF TypeInv, TypeOK, waitVars, cloudVars, countVars, inboundVars
  <1>3. CASE ~(map[s] = None \/ IsStale(s, t))
    <2>1. /\ map[s] # None /\ Forget(s)
          /\ raced' = [raced EXCEPT ![s] = @ \/ Busy(s) \/ link[t].state = "refused"]
      BY <1>0, <1>3
    <2>2. EntriesEased /\ Forgotten(s) /\ raced' \in [Sessions -> BOOLEAN]
      BY <2>1, <1>1, ForgetDoes DEF TypeInv, TypeOK
    <2>3. \A r \in Sessions : map'[r] \in {map[r], None}
      BY <2>2 DEF Forgotten
    <2>4. Eased
      BY <2>2, <2>3, <1>0, <1>1, ForgetEased DEF waitVars, countVars
    <2>5. entry' \in [Attaches -> Entry]
      BY <2>2 DEF EntriesEased, Retimed
    <2> QED BY <2>2, <2>4, <2>5, <1>0, <1>l
            DEF TypeInv, TypeOK, Forgotten, waitVars, cloudVars, countVars, inboundVars
  <1> QED BY <1>2, <1>3

LEMMA OutsideEased ==
    ASSUME TypeInv,
           \/ \E t \in Links : Die(t) \/ Refuse(t) \/ Inbound(t)
           \/ \E c \in Clouds : DeleteCloud(c)
    PROVE  TypeOK' /\ Eased
  <1>e. EntriesEased /\ \A i \in Attaches : RecEased(i)
    BY SameEntries DEF Die, Refuse, Inbound, DeleteCloud, RecEased, serviceVars, waitVars
  <1>b. BoundsAssumption
    BY BoundsAssumption
  <1>1. ASSUME NEW t \in Links, Die(t) PROVE TypeOK' /\ Eased
    <2>0. /\ link[t].state = "up" /\ deaths < MaxDeaths /\ deaths' = deaths + 1
          /\ link' = Dead(link, t)
          /\ UNCHANGED <<serviceVars, waitVars, bridge, disk, cloudVars, opened, links, boots,
                   inboundVars, raced>>
      BY <1>1 DEF Die
    <2>1. Relinked(t)
      BY <2>0, DeadDoes
    <2>2. Eased
      BY <2>0, <2>1, <1>e, EasedStep, RelinkedSame DEF serviceVars, waitVars
    <2>3. deaths' \in 0 .. MaxDeaths
      BY <2>0, BoundsAssumption DEF TypeInv, TypeOK
    <2>4. link' \in [Links -> Transport]
      BY <2>1 DEF Relinked
    <2> QED BY <2>0, <2>2, <2>3, <2>4
            DEF TypeInv, TypeOK, serviceVars, waitVars, cloudVars, inboundVars
  <1>2. ASSUME NEW t \in Links, Inbound(t) PROVE TypeOK' /\ Eased
    <2>1. Relinked(t) /\ got' \in [Clouds -> [ever : 0 .. MaxInbound, now : 0 .. MaxInbound]]
      BY <1>2, InboundDoes
    <2>0. /\ skipped' \in BOOLEAN
          /\ UNCHANGED <<serviceVars, waitVars, bridge, disk, cloudVars, countVars, spilt, raced>>
      BY <1>2 DEF Inbound, TypeInv, TypeOK
    <2>3. repeated' \subseteq Messages
      <3>1. link[t].seq \in 0 .. MaxInbound /\ link[t].seq < MaxInbound
        BY <1>2, Fields DEF Inbound, TypeInv
      <3>3. link[t].seq + 1 \in 1 .. MaxInbound
        BY <3>1, Constants
      <3> PICK c \in Clouds, n \in 1 .. MaxInbound : c = link[t].cse /\ n = link[t].seq + 1
        BY <1>2, <3>3, InboundDoes
      <3>2. <<c, n>> \in Messages
        BY DEF Messages
      <3> QED BY <3>2, <1>2 DEF Inbound, TypeInv, TypeOK
    <2>2. Eased
      BY <2>0, <2>1, <1>e, EasedStep, RelinkedSame DEF serviceVars, waitVars, countVars
    <2>4. link' \in [Links -> Transport]
      BY <2>1 DEF Relinked
    <2> QED BY <2>0, <2>1, <2>2, <2>3, <2>4
            DEF TypeInv, TypeOK, serviceVars, waitVars, cloudVars, countVars
  <1>4. ASSUME NEW t \in Links, Refuse(t) PROVE TypeOK' /\ Eased
    <2>1. Relinked(t)
      BY <1>4, RefusedDoes
    <2>2. UNCHANGED <<serviceVars, waitVars, bridge, disk, cloudVars, countVars,
                      inboundVars, raced>>
      BY <1>4 DEF Refuse
    <2>3. Eased
      BY <2>1, <2>2, <1>e, EasedStep, RelinkedSame DEF serviceVars, waitVars, countVars
    <2>4. link' \in [Links -> Transport]
      BY <2>1 DEF Relinked
    <2> QED BY <2>2, <2>3, <2>4
            DEF TypeInv, TypeOK, serviceVars, waitVars, cloudVars, countVars, inboundVars
  <1>3. ASSUME NEW c \in Clouds, DeleteCloud(c) PROVE TypeOK' /\ Eased
    <2>0. /\ gone' = gone \cup {c}
          /\ UNCHANGED <<serviceVars, waitVars, bridge, disk, flushed, countVars,
                   inboundVars, raced>>
      BY <1>3 DEF DeleteCloud
    <2>1. link' \in [Links -> Transport] /\ \A t \in Links : SameLink(t)
      BY <1>3, DeletedDoes
    <2>2. Eased
      BY <2>0, <2>1, <1>e, EasedStep DEF serviceVars, waitVars, countVars
    <2> QED BY <2>0, <2>1, <2>2 DEF TypeInv, TypeOK, serviceVars, waitVars, countVars, inboundVars
  <1> QED BY <1>1, <1>2, <1>3, <1>4

\* A reconnect of a live transport goes on to swap its credentials.
LEMMA SwapBegins ==
    ASSUME TypeInv, NEW i \in Attaches, ProbeOk(i), link[entry[i].link].state = "up"
    PROVE  TypeOK' /\ Eased
  <1>0. /\ rec[i].phase = "probe"
        /\ rec' = [rec EXCEPT ![i].phase = "swap"]
        /\ UNCHANGED <<link, links, serviceVars, op, boot, bridge, disk, cloudVars,
                   opened, deaths, boots, inboundVars, raced>>
    BY DEF ProbeOk
  <1>1. rec[i].link = None /\ entry[i].session # None
    BY <1>0, RecoveringHeld, Constants DEF TypeInv, Held, RecHeld
  <1>2. /\ rec' \in [Attaches -> Recovery] /\ rec'[i].phase = "swap" /\ rec'[i].link = None
        /\ \A j \in Attaches : j # i => rec'[j] = rec[j]
    <2>1. rec \in [Attaches -> Recovery] /\ rec[i] \in Recovery
      BY DEF TypeInv, TypeOK
    <2>2. [rec[i] EXCEPT !.phase = "swap"] \in Recovery
      BY <2>1 DEF Recovery
    <2>3. rec'[i] = [rec[i] EXCEPT !.phase = "swap"] /\ rec' \in [Attaches -> Recovery]
      BY <1>0, <2>1, <2>2
    <2>4. rec'[i].phase = "swap" /\ rec'[i].link = None
      BY <1>1, <2>1, <2>3 DEF Recovery
    <2> QED BY <1>0, <2>1, <2>3, <2>4
  <1>3. \A j \in Attaches : RecEased(j)
    BY <1>0, <1>1, <1>2 DEF RecEased
  <1>4. Eased
    BY <1>0, <1>3, SameEntries, SameLinks, EasedStep DEF serviceVars
  <1> QED BY <1>0, <1>2, <1>4 DEF TypeInv, TypeOK, serviceVars, cloudVars, inboundVars

\* The end of an upgrade.
LEMMA UpgradeEased ==
    ASSUME TypeInv, NEW i \in Attaches, Backfill(i) \/ MarkBackfilled(i) \/ BackfillFails(i)
    PROVE  TypeOK' /\ Eased
  <1>1. /\ op \in [Attaches -> Operation] /\ op[i] \in Operation
        /\ disk \in [Sessions -> Worker]
    BY DEF TypeInv, TypeOK
  <1>0. /\ UNCHANGED <<serviceVars, rec, boot, link, bridge, gone, countVars, inboundVars, raced>>
        /\ op[i].phase \in {"history", "mark"}
        /\ \/ op' = [op EXCEPT ![i] = NoOp]
           \/ op[i].phase = "history" /\ op' = [op EXCEPT ![i].phase = "mark"]
    <2>1. CASE Backfill(i)
      BY <2>1 DEF Backfill
    <2>2. CASE MarkBackfilled(i)
      BY <2>2 DEF MarkBackfilled, cloudVars
    <2>3. CASE BackfillFails(i)
      BY <2>3 DEF BackfillFails, cloudVars
    <2> QED BY <2>1, <2>2, <2>3
  <1>2. op' \in [Attaches -> Operation] /\ \A j \in Attaches : OpEased(j)
    <2>1. CASE op' = [op EXCEPT ![i] = NoOp]
      <3>1. /\ op' \in [Attaches -> Operation] /\ op'[i] = NoOp
            /\ \A j \in Attaches : j # i => op'[j] = op[j]
        BY <1>1, <2>1, Blanks
      <3> QED BY <3>1, <1>0 DEF OpEased, NoOp
    <2>2. CASE op[i].phase = "history" /\ op' = [op EXCEPT ![i].phase = "mark"]
      <3> PICK o : o = [op[i] EXCEPT !.phase = "mark"]
        OBVIOUS
      <3>1. /\ o \in Operation /\ o.phase = "mark" /\ o.session = op[i].session
            /\ o.link = op[i].link /\ o.kind = op[i].kind /\ o.cse = op[i].cse
        BY <1>1 DEF Operation, Phases
      <3>2. /\ op' \in [Attaches -> Operation] /\ op'[i] = o
            /\ \A j \in Attaches : j # i => op'[j] = op[j]
        BY <1>1, <2>2, <3>1
      <3> QED BY <2>2, <3>1, <3>2 DEF OpEased
    <2> QED BY <1>0, <2>1, <2>2
  <1>3. flushed' \subseteq Clouds
    <2>1. ASSUME Backfill(i), link[op[i].link].state = "up" PROVE link[op[i].link].cse \in Clouds
      <3>1. op[i].link \in Links
        BY <2>1 DEF Backfill, TypeInv, Held, OpHeld
      <3>2. link[op[i].link].cse \in Clouds \cup {None} /\ link[op[i].link].cse # None
        BY <2>1, <3>1, Fields DEF TypeInv, Held, LinkHeld
      <3> QED BY <3>2
    <2> QED BY <2>1 DEF Backfill, MarkBackfilled, BackfillFails, cloudVars, TypeInv, TypeOK
  <1>4. disk' \in [Sessions -> Worker]
    <2>1. ASSUME MarkBackfilled(i) PROVE disk' \in [Sessions -> Worker]
      <3>1. op[i].session \in Sessions
        BY <2>1 DEF MarkBackfilled, TypeInv, Held, OpHeld
      <3>2. [disk[op[i].session] EXCEPT !.backfilled = TRUE] \in Worker
        BY <1>1, <3>1 DEF Worker
      <3> QED BY <1>1, <2>1, <3>1, <3>2 DEF MarkBackfilled
    <2> QED BY <2>1, <1>1 DEF Backfill, MarkBackfilled, BackfillFails
  <1>5. Eased
    <2>1. EntriesEased /\ (\A t \in Links : SameLink(t)) /\ \A j \in Attaches : RecEased(j)
      BY <1>0, SameEntries, SameLinks DEF serviceVars, RecEased
    <2> QED BY <1>0, <1>2, <2>1 DEF Eased, serviceVars, countVars
  <1> QED BY <1>0, <1>2, <1>3, <1>4, <1>5
          DEF TypeInv, TypeOK, serviceVars, cloudVars, countVars, inboundVars

LEMMA ShutdownEased ==
    ASSUME TypeInv, Shutdown
    PROVE  TypeOK' /\ Eased
  <1>0. /\ stopped' = TRUE /\ refreshing' = FALSE
        /\ link' = [t \in Links |->
                  IF \E s \in Sessions : map[s] # None /\ entry[map[s]].link = t
                  THEN [link[t] EXCEPT !.state = "closed"] ELSE link[t]]
        /\ entry' = [i \in Attaches |->
                  [entry[i] EXCEPT !.refresh = FALSE, !.backoff = FALSE]]
        /\ map' = [s \in Sessions |-> None]
        /\ raced' = [s \in Sessions |-> raced[s] \/ Busy(s)]
        /\ UNCHANGED <<waitVars, bridge, disk, cloudVars, countVars, inboundVars>>
    BY DEF Shutdown
  <1>1. /\ link \in [Links -> Transport] /\ entry \in [Attaches -> Entry]
        /\ raced \in [Sessions -> BOOLEAN]
    BY DEF TypeInv, TypeOK
  <1>2. ASSUME NEW t \in Links PROVE SameLink(t) /\ link'[t] \in Transport
    <2>1. CASE \E s \in Sessions : map[s] # None /\ entry[map[s]].link = t
      <3>1. PICK s \in Sessions : map[s] # None /\ entry[map[s]].link = t
        BY <2>1
      <3>2. map[s] \in Attaches /\ entry[map[s]].session = s
        BY <3>1, Fields DEF TypeInv, Held
      <3>3. Connected(link[t], s)
        BY <3>1, <3>2, Constants DEF TypeInv, Held, EntryHeld
      <3> PICK l \in Transport : l = link[t]
        BY <1>1
      <3> PICK m : m = [l EXCEPT !.state = "closed"]
        OBVIOUS
      <3>4. /\ m \in Transport /\ m.state = "closed" /\ m.session = l.session /\ m.cse = l.cse
        BY DEF Transport
      <3>5. link'[t] = m
        BY <1>0, <2>1
      <3> QED BY <3>3, <3>4, <3>5 DEF SameLink, Connected
    <2>2. CASE ~ \E s \in Sessions : map[s] # None /\ entry[map[s]].link = t
      <3>1. link'[t] = link[t]
        BY <1>0, <2>2
      <3> QED BY <3>1, <1>1 DEF SameLink
    <2> QED BY <2>1, <2>2
  <1>3. ASSUME NEW i \in Attaches
        PROVE  /\ entry'[i] \in Entry /\ entry'[i].session = entry[i].session
               /\ entry'[i].link = entry[i].link
               /\ entry[i].session = None => entry'[i] = entry[i]
    <2> PICK e \in Entry : e = entry[i]
      BY <1>1
    <2> PICK f : f = [e EXCEPT !.refresh = FALSE, !.backoff = FALSE]
      OBVIOUS
    <2>1. /\ f \in Entry /\ f.session = e.session /\ f.link = e.link
          /\ f.attempt = e.attempt /\ ~f.refresh /\ ~f.backoff
      BY DEF Entry
    <2>2. entry'[i] = f
      BY <1>0
    <2>3. e = NoEntry => f = e
      <3> HAVE e = NoEntry
      <3>1. f.refresh = e.refresh /\ f.backoff = e.backoff
        BY <2>1 DEF Entry, NoEntry
      <3> QED BY <2>1, <3>1 DEF Entry
    <2> QED BY <2>1, <2>2, <2>3 DEF TypeInv, Held, EntryHeld
  <1>4. link' \in [Links -> Transport] /\ entry' \in [Attaches -> Entry]
        /\ raced' \in [Sessions -> BOOLEAN] /\ map' \in [Sessions -> Attaches \cup {None}]
    BY <1>0, <1>1, <1>2, <1>3
  <1>5. EntriesEased
    BY <1>3, <1>4 DEF EntriesEased, Retimed
  <1>6. (\A s \in Sessions : map'[s] \in {map[s], None}) /\ \A i \in Attaches : RecEased(i)
    BY <1>0 DEF waitVars, RecEased
  <1>7. Eased
    BY <1>0, <1>2, <1>5, <1>6, ForgetEased DEF waitVars, countVars
  <1> QED BY <1>0, <1>4, <1>7 DEF TypeInv, TypeOK, waitVars, cloudVars, countVars, inboundVars

\* The re-attach passes a session by; a checkpoint.
LEMMA DiskEased ==
    ASSUME TypeInv, NEW s \in Sessions, BootGone(s) \/ BootFails(s) \/ Checkpoint(s)
    PROVE  TypeOK' /\ Eased
  <1>0. UNCHANGED <<serviceVars, op, rec, link, bridge, cloudVars, countVars, inboundVars, raced>>
    BY DEF BootGone, BootFails, Checkpoint, waitVars
  <1>1. boot \in [Sessions -> Worker] /\ disk \in [Sessions -> Worker]
        /\ bridge \in [Sessions -> Links \cup {None}]
    BY DEF TypeInv, TypeOK
  <1>2. boot' \in [Sessions -> Worker]
    BY <1>1, Blanks DEF BootGone, BootFails, Checkpoint, waitVars
  <1>3. disk' \in [Sessions -> Worker]
    <2>1. ASSUME Checkpoint(s) PROVE disk' \in [Sessions -> Worker]
      <3> PICK n : n = link[bridge[s]].seq
        OBVIOUS
      <3>1. n \in 0 .. MaxInbound
        BY <1>1, <2>1, Fields DEF Checkpoint, TypeInv
      <3>2. [disk[s] EXCEPT !.seq = n] \in Worker
        BY <1>1, <3>1 DEF Worker
      <3> QED BY <1>1, <2>1, <3>2 DEF Checkpoint
    <2> QED BY <2>1, <1>1, Blanks DEF BootGone, BootFails, Checkpoint
  <1>4. EntriesEased /\ (\A t \in Links : SameLink(t)) /\ \A i \in Attaches : RecEased(i)
    BY <1>0, SameEntries, SameLinks DEF serviceVars, RecEased
  <1>5. Eased
    BY <1>0, <1>4, EasedStep DEF serviceVars, countVars
  <1> QED BY <1>0, <1>2, <1>3, <1>5
          DEF TypeInv, TypeOK, serviceVars, cloudVars, countVars, inboundVars

-----------------------------------------------------------------------------
(* What is held, under the actions that take something up.                 *)

\* No transport but t has changed.
OnlyLink(t) == \A u \in Links : u # t => link'[u] = link[u]

\* What keeps the transport it has: an entry, a reconnect, an attach.
EntryStays(i) ==
    /\ entry'[i].session = entry[i].session /\ entry'[i].link = entry[i].link
    /\ entry[i].session = None => entry'[i] = entry[i]
    /\ rec'[i] = rec[i] \/ rec'[i] = NoRec
    /\ entry[i].session # None => op'[i] = op[i] \/ op'[i].phase \notin {"auth", "connect"}

LEMMA EntryKept ==
    ASSUME TypeInv, NEW i \in Attaches, NEW t, OnlyLink(t), EntryStays(i),
           \/ entry[i].link # t
           \/ Connected(link'[t], entry[i].session),
           opened' \in {opened, opened + 1}
    PROVE  EntryHeld(i)'
  <1>1. CASE entry[i].session = None
    BY <1>1 DEF TypeInv, Held, EntryHeld, EntryStays
  <1>2. CASE entry[i].session # None
    <2>1. /\ i <= opened /\ op[i].phase \notin {"auth", "connect"}
          /\ entry[i].link \in Links /\ Connected(link[entry[i].link], entry[i].session)
      BY <1>2 DEF TypeInv, Held, EntryHeld
    <2>2. Connected(link'[entry[i].link], entry[i].session)
      BY <2>1 DEF OnlyLink
    <2>3. i <= opened'
      <3>1. i \in Nat /\ opened \in Nat
        BY Constants DEF TypeInv, TypeOK
      <3> QED BY <2>1, <3>1
    <2> QED BY <1>2, <2>1, <2>2, <2>3 DEF EntryHeld, EntryStays
  <1> QED BY <1>1, <1>2

LEMMA RecKept ==
    ASSUME TypeInv, NEW i \in Attaches, NEW t, OnlyLink(t),
           rec'[i] = rec[i], rec[i].link # t, entry[i].link = t => link'[t].cse = link[t].cse,
           entry'[i].session = entry[i].session, entry'[i].link = entry[i].link
    PROVE  RecHeld(i)'
  <1>1. CASE rec[i].phase # "reattach"
    BY <1>1 DEF TypeInv, Held, RecHeld
  <1>2. CASE rec[i].phase = "reattach"
    <2>1. /\ rec[i].link \in Links /\ Connecting(link[rec[i].link], entry[i].session)
          /\ link[rec[i].link].cse = link[entry[i].link].cse
      BY <1>2 DEF TypeInv, Held, RecHeld
    <2>2. entry[i].link \in Links
      BY <1>2, RecoveringHeld
    <2>3. link'[rec[i].link] = link[rec[i].link] /\ link'[entry[i].link].cse = link[entry[i].link].cse
      BY <2>1, <2>2 DEF OnlyLink
    <2> QED BY <1>2, <2>1, <2>3 DEF RecHeld
  <1> QED BY <1>1, <1>2

LEMMA OpKept ==
    ASSUME TypeInv, NEW i \in Attaches, NEW t, OnlyLink(t), op'[i] = op[i],
           \/ op[i].link # t
           \/ op[i].phase \notin {"connect", "history", "mark"}
           \/ op[i].phase # "connect" /\ Connected(link'[t], op[i].session),
           opened' \in {opened, opened + 1}
    PROVE  OpHeld(i)'
  <1>1. OpHeld(i)
    BY DEF TypeInv, Held
  <1>2. op'[i].phase # "none" => i <= opened' /\ op'[i].session \in Sessions
    <2>1. i \in Nat /\ opened \in Nat
      BY Constants DEF TypeInv, TypeOK
    <2> QED BY <1>1, <2>1 DEF OpHeld
  <1>3. op'[i].phase = "connect" =>
          /\ op'[i].link \in Links /\ Connecting(link'[op'[i].link], op'[i].session)
          /\ op'[i].cse = link'[op'[i].link].cse
    BY <1>1 DEF OpHeld, OnlyLink
  <1>4. op'[i].phase \in {"history", "mark"} =>
          /\ op'[i].link \in Links /\ Connected(link'[op'[i].link], op'[i].session)
          /\ op'[i].kind = "upgrade"
    BY <1>1 DEF OpHeld, OnlyLink
  <1> QED BY <1>2, <1>3, <1>4 DEF OpHeld

LEMMA LinkKept ==
    ASSUME TypeInv, NEW u \in Links, NEW t, OnlyLink(t),
           u # t \/ (/\ link'[t].state # "none" /\ link[t].state # "none"
                     /\ link'[t].session = link[t].session /\ link'[t].cse = link[t].cse),
           links' \in {links, links + 1}
    PROVE  LinkHeld(u)'
  <1>1. LinkHeld(u) /\ u \in Nat /\ links \in Nat
    BY Constants DEF TypeInv, TypeOK, Held
  <1>2. CASE u # t
    <2>1. link'[u] = link[u]
      BY <1>2 DEF OnlyLink
    <2> QED BY <1>1, <2>1 DEF LinkHeld
  <1>3. CASE u = t
    BY <1>1, <1>3 DEF LinkHeld
  <1> QED BY <1>2, <1>3

\* No transport of nobody is held.
LEMMA FreshLink ==
    ASSUME TypeInv, NEW t \in Links, link[t].state = "none"
    PROVE  \A i \in Attaches :
              /\ entry[i].link # t /\ rec[i].link # t
              /\ op[i].phase \in {"connect", "history", "mark"} => op[i].link # t
  <1> SUFFICES ASSUME NEW i \in Attaches
               PROVE  /\ entry[i].link # t /\ rec[i].link # t
                      /\ op[i].phase \in {"connect", "history", "mark"} => op[i].link # t
    OBVIOUS
  <1>1. t # None /\ EntryHeld(i) /\ RecHeld(i) /\ OpHeld(i)
    BY Constants DEF TypeInv, Held
  <1>2. entry[i].link # t
    BY <1>1 DEF EntryHeld, NoEntry, Connected
  <1>3. rec[i].link # t
    BY <1>1 DEF RecHeld, Connecting
  <1>4. op[i].phase \in {"connect", "history", "mark"} => op[i].link # t
    BY <1>1 DEF OpHeld, Connecting, Connected
  <1> QED BY <1>2, <1>3, <1>4

\* A transport that has not connected is no entry's and no upgrade's.
LEMMA ConnectingLink ==
    ASSUME TypeInv, NEW t \in Links, link[t].state \in {"connecting", "refused"}
    PROVE  \A i \in Attaches :
              /\ entry[i].link # t
              /\ op[i].phase \in {"history", "mark"} => op[i].link # t
  <1> SUFFICES ASSUME NEW i \in Attaches
               PROVE  /\ entry[i].link # t
                      /\ op[i].phase \in {"history", "mark"} => op[i].link # t
    OBVIOUS
  <1>1. t # None /\ EntryHeld(i) /\ OpHeld(i)
    BY Constants DEF TypeInv, Held
  <1>2. entry[i].link # t
    BY <1>1 DEF EntryHeld, NoEntry, Connected
  <1>4. op[i].phase \in {"history", "mark"} => op[i].link # t
    BY <1>1 DEF OpHeld, Connected
  <1> QED BY <1>2, <1>4

\* An attach begins.
LEMMA BeginHeld ==
    ASSUME TypeInv, Apart, NEW s \in Sessions, NEW kind \in {"fresh", "upgrade", "existing"},
           NEW from \in Worker, Begin(s, kind, from),
           boot' \in [Sessions -> Worker], raced' \in [Sessions -> BOOLEAN]
    PROVE  TypeInv' /\ Apart'
  <1>0. /\ opened < MaxAttaches /\ opened' = opened + 1
        /\ op' = IF map[s] # None /\ kind # "upgrade" THEN op
                 ELSE [op EXCEPT ![opened'] =
                    [phase   |-> IF map[s] = None THEN "auth" ELSE "history",
                     session |-> s, kind |-> kind, cse |-> from.cse,
                     link    |-> IF map[s] = None THEN None ELSE entry[map[s]].link,
                     seq     |-> from.seq]]
        /\ refreshing' = (refreshing \/ map[s] = None)
        /\ UNCHANGED <<stopped, map, entry, rec, link, bridge, disk, cloudVars,
                   links, deaths, boots, inboundVars>>
    BY DEF Begin
  <1>1. /\ op \in [Attaches -> Operation] /\ opened \in 0 .. MaxAttaches
        /\ map[s] \in Attaches \cup {None}
        /\ from.cse \in Clouds \cup {None} /\ from.seq \in 0 .. MaxInbound
        /\ MaxAttaches \in Nat
    BY Constants DEF TypeInv, TypeOK, Worker
  <1>o. opened + 1 \in Attaches /\ opened' \in 0 .. MaxAttaches /\ ~(opened + 1 <= opened)
    BY <1>0, <1>1 DEF Attaches
  <1> PICK n \in Attaches : n = opened + 1
    BY <1>o
  <1>2. op[n].phase = "none" /\ entry[n].session = None
    BY <1>o DEF TypeInv, Held, OpHeld, EntryHeld
  <1>3. map[s] # None => entry[map[s]].link \in Links /\ Connected(link[entry[map[s]].link], s)
    <2> HAVE map[s] # None
    <2>1. map[s] \in Attaches /\ entry[map[s]].session = s /\ s # None
      BY <1>1, Constants DEF TypeInv, Held
    <2> QED BY <2>1 DEF TypeInv, Held, EntryHeld
  <1> PICK o : o = [phase   |-> IF map[s] = None THEN "auth" ELSE "history",
                    session |-> s, kind |-> kind, cse |-> from.cse,
                    link    |-> IF map[s] = None THEN None ELSE entry[map[s]].link,
                    seq     |-> from.seq]
    OBVIOUS
  <1>4. /\ o \in Operation /\ o.session = s /\ o.kind = kind
        /\ o.phase = IF map[s] = None THEN "auth" ELSE "history"
        /\ o.link = IF map[s] = None THEN None ELSE entry[map[s]].link
    BY <1>1, <1>3 DEF Operation, Phases
  <1>p. op' = op \/ (op' = [op EXCEPT ![n] = o] /\ (map[s] # None => kind = "upgrade"))
    BY <1>0
  <1>5. op' \in [Attaches -> Operation] /\ \A i \in Attaches : i # n => op'[i] = op[i]
    BY <1>p, <1>1, <1>4
  <1>6. op'[n] = op[n] \/ (op'[n] = o /\ (map[s] # None => kind = "upgrade"))
    BY <1>p, <1>1, <1>4
  <1>7. TypeOK'
    BY <1>0, <1>5, <1>o DEF TypeInv, TypeOK, cloudVars, inboundVars
  <1>k. OnlyLink(None)
    BY <1>0 DEF OnlyLink
  <1>8. ASSUME NEW i \in Attaches PROVE EntryHeld(i)' /\ RecHeld(i)' /\ OpHeld(i)'
    <2>1. EntryStays(i) /\ (entry[i].session # None => entry[i].link # None)
      <3>1. entry[i].session # None => i # n
        BY <1>2
      <3>2. EntryStays(i)
        BY <3>1, <1>0, <1>5 DEF EntryStays
      <3> QED BY <3>2, Constants DEF TypeInv, Held, EntryHeld
    <2>2. EntryHeld(i)'
      <3>1. CASE entry[i].session = None
        BY <3>1, <2>1, <1>0 DEF TypeInv, Held, EntryHeld, EntryStays
      <3>2. CASE entry[i].session # None
        BY <3>2, <2>1, <1>k, <1>0, EntryKept
      <3> QED BY <3>1, <3>2
    <2>3. RecHeld(i)'
      BY <1>0 DEF TypeInv, Held, RecHeld
    <2>4. OpHeld(i)'
      <3>1. CASE op'[i] = op[i]
        <4>1. op[i].phase \in {"connect", "history", "mark"} => op[i].link # None
          BY Constants DEF TypeInv, Held, OpHeld
        <4> QED BY <3>1, <4>1, <1>k, <1>0, OpKept
      <3>2. CASE op'[i] = o /\ i = n /\ (map[s] # None => kind = "upgrade")
        <4>1. i <= opened'
          BY <3>2, <1>0, <1>1
        <4> QED BY <3>2, <4>1, <1>3, <1>4, <1>0 DEF OpHeld
      <3> QED BY <3>1, <3>2, <1>5, <1>6
    <2> QED BY <2>2, <2>3, <2>4
  <1>9. Held'
    BY <1>8, <1>0 DEF Held, TypeInv, LinkHeld
  <1>10. Apart'
    <2>1. \A i \in Attaches : op'[i].phase = "connect" => op'[i] = op[i]
      BY <1>4, <1>5, <1>6
    <2> QED BY <2>1, <1>0 DEF Apart
  <1> QED BY <1>7, <1>9, <1>10 DEF TypeInv

\* A transport that is opened.
Opens(s, c, seq) ==
    /\ links < MaxLinks /\ links' = links + 1
    /\ link' = [link EXCEPT ![links'] = NewLink(s, c, seq)]

LEMMA NewLinkIs ==
    ASSUME TypeInv, NEW s \in Sessions, NEW c \in Clouds, NEW seq \in 0 .. MaxInbound,
           Opens(s, c, seq)
    PROVE  /\ links' \in Links /\ link[links'].state = "none" /\ OnlyLink(links')
           /\ link' \in [Links -> Transport] /\ link'[links'].state = "connecting"
           /\ link'[links'].session = s /\ link'[links'].cse = c /\ link'[links'].seq = seq
           /\ link'[links'].closes = 0
           /\ \A t \in Links : LinkHeld(t)'
  <1>0. /\ links < MaxLinks /\ links' = links + 1
        /\ link' = [link EXCEPT ![links'] = NewLink(s, c, seq)]
    BY DEF Opens
  <1>1. links \in 0 .. MaxLinks /\ MaxLinks \in Nat /\ link \in [Links -> Transport]
    BY Constants DEF TypeInv, TypeOK
  <1> PICK n \in Links : n = links + 1
    BY <1>0, <1>1 DEF Links
  <1>2. ~(n <= links) /\ n <= links'
    BY <1>0, <1>1
  <1>3. link[n].state = "none"
    BY <1>2 DEF TypeInv, Held, LinkHeld
  <1> PICK l : l = NewLink(s, c, seq)
    OBVIOUS
  <1>4. /\ l \in Transport /\ l.state = "connecting" /\ l.session = s /\ l.cse = c
        /\ l.seq = seq /\ l.closes = 0
    BY DEF NewLink, Transport
  <1>5. /\ link' \in [Links -> Transport] /\ link'[n] = l
        /\ \A u \in Links : u # n => link'[u] = link[u]
    BY <1>0, <1>1, <1>4
  <1>6. OnlyLink(n)
    BY <1>5 DEF OnlyLink
  <1>7. LinkHeld(n)'
    BY <1>2, <1>4, <1>5, Constants DEF LinkHeld
  <1>8. \A t \in Links : LinkHeld(t)'
    BY <1>0, <1>6, <1>7, LinkKept
  <1> QED BY <1>0, <1>3, <1>4, <1>5, <1>6, <1>8

LEMMA AttachOpensHeld ==
    ASSUME TypeInv, Apart, NEW i \in Attaches, AttachOpens(i)
    PROVE  TypeInv' /\ Apart'
  <1> PICK c : c = IF op[i].cse = None THEN i ELSE op[i].cse
    OBVIOUS
  <1>0. /\ op[i].phase = "auth"
        /\ links < MaxLinks /\ links' = links + 1
        /\ link' = [link EXCEPT ![links'] = NewLink(op[i].session, c, op[i].seq)]
        /\ op' = [op EXCEPT ![i].phase = "connect", ![i].cse = c, ![i].link = links']
        /\ UNCHANGED <<serviceVars, rec, boot, bridge, disk, cloudVars,
                   opened, deaths, boots, inboundVars, raced>>
    BY DEF AttachOpens
  <1>1. /\ op \in [Attaches -> Operation] /\ op[i] \in Operation
        /\ op[i].session \in Sessions /\ i <= opened
        /\ c \in Clouds /\ op[i].seq \in 0 .. MaxInbound
    BY <1>0, Fields, Constants DEF TypeInv, TypeOK, Held, OpHeld
  <1>2. /\ links' \in Links /\ link[links'].state = "none" /\ OnlyLink(links')
        /\ link' \in [Links -> Transport] /\ link'[links'].state = "connecting"
        /\ link'[links'].session = op[i].session /\ link'[links'].cse = c
        /\ \A t \in Links : LinkHeld(t)'
    <2> PICK s \in Sessions, q \in 0 .. MaxInbound : s = op[i].session /\ q = op[i].seq
      BY <1>1
    <2>1. Opens(s, c, q)
      BY <1>0 DEF Opens
    <2> QED BY <1>1, <2>1, NewLinkIs
  <1> PICK t \in Links : t = links'
    BY <1>2
  <1>3. \A j \in Attaches :
           /\ entry[j].link # t /\ rec[j].link # t
           /\ op[j].phase \in {"connect", "history", "mark"} => op[j].link # t
    BY <1>2, FreshLink
  <1> PICK o : o = [op[i] EXCEPT !.phase = "connect", !.cse = c, !.link = t]
    OBVIOUS
  <1>4. /\ o \in Operation /\ o.phase = "connect" /\ o.session = op[i].session
        /\ o.cse = c /\ o.link = t
    BY <1>1 DEF Operation, Phases
  <1>5. /\ op' \in [Attaches -> Operation] /\ op'[i] = o
        /\ \A j \in Attaches : j # i => op'[j] = op[j]
    BY <1>0, <1>1, <1>4
  <1>6. links' \in 0 .. MaxLinks
    BY <1>0, Constants DEF TypeInv, TypeOK
  <1>7. TypeOK'
    BY <1>0, <1>2, <1>5, <1>6 DEF TypeInv, TypeOK, serviceVars, cloudVars, inboundVars
  <1>8. entry[i].session = None
    BY <1>0 DEF TypeInv, Held, EntryHeld
  <1>9. ASSUME NEW j \in Attaches PROVE EntryHeld(j)' /\ RecHeld(j)' /\ OpHeld(j)'
    <2>1. EntryStays(j)
      BY <1>0, <1>5, <1>8 DEF EntryStays, serviceVars
    <2>2. EntryHeld(j)'
      BY <2>1, <1>0, <1>2, <1>3, EntryKept
    <2>3. RecHeld(j)'
      BY <1>0, <1>2, <1>3, RecKept DEF serviceVars
    <2>4. OpHeld(j)'
      <3>1. CASE j # i
        BY <3>1, <1>0, <1>2, <1>3, <1>5, OpKept
      <3>2. CASE j = i
        BY <3>2, <1>0, <1>1, <1>2, <1>4, <1>5 DEF OpHeld, Connecting
      <3> QED BY <3>1, <3>2
    <2> QED BY <2>2, <2>3, <2>4
  <1>10. Held'
    BY <1>9, <1>2, <1>0 DEF Held, TypeInv, serviceVars
  <1>11. Apart'
    <2>1. \A j \in Attaches : op'[j].phase = "connect" =>
             \/ op[j].phase = "connect" /\ op'[j].link = op[j].link /\ j # i /\ op'[j].link # t
             \/ j = i /\ op'[j].link = t
      BY <1>0, <1>3, <1>4, <1>5
    <2>2. entry' = entry /\ rec' = rec
      BY <1>0 DEF serviceVars
    <2>3. \A j, k \in Attaches : op'[j].phase = "connect" /\ op'[k].phase = "connect"
             /\ op'[j].link = op'[k].link => j = k
      BY <2>1 DEF Apart
    <2>4. \A j, k \in Attaches : op'[j].phase = "connect" => op'[j].link # rec'[k].link
      BY <2>1, <2>2, <1>3 DEF Apart
    <2> QED BY <2>2, <2>3, <2>4 DEF Apart
  <1> QED BY <1>7, <1>10, <1>11 DEF TypeInv

\* A reconnect of a dead transport goes on to replace it.
LEMMA ReattachBegins ==
    ASSUME TypeInv, Apart, NEW i \in Attaches, ProbeOk(i), link[entry[i].link].state # "up"
    PROVE  TypeInv' /\ Apart'
  <1>0. /\ rec[i].phase = "probe"
        /\ links < MaxLinks /\ links' = links + 1
        /\ rec' = [rec EXCEPT ![i] = [phase |-> "reattach", link |-> links']]
        /\ link' = [link EXCEPT ![links'] =
              NewLink(entry[i].session, link[entry[i].link].cse, ResumeFrom(i))]
        /\ UNCHANGED <<serviceVars, op, boot, bridge, disk, cloudVars,
                   opened, deaths, boots, inboundVars, raced>>
    BY DEF ProbeOk
  <1>1. /\ entry[i].session \in Sessions /\ entry[i].link \in Links
        /\ Connected(link[entry[i].link], entry[i].session)
    BY <1>0, RecoveringHeld
  <1> PICK s \in Sessions, e \in Links : s = entry[i].session /\ e = entry[i].link
    BY <1>1
  <1>2. link[e].cse \in Clouds /\ link[e].seq \in 0 .. MaxInbound
    <2>1. link[e].cse # None
      BY <1>1 DEF TypeInv, Held, LinkHeld, Connected
    <2> QED BY <2>1, Fields DEF TypeInv
  <1> PICK c \in Clouds, q \in 0 .. MaxInbound : c = link[e].cse /\ q = link[e].seq
    BY <1>2
  <1>3. Opens(s, c, q)
    BY <1>0 DEF Opens, ResumeFrom
  <1>4. /\ links' \in Links /\ link[links'].state = "none" /\ OnlyLink(links')
        /\ link' \in [Links -> Transport] /\ link'[links'].state = "connecting"
        /\ link'[links'].session = s /\ link'[links'].cse = c
        /\ \A t \in Links : LinkHeld(t)'
    BY <1>3, NewLinkIs
  <1> PICK t \in Links : t = links'
    BY <1>4
  <1>5. \A j \in Attaches :
           /\ entry[j].link # t /\ rec[j].link # t
           /\ op[j].phase \in {"connect", "history", "mark"} => op[j].link # t
    BY <1>4, FreshLink
  <1>6. /\ rec' \in [Attaches -> Recovery] /\ rec'[i].phase = "reattach" /\ rec'[i].link = t
        /\ \A j \in Attaches : j # i => rec'[j] = rec[j]
    <2>1. rec \in [Attaches -> Recovery] /\ [phase |-> "reattach", link |-> t] \in Recovery
      BY DEF TypeInv, TypeOK, Recovery
    <2> QED BY <1>0, <2>1
  <1>7. links' \in 0 .. MaxLinks
    BY <1>0, Constants DEF TypeInv, TypeOK
  <1>8. TypeOK'
    BY <1>0, <1>4, <1>6, <1>7 DEF TypeInv, TypeOK, serviceVars, cloudVars, inboundVars
  <1>9. /\ entry' = entry /\ op' = op /\ map' = map /\ links' \in {links, links + 1}
        /\ opened' \in {opened, opened + 1} /\ OnlyLink(t)
    BY <1>0, <1>4 DEF serviceVars
  <1>10. ASSUME NEW j \in Attaches PROVE EntryHeld(j)' /\ RecHeld(j)' /\ OpHeld(j)'
    <2>1. EntryHeld(j)'
      <3>1. CASE j = i
        <4>1. entry[i].session # None /\ EntryHeld(i)
          BY <1>1, Constants DEF TypeInv, Held
        <4>2. link'[e] = link[e]
          BY <1>5, <1>9 DEF OnlyLink
        <4> QED BY <3>1, <4>1, <4>2, <1>0, <1>9 DEF EntryHeld
      <3>2. CASE j # i
        <4>1. EntryStays(j)
          BY <3>2, <1>6, <1>9 DEF EntryStays
        <4> QED BY <4>1, <1>5, <1>9, EntryKept
      <3> QED BY <3>1, <3>2
    <2>2. RecHeld(j)'
      <3>1. CASE j = i
        <4>1. link'[e] = link[e]
          BY <1>5, <1>9 DEF OnlyLink
        <4> QED BY <3>1, <4>1, <1>4, <1>6, <1>9 DEF RecHeld, Connecting
      <3>2. CASE j # i
        BY <3>2, <1>5, <1>6, <1>9, RecKept
      <3> QED BY <3>1, <3>2
    <2>3. OpHeld(j)'
      BY <1>5, <1>9, OpKept
    <2> QED BY <2>1, <2>2, <2>3
  <1>11. Held'
    BY <1>4, <1>9, <1>10 DEF Held, TypeInv
  <1>12. Apart'
    <2>1. \A j \in Attaches : op[j].phase = "connect" => op[j].link # t
      BY <1>5
    <2>2. \A j, k \in Attaches : rec'[j].link = rec'[k].link => j = k \/ rec'[j].link = None
      BY <1>5, <1>6 DEF Apart
    <2>3. \A j, k \in Attaches : op'[j].phase = "connect" => op'[j].link # rec'[k].link
      BY <2>1, <1>6, <1>9 DEF Apart
    <2> QED BY <2>2, <2>3, <1>9 DEF Apart
  <1> QED BY <1>8, <1>11, <1>12 DEF TypeInv

\* A transport whose connect has failed.
LEMMA DroppedDoes ==
    ASSUME TypeInv, NEW t \in Links, link[t].state \in {"connecting", "refused"},
           link' = Dropped(t)
    PROVE  /\ link' \in [Links -> Transport] /\ OnlyLink(t)
           /\ link'[t].state \in {"refused", "closed"} /\ link'[t].session = link[t].session
           /\ link'[t].cse = link[t].cse /\ link'[t].seq = link[t].seq
           /\ link'[t].closes = link[t].closes
  <1>1. CASE link' = link
    <2>1. link[t].state = "refused"
      <3>1. CASE link[t].state = "refused" /\ link[t].closes < 2
        BY <3>1
      <3>2. CASE ~(link[t].state = "refused" /\ link[t].closes < 2)
        <4>1. link' = Shut(t)
          BY <3>2 DEF Dropped
        <4> QED BY <4>1, <1>1, ShutDoes
      <3> QED BY <3>1, <3>2
    <2> QED BY <2>1, <1>1 DEF OnlyLink, TypeInv, TypeOK
  <1>2. CASE link' # link
    <2>1. link' = Shut(t)
      BY <1>2 DEF Dropped
    <2>2. link'[t].seq = link[t].seq /\ link'[t].closes = link[t].closes
      BY <2>1 DEF Shut, TypeInv, TypeOK, Transport
    <2> QED BY <2>1, <2>2, ShutDoes DEF OnlyLink
  <1> QED BY <1>1, <1>2

\* What a failed connect adds to the messages that may come again.
LEMMA PastSpills ==
    ASSUME TypeInv, NEW i \in Attaches, ReattachFails(i)
    PROVE  spilt' \subseteq Messages
  <1>1. /\ rec[i].phase = "reattach" /\ spilt' = spilt \cup Past(rec[i].link, entry[i].link)
    BY DEF ReattachFails
  <1>2. rec[i].link \in Links /\ entry[i].link \in Links
    BY <1>1, RecoveringHeld DEF TypeInv, Held, RecHeld
  <1> PICK t \in Links, u \in Links : t = rec[i].link /\ u = entry[i].link
    BY <1>2
  <1>3. link[t].state # "none"
    BY <1>1 DEF TypeInv, Held, RecHeld, Connecting
  <1>4. /\ link[t].cse \in Clouds /\ link[t].seq \in 0 .. MaxInbound
        /\ link[u].seq \in 0 .. MaxInbound
    BY <1>3, Fields DEF TypeInv, Held, LinkHeld
  <1>5. link[u].seq + 1 .. link[t].seq \subseteq 1 .. MaxInbound
    BY <1>4, Constants
  <1>6. Past(t, u) \subseteq Messages
    BY <1>4, <1>5 DEF Past, Messages
  <1> QED BY <1>1, <1>6 DEF TypeInv, TypeOK

LEMMA AttachFailsHeld ==
    ASSUME TypeInv, Apart, NEW i \in Attaches, AttachFails(i)
    PROVE  TypeInv' /\ Apart'
  <1>0. /\ op[i].phase \in {"auth", "connect"}
        /\ op' = [op EXCEPT ![i] = NoOp]
        /\ link' = IF op[i].phase = "auth" THEN link ELSE Dropped(op[i].link)
        /\ refreshing' = StillRefreshing
        /\ UNCHANGED <<stopped, map, entry, rec, boot, bridge, disk, cloudVars,
                   countVars, inboundVars, raced>>
    BY DEF AttachFails
  <1>1. /\ op' \in [Attaches -> Operation] /\ op'[i] = NoOp
        /\ \A j \in Attaches : j # i => op'[j] = op[j]
    BY <1>0, Blanks DEF TypeInv, TypeOK
  <1>2. refreshing' \in BOOLEAN
    BY <1>0 DEF StillRefreshing, TypeInv, TypeOK
  <1>t. PICK t : t = op[i].link
    OBVIOUS
  <1>3. CASE op[i].phase = "auth"
    <2>1. link' = link
      BY <1>0, <1>3
    <2>2. \A j \in Attaches : OpEased(j) /\ RecEased(j)
      BY <1>0, <1>1, <1>3 DEF OpEased, RecEased, NoOp
    <2>3. Eased
      BY <1>0, <2>1, <2>2, SameEntries, SameLinks DEF Eased, countVars
    <2>4. Held' /\ Apart'
      BY <2>3, EasedHolds
    <2> QED BY <2>1, <2>4, <1>0, <1>1, <1>2 DEF TypeInv, TypeOK, cloudVars, countVars, inboundVars
  <1>4. CASE op[i].phase = "connect"
    <2>1. /\ t \in Links /\ link[t].state \in {"connecting", "refused"}
      BY <1>t, <1>4 DEF TypeInv, Held, OpHeld, Connecting
    <2>2. /\ link' \in [Links -> Transport] /\ OnlyLink(t)
          /\ link'[t].state \in {"refused", "closed"} /\ link'[t].session = link[t].session
          /\ link'[t].cse = link[t].cse
      <3>1. link' = Dropped(t)
        BY <1>0, <1>4, <1>t
      <3> QED BY <2>1, <3>1, DroppedDoes
    <2>3. \A j \in Attaches : /\ entry[j].link # t /\ rec[j].link # t
                              /\ j # i /\ op[j].phase \in {"connect", "history", "mark"}
                                    => op[j].link # t
      <3>1. \A j \in Attaches : rec[j].link # t
        BY <1>4, <1>t DEF Apart
      <3>2. \A j \in Attaches : j # i /\ op[j].phase = "connect" => op[j].link # t
        BY <1>4, <1>t DEF Apart
      <3>3. \A j \in Attaches : /\ entry[j].link # t
                                /\ op[j].phase \in {"history", "mark"} => op[j].link # t
        BY <2>1, ConnectingLink
      <3> QED BY <3>1, <3>2, <3>3
    <2>4. /\ entry' = entry /\ rec' = rec /\ map' = map /\ links' \in {links, links + 1}
          /\ opened' \in {opened, opened + 1}
      BY <1>0 DEF countVars
    <2>5. TypeOK'
      BY <2>2, <1>0, <1>1, <1>2 DEF TypeInv, TypeOK, cloudVars, countVars, inboundVars
    <2>6. ASSUME NEW j \in Attaches PROVE EntryHeld(j)' /\ RecHeld(j)' /\ OpHeld(j)'
      <3>1. EntryStays(j)
        BY <2>4, <1>1 DEF EntryStays, NoOp
      <3>2. EntryHeld(j)'
        BY <3>1, <2>2, <2>3, <2>4, EntryKept
      <3>3. RecHeld(j)'
        BY <2>2, <2>3, <2>4, RecKept
      <3>4. OpHeld(j)'
        <4>1. CASE j = i
          BY <4>1, <1>1 DEF OpHeld, NoOp
        <4>2. CASE j # i
          BY <4>2, <1>1, <2>2, <2>3, <2>4, OpKept
        <4> QED BY <4>1, <4>2
      <3> QED BY <3>2, <3>3, <3>4
    <2>7. \A u \in Links : LinkHeld(u)'
      BY <2>1, <2>2, <2>4, LinkKept
    <2>8. Held'
      BY <2>4, <2>6, <2>7 DEF Held, TypeInv
    <2>9. Apart'
      <3>1. \A j \in Attaches : op'[j].phase = "connect" =>
               op[j].phase = "connect" /\ op'[j].link = op[j].link
        BY <1>1 DEF NoOp
      <3> QED BY <3>1, <2>4 DEF Apart
    <2> QED BY <2>5, <2>8, <2>9 DEF TypeInv
  <1> QED BY <1>0, <1>3, <1>4

LEMMA ReattachFailsHeld ==
    ASSUME TypeInv, Apart, NEW i \in Attaches, ReattachFails(i)
    PROVE  TypeInv' /\ Apart'
  <1>0. /\ rec[i].phase = "reattach" /\ Finished(i)
        /\ link' = Dropped(rec[i].link)
        /\ entry' = ScheduleRetry(entry, entry[i].session)
        /\ UNCHANGED <<stopped, map, refreshing, op, boot, bridge, disk, cloudVars,
                   countVars, got, skipped, repeated, raced>>
    BY DEF ReattachFails
  <1> PICK t : t = rec[i].link
    OBVIOUS
  <1>1. t \in Links /\ link[t].state \in {"connecting", "refused"}
    BY <1>0 DEF TypeInv, Held, RecHeld, Connecting
  <1>2. /\ link' \in [Links -> Transport] /\ OnlyLink(t)
        /\ link'[t].state \in {"refused", "closed"} /\ link'[t].session = link[t].session
        /\ link'[t].cse = link[t].cse
    BY <1>0, <1>1, DroppedDoes
  <1>s. spilt' \subseteq Messages
    BY PastSpills
  <1>3. EntriesEased /\ entry' \in [Attaches -> Entry]
    BY <1>0, RecoveringHeld, RetryEased DEF EntriesEased, Retimed
  <1>4. /\ rec' \in [Attaches -> Recovery] /\ rec'[i] = NoRec
        /\ \A j \in Attaches : j # i => rec'[j] = rec[j]
    BY <1>0, FinishedDoes
  <1>5. \A j \in Attaches : /\ entry[j].link # t /\ (j # i => rec[j].link # t)
                            /\ op[j].phase \in {"connect", "history", "mark"} => op[j].link # t
    <2>1. \A j \in Attaches : j # i => rec[j].link # t
      BY <1>1, Constants DEF Apart
    <2>2. \A j \in Attaches : op[j].phase = "connect" => op[j].link # t
      BY DEF Apart
    <2>3. \A j \in Attaches : /\ entry[j].link # t
                              /\ op[j].phase \in {"history", "mark"} => op[j].link # t
      BY <1>1, ConnectingLink
    <2> QED BY <2>1, <2>2, <2>3
  <1>6. /\ op' = op /\ map' = map /\ links' \in {links, links + 1}
        /\ opened' \in {opened, opened + 1}
    BY <1>0 DEF countVars
  <1>7. TypeOK'
    BY <1>0, <1>2, <1>3, <1>4, <1>s DEF TypeInv, TypeOK, cloudVars, countVars
  <1>8. \A j \in Attaches : /\ entry'[j].session = entry[j].session
                            /\ entry'[j].link = entry[j].link
                            /\ entry[j].session = None => entry'[j] = entry[j]
    BY <1>3 DEF EntriesEased, Retimed
  <1>9. ASSUME NEW j \in Attaches PROVE EntryHeld(j)' /\ RecHeld(j)' /\ OpHeld(j)'
    <2>1. EntryStays(j)
      BY <1>4, <1>6, <1>8 DEF EntryStays
    <2>2. EntryHeld(j)'
      BY <2>1, <1>2, <1>5, <1>6, EntryKept
    <2>3. RecHeld(j)'
      <3>1. CASE j = i
        BY <3>1, <1>4 DEF RecHeld, NoRec
      <3>2. CASE j # i
        BY <3>2, <1>2, <1>4, <1>5, <1>8, RecKept
      <3> QED BY <3>1, <3>2
    <2>4. OpHeld(j)'
      BY <1>2, <1>5, <1>6, OpKept
    <2> QED BY <2>2, <2>3, <2>4
  <1>10. \A u \in Links : LinkHeld(u)'
    BY <1>1, <1>2, <1>6, LinkKept
  <1>11. Held'
    <2>1. \A s \in Sessions : map'[s] # None => entry'[map'[s]].session = s
      BY <1>6, <1>8, Fields DEF TypeInv, Held
    <2> QED BY <2>1, <1>9, <1>10 DEF Held
  <1>12. Apart'
    <2>1. \A j \in Attaches : rec'[j].link = None \/ rec'[j].link = rec[j].link
      BY <1>4 DEF NoRec
    <2>2. \A j, k \in Attaches : op'[j].phase = "connect" => op'[j].link # rec'[k].link
      <3>1. \A j \in Attaches : op[j].phase = "connect" => op[j].link # None
        BY Constants DEF TypeInv, Held, OpHeld
      <3> QED BY <3>1, <2>1, <1>6 DEF Apart
    <2>3. \A j, k \in Attaches : rec'[j].link = rec'[k].link => j = k \/ rec'[j].link = None
      BY <2>1 DEF Apart
    <2>4. \A j, k \in Attaches : entry'[j].link = entry'[k].link => j = k \/ entry'[j].link = None
      BY <1>8 DEF Apart
    <2> QED BY <2>2, <2>3, <2>4, <1>6 DEF Apart
  <1> QED BY <1>7, <1>11, <1>12 DEF TypeInv

\* A transport that connects.
LEMMA UpDoes ==
    ASSUME TypeInv, NEW t \in Links, link' = [link EXCEPT ![t].state = "up"]
    PROVE  /\ link' \in [Links -> Transport] /\ OnlyLink(t)
           /\ link'[t].state = "up" /\ link'[t].session = link[t].session
           /\ link'[t].cse = link[t].cse /\ link'[t].seq = link[t].seq
           /\ link'[t].closes = link[t].closes
  <1>1. link \in [Links -> Transport] /\ link[t] \in Transport
    BY DEF TypeInv, TypeOK
  <1> PICK l \in Transport : l = link[t]
    BY <1>1
  <1> PICK m : m = [l EXCEPT !.state = "up"]
    OBVIOUS
  <1>2. /\ m \in Transport /\ m.state = "up" /\ m.session = l.session /\ m.cse = l.cse
        /\ m.seq = l.seq /\ m.closes = l.closes
    BY DEF Transport
  <1>3. /\ link' \in [Links -> Transport] /\ link'[t] = m
        /\ \A u \in Links : u # t => link'[u] = link[u]
    BY <1>1, <1>2
  <1> QED BY <1>2, <1>3 DEF OnlyLink

\* What an attach that lands has made of the entries.
Landed(i) ==
    /\ entry' \in [Attaches -> Entry]
    /\ entry'[i].session = op[i].session /\ entry'[i].link = op[i].link
    /\ entry'[i].attempt = 0 /\ entry'[i].backoff = FALSE
    /\ \A j \in Attaches : j # i => entry'[j] = entry[j]
    /\ map' \in [Sessions -> Attaches \cup {None}] /\ map'[op[i].session] = i
    /\ \A r \in Sessions : r # op[i].session => map'[r] = map[r]
    /\ bridge' \in [Sessions -> Links \cup {None}] /\ bridge'[op[i].session] = op[i].link
    /\ \A r \in Sessions : r # op[i].session => bridge'[r] = bridge[r]
    /\ op' \in [Attaches -> Operation] /\ \A j \in Attaches : j # i => op'[j] = op[j]
    /\ \/ op'[i] = NoOp
       \/ /\ op[i].kind = "upgrade" /\ op'[i].phase = "history" /\ op'[i].kind = "upgrade"
          /\ op'[i].session = op[i].session /\ op'[i].link = op[i].link
          /\ op'[i].cse = op[i].cse

LEMMA LandedDoes ==
    ASSUME TypeInv, NEW i \in Attaches, AttachLands(i)
    PROVE  Landed(i)
  <1>1. /\ op[i].phase = "connect" /\ op[i].session \in Sessions /\ op[i].link \in Links
        /\ op[i] \in Operation /\ op \in [Attaches -> Operation]
        /\ entry \in [Attaches -> Entry] /\ map \in [Sessions -> Attaches \cup {None}]
        /\ bridge \in [Sessions -> Links \cup {None}]
    BY DEF AttachLands, TypeInv, TypeOK, Held, OpHeld
  <1> PICK s \in Sessions, t \in Links : s = op[i].session /\ t = op[i].link
    BY <1>1
  <1> PICK m, e, n : /\ m = [map EXCEPT ![s] = i]
                     /\ n = [NoEntry EXCEPT !.session = s, !.link = t]
                     /\ e = [entry EXCEPT ![i] = n]
    OBVIOUS
  <1>2. /\ n \in Entry /\ n.session = s /\ n.link = t /\ n.attempt = 0 /\ n.backoff = FALSE
    <2> PICK b \in Entry : b = NoEntry
      BY Blanks
    <2>1. b.attempt = 0 /\ b.backoff = FALSE
      BY DEF NoEntry
    <2>2. n = [b EXCEPT !.session = s, !.link = t]
      OBVIOUS
    <2> QED BY <2>1, <2>2 DEF Entry
  <1>3. /\ e \in [Attaches -> Entry] /\ e[i] = n /\ \A j \in Attaches : j # i => e[j] = entry[j]
    BY <1>1, <1>2
  <1>4. /\ m \in [Sessions -> Attaches \cup {None}] /\ m[s] = i
        /\ \A r \in Sessions : r # s => m[r] = map[r]
    BY <1>1
  <1>5. /\ map' = m /\ entry' = ArmRefresh(e, m, s)
        /\ bridge' = [bridge EXCEPT ![s] = t]
        /\ op' = [op EXCEPT ![i] = IF @.kind = "upgrade" THEN [@ EXCEPT !.phase = "history"]
                               ELSE NoOp]
    BY DEF AttachLands
  <1>6. /\ Retimed(e, entry') /\ Besides(e, entry', i)
        /\ \A j \in Attaches : entry'[j].backoff = e[j].backoff /\ entry'[j].attempt = e[j].attempt
    <2>1. Armed(e, ArmRefresh(e, m, s), m[s])
      <3>1. e \in [Attaches -> Entry] /\ m \in [Sessions -> Attaches \cup {None}]
        BY <1>3, <1>4
      <3> QED BY <3>1, ArmedEntry
    <2>2. entry' = ArmRefresh(e, m, s)
      BY <1>5
    <2> QED BY <2>1, <2>2, <1>4 DEF Armed
  <1>7. /\ entry' \in [Attaches -> Entry]
        /\ entry'[i].session = s /\ entry'[i].link = t
        /\ entry'[i].attempt = 0 /\ entry'[i].backoff = FALSE
        /\ \A j \in Attaches : j # i => entry'[j] = entry[j]
    BY <1>2, <1>3, <1>6 DEF Retimed, Besides
  <1>8. /\ bridge' \in [Sessions -> Links \cup {None}] /\ bridge'[s] = t
        /\ \A r \in Sessions : r # s => bridge'[r] = bridge[r]
    BY <1>1, <1>5
  <1> PICK o : o = [op[i] EXCEPT !.phase = "history"]
    OBVIOUS
  <1>9. /\ o \in Operation /\ o.phase = "history" /\ o.kind = op[i].kind
        /\ o.session = s /\ o.link = t /\ o.cse = op[i].cse
    BY <1>1 DEF Operation, Phases
  <1>10. /\ op' \in [Attaches -> Operation] /\ \A j \in Attaches : j # i => op'[j] = op[j]
         /\ op'[i] = IF op[i].kind = "upgrade" THEN o ELSE NoOp
    BY <1>1, <1>5, <1>9, Blanks
  <1> QED BY <1>4, <1>5, <1>7, <1>8, <1>9, <1>10 DEF Landed

LEMMA PersistedIs ==
    ASSUME TypeInv, NEW i \in Attaches, op[i].phase = "connect"
    PROVE  /\ Persisted(i) \in [Sessions -> Worker]
           /\ \A r \in Sessions : r # op[i].session => Persisted(i)[r] = disk[r]
           /\ op[i].kind = "existing" => Persisted(i) = disk
           /\ op[i].kind # "existing" =>
                 /\ Persisted(i)[op[i].session].cse = op[i].cse
                 /\ Persisted(i)[op[i].session].seq = 0
                 /\ Persisted(i)[op[i].session].backfilled = FALSE
  <1>1. /\ op[i].session \in Sessions /\ op[i].cse \in Clouds \cup {None}
        /\ disk \in [Sessions -> Worker] /\ MaxInbound \in Nat
    BY Fields, Constants DEF TypeInv, TypeOK, Held, OpHeld
  <1> PICK s \in Sessions : s = op[i].session
    BY <1>1
  <1> PICK w : w = [cse |-> op[i].cse, seq |-> 0, backfilled |-> FALSE]
    OBVIOUS
  <1>2. w \in Worker /\ w.cse = op[i].cse /\ w.seq = 0 /\ w.backfilled = FALSE
    BY <1>1 DEF Worker
  <1>3. Persisted(i) = IF op[i].kind = "existing" THEN disk ELSE [disk EXCEPT ![s] = w]
    BY DEF Persisted
  <1> QED BY <1>1, <1>2, <1>3

LEMMA AttachLandsHeld ==
    ASSUME TypeInv, Apart, NEW i \in Attaches, AttachLands(i)
    PROVE  TypeInv' /\ Apart'
  <1>0. /\ op[i].phase = "connect" /\ link[op[i].link].state = "connecting"
        /\ link' = [link EXCEPT ![op[i].link].state = "up"]
        /\ disk' = Persisted(i)
        /\ UNCHANGED <<stopped, refreshing, rec, boot, cloudVars, countVars, inboundVars, raced>>
    BY DEF AttachLands
  <1> PICK t : t = op[i].link
    OBVIOUS
  <1>1. /\ t \in Links /\ link[t].state = "connecting" /\ link[t].session = op[i].session
        /\ op[i].session \in Sessions /\ i <= opened
    BY <1>0 DEF TypeInv, Held, OpHeld, Connecting
  <1>2. /\ link' \in [Links -> Transport] /\ OnlyLink(t)
        /\ link'[t].state = "up" /\ link'[t].session = link[t].session
        /\ link'[t].cse = link[t].cse
    BY <1>0, <1>1, UpDoes
  <1>3. Landed(i)
    BY LandedDoes
  <1>4. entry[i].session = None /\ entry[i] = NoEntry /\ rec[i] = NoRec
    BY <1>0 DEF TypeInv, Held, EntryHeld
  <1>5. \A j \in Attaches : /\ entry[j].link # t /\ rec[j].link # t
                            /\ j # i /\ op[j].phase \in {"connect", "history", "mark"}
                                  => op[j].link # t
    <2>1. \A j \in Attaches : rec[j].link # t
      BY <1>0 DEF Apart
    <2>2. \A j \in Attaches : j # i /\ op[j].phase = "connect" => op[j].link # t
      BY <1>0 DEF Apart
    <2>3. \A j \in Attaches : /\ entry[j].link # t
                              /\ op[j].phase \in {"history", "mark"} => op[j].link # t
      BY <1>1, ConnectingLink
    <2> QED BY <2>1, <2>2, <2>3
  <1>6. rec' = rec /\ links' \in {links, links + 1} /\ opened' \in {opened, opened + 1}
        /\ opened' = opened
    BY <1>0 DEF countVars
  <1>7. TypeOK'
    <2>1. disk' \in [Sessions -> Worker]
      BY <1>0, PersistedIs
    <2> QED BY <2>1, <1>0, <1>2, <1>3
            DEF TypeInv, TypeOK, Landed, cloudVars, countVars, inboundVars
  <1>8. ASSUME NEW j \in Attaches PROVE EntryHeld(j)' /\ RecHeld(j)' /\ OpHeld(j)'
    <2>1. CASE j # i
      <3>1. EntryStays(j) /\ op'[j] = op[j] /\ entry'[j] = entry[j]
        BY <2>1, <1>3, <1>6 DEF EntryStays, Landed
      <3>2. EntryHeld(j)'
        BY <3>1, <1>2, <1>5, <1>6, EntryKept
      <3>3. RecHeld(j)'
        BY <3>1, <1>2, <1>5, <1>6, RecKept
      <3>4. OpHeld(j)'
        BY <3>1, <2>1, <1>2, <1>5, <1>6, OpKept
      <3> QED BY <3>2, <3>3, <3>4
    <2>2. CASE j = i
      <3>1. EntryHeld(i)'
        <4>1. op'[i].phase \notin {"auth", "connect"}
          BY <1>3 DEF Landed, NoOp
        <4>2. entry'[i].session # None /\ entry'[i].link = t
              /\ Connected(link'[t], entry'[i].session)
          BY <1>1, <1>2, <1>3, Constants DEF Landed, Connected
        <4> QED BY <4>1, <4>2, <1>1, <1>6 DEF EntryHeld
      <3>2. RecHeld(i)'
        BY <1>4, <1>6 DEF RecHeld, NoRec
      <3>3. OpHeld(i)'
        <4>1. CASE op'[i] = NoOp
          BY <4>1 DEF OpHeld, NoOp
        <4>2. CASE op'[i] # NoOp
          <5>1. /\ op'[i].phase = "history" /\ op'[i].kind = "upgrade"
                /\ op'[i].session = op[i].session /\ op'[i].link = t
            BY <4>2, <1>3 DEF Landed
          <5>2. Connected(link'[t], op[i].session)
            BY <1>1, <1>2 DEF Connected
          <5> QED BY <5>1, <5>2, <1>1, <1>6 DEF OpHeld
        <4> QED BY <4>1, <4>2
      <3> QED BY <2>2, <3>1, <3>2, <3>3
    <2> QED BY <2>1, <2>2
  <1>9. \A u \in Links : LinkHeld(u)'
    BY <1>1, <1>2, <1>6, LinkKept
  <1>10. Held'
    <2>1. ASSUME NEW s \in Sessions, map'[s] # None PROVE entry'[map'[s]].session = s
      <3>1. CASE s = op[i].session
        BY <3>1, <1>3 DEF Landed
      <3>2. CASE s # op[i].session
        <4>1. map'[s] = map[s] /\ map[s] \in Attaches /\ entry[map[s]].session = s
          BY <2>1, <3>2, <1>3, Fields DEF TypeInv, Held, Landed
        <4>2. map[s] # i
          BY <4>1, <1>4, Constants
        <4> QED BY <4>1, <4>2, <1>3 DEF Landed
      <3> QED BY <3>1, <3>2
    <2> QED BY <2>1, <1>8, <1>9 DEF Held
  <1>11. Apart'
    <2>1. \A j \in Attaches : op'[j].phase = "connect" => j # i /\ op'[j] = op[j]
      BY <1>3 DEF Landed, NoOp
    <2>2. \A j, k \in Attaches : entry'[j].link = entry'[k].link => j = k \/ entry'[j].link = None
      BY <1>3, <1>5 DEF Apart, Landed
    <2>3. \A j, k \in Attaches : op'[j].phase = "connect" /\ op'[k].phase = "connect"
             /\ op'[j].link = op'[k].link => j = k
      BY <2>1 DEF Apart
    <2>4. \A j, k \in Attaches : op'[j].phase = "connect" => op'[j].link # rec'[k].link
      BY <2>1, <1>6 DEF Apart
    <2>5. \A j, k \in Attaches : rec'[j].link = rec'[k].link => j = k \/ rec'[j].link = None
      BY <1>6 DEF Apart
    <2> QED BY <2>2, <2>3, <2>4, <2>5 DEF Apart
  <1> QED BY <1>7, <1>10, <1>11 DEF TypeInv

\* What a reconnect that replaced its transport has made of its entry.
Replaced(i) ==
    /\ entry' \in [Attaches -> Entry]
    /\ entry'[i].session = entry[i].session /\ entry'[i].link = rec[i].link
    /\ \A j \in Attaches : j # i => /\ entry'[j].session = entry[j].session
                                    /\ entry'[j].link = entry[j].link
                                    /\ entry[j].session = None => entry'[j] = entry[j]
    /\ \A j \in Attaches : /\ entry'[j].backoff = entry[j].backoff
                           /\ j # map[entry[i].session] => entry'[j].refresh = entry[j].refresh
    /\ \A j \in Attaches : j # i => entry'[j].attempt = entry[j].attempt

LEMMA ReplacedDoes ==
    ASSUME TypeInv, NEW i \in Attaches, ReattachOk(i)
    PROVE  Replaced(i)
  <1>1. /\ rec[i].phase = "reattach" /\ rec[i].link \in Links
        /\ entry[i].session \in Sessions /\ entry \in [Attaches -> Entry]
        /\ entry[i] \in Entry /\ map \in [Sessions -> Attaches \cup {None}]
    BY RecoveringHeld DEF ReattachOk, TypeInv, TypeOK, Held, RecHeld
  <1> PICK s \in Sessions, t \in Links : s = entry[i].session /\ t = rec[i].link
    BY <1>1
  <1> PICK b \in Entry : b = entry[i]
    BY <1>1
  <1> PICK n : n = [b EXCEPT !.link = t, !.attempt = 0]
    OBVIOUS
  <1>2. /\ n \in Entry /\ n.session = s /\ n.link = t /\ n.attempt = 0
        /\ n.refresh = b.refresh /\ n.backoff = b.backoff
    <2>1. 0 \in 0 .. Ladder
      BY Constants
    <2> QED BY <2>1 DEF Entry
  <1> PICK e : e = [entry EXCEPT ![i].link = t, ![i].attempt = 0]
    OBVIOUS
  <1>3. /\ e \in [Attaches -> Entry] /\ e[i] = n /\ \A j \in Attaches : j # i => e[j] = entry[j]
    BY <1>1, <1>2
  <1>4. entry' = ArmRefresh(e, map, s)
    BY DEF ReattachOk
  <1>5. /\ Retimed(e, entry') /\ Besides(e, entry', map[s])
        /\ \A j \in Attaches : entry'[j].backoff = e[j].backoff /\ entry'[j].attempt = e[j].attempt
    <2>1. e \in [Attaches -> Entry] /\ map \in [Sessions -> Attaches \cup {None}]
      BY <1>1, <1>3
    <2>2. Armed(e, ArmRefresh(e, map, s), map[s])
      BY <2>1, ArmedEntry
    <2> QED BY <2>2, <1>4 DEF Armed
  <1>6. map[s] # None => entry[map[s]].session # None
    BY Constants DEF TypeInv, Held
  <1>7. \A j \in Attaches : /\ entry'[j].session = e[j].session /\ entry'[j].link = e[j].link
                            /\ j # map[s] => entry'[j] = e[j]
    BY <1>5 DEF Retimed, Besides
  <1>8. entry' \in [Attaches -> Entry]
    BY <1>5 DEF Retimed
  <1>9. entry'[i].session = entry[i].session /\ entry'[i].link = rec[i].link
    BY <1>2, <1>3, <1>7
  <1>10. \A j \in Attaches : j # i => /\ entry'[j].session = entry[j].session
                                      /\ entry'[j].link = entry[j].link
                                      /\ entry[j].session = None => entry'[j] = entry[j]
    BY <1>3, <1>6, <1>7, Constants
  <1>11. \A j \in Attaches : /\ entry'[j].backoff = entry[j].backoff
                             /\ j # map[s] => entry'[j].refresh = entry[j].refresh
    BY <1>2, <1>3, <1>5, <1>7
  <1>12. \A j \in Attaches : j # i => entry'[j].attempt = entry[j].attempt
    BY <1>3, <1>5
  <1> QED BY <1>8, <1>9, <1>10, <1>11, <1>12 DEF Replaced

LEMMA ReattachOkHeld ==
    ASSUME TypeInv, Apart, NEW i \in Attaches, ReattachOk(i)
    PROVE  TypeInv' /\ Apart'
  <1> PICK t, s : t = rec[i].link /\ s = entry[i].session
    OBVIOUS
  <1>0. /\ rec[i].phase = "reattach" /\ Finished(i) /\ link[t].state = "connecting"
        /\ link' = [link EXCEPT ![t].state = "up"]
        /\ bridge' = [bridge EXCEPT ![s] = t]
        /\ UNCHANGED <<stopped, map, refreshing, op, boot, disk, cloudVars,
                   countVars, inboundVars, raced>>
    BY DEF ReattachOk
  <1>1. /\ t \in Links /\ link[t].state = "connecting" /\ s \in Sessions /\ link[t].session = s
        /\ EntryHeld(i) /\ s # None
    BY <1>0, RecoveringHeld, Constants DEF TypeInv, Held, RecHeld, Connecting
  <1>2. /\ link' \in [Links -> Transport] /\ OnlyLink(t)
        /\ link'[t].state = "up" /\ link'[t].session = link[t].session
        /\ link'[t].cse = link[t].cse
    BY <1>0, <1>1, UpDoes
  <1>3. Replaced(i)
    BY ReplacedDoes
  <1>4. /\ rec' \in [Attaches -> Recovery] /\ rec'[i] = NoRec
        /\ \A j \in Attaches : j # i => rec'[j] = rec[j]
    BY <1>0, FinishedDoes
  <1>5. \A j \in Attaches : /\ entry[j].link # t /\ (j # i => rec[j].link # t)
                            /\ op[j].phase \in {"connect", "history", "mark"} => op[j].link # t
    <2>1. \A j \in Attaches : j # i => rec[j].link # t
      BY <1>1, Constants DEF Apart
    <2>2. \A j \in Attaches : op[j].phase = "connect" => op[j].link # t
      BY DEF Apart
    <2>3. \A j \in Attaches : /\ entry[j].link # t
                              /\ op[j].phase \in {"history", "mark"} => op[j].link # t
      BY <1>1, ConnectingLink
    <2> QED BY <2>1, <2>2, <2>3
  <1>6. /\ op' = op /\ map' = map /\ links' \in {links, links + 1}
        /\ opened' \in {opened, opened + 1} /\ opened' = opened
    BY <1>0 DEF countVars
  <1>7. TypeOK'
    <2>1. entry' \in [Attaches -> Entry]
      BY <1>3 DEF Replaced
    <2>2. bridge' \in [Sessions -> Links \cup {None}]
      BY <1>0, <1>1 DEF TypeInv, TypeOK
    <2> QED BY <2>1, <2>2, <1>0, <1>2, <1>4 DEF TypeInv, TypeOK, cloudVars, countVars, inboundVars
  <1>8. ASSUME NEW j \in Attaches PROVE EntryHeld(j)' /\ RecHeld(j)' /\ OpHeld(j)'
    <2>1. OpHeld(j)'
      BY <1>2, <1>5, <1>6, OpKept
    <2>2. CASE j # i
      <3>1. EntryStays(j)
        BY <2>2, <1>3, <1>4, <1>6 DEF EntryStays, Replaced
      <3>2. EntryHeld(j)'
        BY <3>1, <1>2, <1>5, <1>6, EntryKept
      <3>3. entry'[j].session = entry[j].session /\ entry'[j].link = entry[j].link
        BY <3>1 DEF EntryStays
      <3>4. RecHeld(j)'
        BY <3>3, <2>2, <1>2, <1>4, <1>5, RecKept
      <3> QED BY <2>1, <3>2, <3>4
    <2>3. CASE j = i
      <3>1. RecHeld(i)'
        BY <1>4 DEF RecHeld, NoRec
      <3>2. EntryHeld(i)'
        <4>1. entry'[i].session = s /\ entry'[i].link = t
          BY <1>3 DEF Replaced
        <4>2. Connected(link'[t], s)
          BY <1>1, <1>2 DEF Connected
        <4> QED BY <4>1, <4>2, <1>1, <1>6 DEF EntryHeld
      <3> QED BY <2>1, <2>3, <3>1, <3>2
    <2> QED BY <2>2, <2>3
  <1>9. \A u \in Links : LinkHeld(u)'
    BY <1>1, <1>2, <1>6, LinkKept
  <1>10. Held'
    <2>1. \A r \in Sessions : map'[r] # None => entry'[map'[r]].session = r
      <3>1. \A j \in Attaches : entry'[j].session = entry[j].session
        BY <1>3 DEF Replaced
      <3> QED BY <3>1, <1>6, Fields DEF TypeInv, Held
    <2> QED BY <2>1, <1>8, <1>9 DEF Held
  <1>11. Apart'
    <2>1. \A j \in Attaches : rec'[j].link = None \/ rec'[j].link = rec[j].link
      BY <1>4 DEF NoRec
    <2>2. \A j, k \in Attaches : op'[j].phase = "connect" => op'[j].link # rec'[k].link
      <3>1. \A j \in Attaches : op[j].phase = "connect" => op[j].link # None
        BY Constants DEF TypeInv, Held, OpHeld
      <3> QED BY <3>1, <2>1, <1>6 DEF Apart
    <2>3. \A j, k \in Attaches : rec'[j].link = rec'[k].link => j = k \/ rec'[j].link = None
      BY <2>1 DEF Apart
    <2>4. \A j, k \in Attaches : entry'[j].link = entry'[k].link => j = k \/ entry'[j].link = None
      <3>1. entry'[i].link = t /\ \A j \in Attaches : j # i => entry'[j].link = entry[j].link
        BY <1>3 DEF Replaced
      <3> QED BY <3>1, <1>5 DEF Apart
    <2> QED BY <2>2, <2>3, <2>4, <1>6 DEF Apart
  <1> QED BY <1>7, <1>10, <1>11 DEF TypeInv

LEMMA RestartHeld ==
    ASSUME TypeInv, Restart
    PROVE  TypeInv' /\ Apart'
  <1>0. /\ boots < MaxBoots /\ boots' = boots + 1
        /\ stopped' = FALSE /\ refreshing' = FALSE
        /\ map' = [s \in Sessions |-> None]
        /\ entry' = [i \in Attaches |-> NoEntry]
        /\ op' = [i \in Attaches |-> NoOp]
        /\ rec' = [i \in Attaches |-> NoRec]
        /\ boot' = disk
        /\ link' = [t \in Links |-> NoLink]
        /\ bridge' = [s \in Sessions |-> None]
        /\ got' = [c \in Clouds |-> [ever |-> got[c].ever, now |-> 0]]
        /\ repeated' = {} /\ spilt' = {}
        /\ UNCHANGED <<disk, cloudVars, opened, links, deaths, skipped, raced>>
    BY DEF Restart
  <1>1. boots' \in 1 .. MaxBoots
    BY <1>0, BoundsAssumption DEF TypeInv, TypeOK
  <1>2. got' \in [Clouds -> [ever : 0 .. MaxInbound, now : 0 .. MaxInbound]]
    BY <1>0, Constants DEF TypeInv, TypeOK
  <1>3. TypeOK'
    BY <1>0, <1>1, <1>2, Blanks DEF TypeInv, TypeOK, cloudVars
  <1>4. \A i \in Attaches : entry'[i] = NoEntry /\ op'[i] = NoOp /\ rec'[i] = NoRec
    BY <1>0
  <1>5. Held'
    <2>1. \A i \in Attaches : EntryHeld(i)' /\ RecHeld(i)' /\ OpHeld(i)'
      <3> SUFFICES ASSUME NEW i \in Attaches PROVE EntryHeld(i)' /\ RecHeld(i)' /\ OpHeld(i)'
        OBVIOUS
      <3>1. EntryHeld(i)'
        <4>1. NoEntry.session = None
          BY DEF NoEntry
        <4> QED BY <4>1, <1>4 DEF EntryHeld
      <3>2. RecHeld(i)'
        BY <1>4 DEF RecHeld, NoRec
      <3>3. OpHeld(i)'
        BY <1>4 DEF OpHeld, NoOp
      <3> QED BY <3>1, <3>2, <3>3
    <2>2. \A t \in Links : LinkHeld(t)'
      BY <1>0 DEF LinkHeld, NoLink
    <2> QED BY <2>1, <2>2, <1>0 DEF Held
  <1>6. Apart'
    BY <1>4 DEF Apart, NoEntry, NoOp, NoRec
  <1> QED BY <1>3, <1>5, <1>6 DEF TypeInv

-----------------------------------------------------------------------------
(* The step, action by action.                                             *)

LEMMA HeldInit ==
    ASSUME Init PROVE TypeInv /\ Apart
  <1>1. TypeOK
    <2>1. /\ 0 \in 0 .. MaxAttaches /\ 0 \in 0 .. MaxLinks /\ 0 \in 0 .. MaxDeaths
          /\ 1 \in 1 .. MaxBoots /\ 0 \in 0 .. MaxInbound
      BY BoundsAssumption
    <2>2. got \in [Clouds -> [ever : 0 .. MaxInbound, now : 0 .. MaxInbound]]
      BY <2>1 DEF Init
    <2> QED BY <2>1, <2>2, Blanks DEF Init, TypeOK
  <1>2. /\ \A i \in Attaches : entry[i] = NoEntry /\ op[i] = NoOp /\ rec[i] = NoRec
        /\ \A t \in Links : link[t] = NoLink
        /\ \A s \in Sessions : map[s] = None
    BY DEF Init
  <1>3. Held
    <2>1. \A i \in Attaches : EntryHeld(i)
      <3>1. NoEntry.session = None
        BY DEF NoEntry
      <3> QED BY <3>1, <1>2 DEF EntryHeld
    <2>2. \A i \in Attaches : RecHeld(i)
      BY <1>2 DEF RecHeld, NoRec
    <2>3. \A i \in Attaches : OpHeld(i)
      BY <1>2 DEF OpHeld, NoOp
    <2>4. \A t \in Links : LinkHeld(t)
      BY <1>2 DEF LinkHeld, NoLink
    <2> QED BY <2>1, <2>2, <2>3, <2>4, <1>2 DEF Held
  <1>4. Apart
    BY <1>2 DEF Apart, NoEntry, NoOp, NoRec
  <1> QED BY <1>1, <1>3, <1>4 DEF TypeInv

\* The actions that take nothing up, taken together.
LEMMA EasedSteps ==
    ASSUME TypeInv,
           \/ \E s \in Sessions : Unbridge(s) \/ BootGone(s) \/ BootFails(s) \/ Checkpoint(s)
           \/ \E i \in Attaches : \/ Backfill(i) \/ MarkBackfilled(i) \/ BackfillFails(i)
                                  \/ RefreshDue(i) \/ RetryDue(i) \/ ProbeFails(i)
                                  \/ ProbeGone(i) \/ Swapped(i)
           \/ \E t \in Links :
                 Die(t) \/ Refuse(t) \/ CloseFires(t) \/ CleanClose(t) \/ Inbound(t)
           \/ \E c \in Clouds : DeleteCloud(c)
           \/ Shutdown
    PROVE  TypeOK' /\ Eased
  <1>1. CASE \E s \in Sessions : Unbridge(s) \/ BootGone(s) \/ BootFails(s) \/ Checkpoint(s)
    BY <1>1, UnbridgeEased, DiskEased
  <1>2. CASE \E i \in Attaches : \/ Backfill(i) \/ MarkBackfilled(i) \/ BackfillFails(i)
                                 \/ RefreshDue(i) \/ RetryDue(i) \/ ProbeFails(i)
                                 \/ ProbeGone(i) \/ Swapped(i)
    BY <1>2, UpgradeEased, TimersEased, FailuresEased, ProbeGoneEased, SwapOkEased DEF Swapped
  <1>3. CASE \/ \E t \in Links :
                  Die(t) \/ Refuse(t) \/ CloseFires(t) \/ CleanClose(t) \/ Inbound(t)
             \/ \E c \in Clouds : DeleteCloud(c)
    BY <1>3, OutsideEased, CloseFiresEased, CleanCloseEased
  <1>4. CASE Shutdown
    BY <1>4, ShutdownEased
  <1> QED BY <1>1, <1>2, <1>3, <1>4

LEMMA AttachHeld ==
    ASSUME TypeInv, Apart, NEW s \in Sessions,
           BootAttach(s) \/ \E kind \in {"fresh", "upgrade"} : Attach(s, kind)
    PROVE  TypeInv' /\ Apart'
  <1>1. boot \in [Sessions -> Worker] /\ raced \in [Sessions -> BOOLEAN] /\ boot[s] \in Worker
    BY DEF TypeInv, TypeOK
  <1>2. ASSUME BootAttach(s) PROVE TypeInv' /\ Apart'
    <2>1. /\ Begin(s, "existing", boot[s]) /\ boot' = [boot EXCEPT ![s] = Pure] /\ raced' = raced
      BY <1>2 DEF BootAttach
    <2>2. boot' \in [Sessions -> Worker]
      BY <2>1, <1>1, Blanks
    <2> QED BY <2>1, <2>2, <1>1, BeginHeld
  <1>3. ASSUME NEW kind \in {"fresh", "upgrade"}, Attach(s, kind) PROVE TypeInv' /\ Apart'
    <2>1. Begin(s, kind, Pure) /\ boot' = boot
      BY <1>3 DEF Attach
    <2>2. raced' \in [Sessions -> BOOLEAN]
      BY <1>1, <1>3 DEF Attach, Overlap
    <2> QED BY <2>1, <2>2, <1>1, Blanks, BeginHeld
  <1> QED BY <1>2, <1>3

LEMMA HeldStep ==
    ASSUME TypeInv, Apart, [Next]_vars
    PROVE  TypeInv' /\ Apart'
  <1>1. ASSUME TypeOK', Eased PROVE TypeInv' /\ Apart'
    BY <1>1, EasedHolds DEF TypeInv
  <1>2. ASSUME NEW s \in Sessions,
               \/ \E kind \in {"fresh", "upgrade"} : Attach(s, kind)
               \/ Unbridge(s)
               \/ BootGone(s) \/ BootAttach(s) \/ BootFails(s)
               \/ Checkpoint(s)
        PROVE  TypeInv' /\ Apart'
    BY <1>1, <1>2, AttachHeld, EasedSteps
  <1>3. ASSUME NEW i \in Attaches,
               \/ AttachOpens(i) \/ AttachFails(i) \/ AttachLands(i)
               \/ Backfill(i) \/ MarkBackfilled(i) \/ BackfillFails(i)
               \/ RefreshDue(i) \/ RetryDue(i)
               \/ Probed(i) \/ Swapped(i) \/ Reattached(i)
        PROVE  TypeInv' /\ Apart'
    <2>1. CASE AttachOpens(i) \/ AttachFails(i) \/ AttachLands(i)
      BY <2>1, AttachOpensHeld, AttachFailsHeld, AttachLandsHeld
    <2>2. CASE \/ Backfill(i) \/ MarkBackfilled(i) \/ BackfillFails(i)
               \/ RefreshDue(i) \/ RetryDue(i) \/ ProbeFails(i) \/ ProbeGone(i) \/ Swapped(i)
      BY <2>2, <1>1, EasedSteps
    <2>3. CASE ProbeOk(i)
      <3>1. CASE link[entry[i].link].state = "up"
        BY <2>3, <3>1, <1>1, SwapBegins
      <3>2. CASE link[entry[i].link].state # "up"
        BY <2>3, <3>2, ReattachBegins
      <3> QED BY <3>1, <3>2
    <2>4. CASE Reattached(i)
      BY <2>4, ReattachOkHeld, ReattachFailsHeld DEF Reattached
    <2> QED BY <1>3, <2>1, <2>2, <2>3, <2>4 DEF Probed
  <1>4. ASSUME \/ \E t \in Links :
                    Die(t) \/ Refuse(t) \/ CloseFires(t) \/ CleanClose(t) \/ Inbound(t)
               \/ \E c \in Clouds : DeleteCloud(c)
               \/ Shutdown
        PROVE  TypeInv' /\ Apart'
    BY <1>1, <1>4, EasedSteps
  <1>5. CASE Restart
    BY <1>5, RestartHeld
  <1>6. CASE UNCHANGED vars
    <2>1. TypeOK'
      BY <1>6 DEF TypeInv, TypeOK, vars, serviceVars, waitVars, cloudVars, countVars, inboundVars
    <2>2. Eased
      <3>1. (\A i \in Attaches : RecEased(i)) /\ UNCHANGED <<map, entry, op, link, opened, links>>
        BY <1>6 DEF RecEased, vars, serviceVars, waitVars, countVars
      <3> QED BY <3>1, SameEntries, SameLinks, EasedStep
    <2> QED BY <1>1, <2>1, <2>2
  <1> QED BY <1>2, <1>3, <1>4, <1>5, <1>6 DEF Next

\* Every variable holds a value of its kind, in every reachable state: the
\* retry counter of a reconnect never passes the ladder
\* (bridge-service.ts scheduleBackoffRetry).
THEOREM TypeCorrect == Spec => []TypeOK
  <1>1. Init => TypeInv /\ Apart
    BY HeldInit
  <1>2. (TypeInv /\ Apart) /\ [Next]_vars => (TypeInv /\ Apart)'
    BY HeldStep
  <1>3. TypeInv => TypeOK
    BY DEF TypeInv
  <1> QED BY <1>1, <1>2, <1>3, PTL DEF Spec

\* What the awaiting operations hold is theirs alone, whatever overlaps.

-----------------------------------------------------------------------------
(* The sessions a step is not about.                                       *)

OpsOf(r) ==
    \A i \in Attaches : \/ op[i].session = r /\ op[i].phase # "none"
                        \/ op'[i].session = r /\ op'[i].phase # "none"
                        => op'[i] = op[i]

EntriesOf(r) ==
    \A i \in Attaches : entry[i].session = r \/ entry'[i].session = r =>
       entry'[i] = entry[i] /\ rec'[i] = rec[i]

LinksOf(r) ==
    \A t \in Links : link[t].session = r \/ link'[t].session = r => link'[t] = link[t]

SlotsOf(r) ==
    /\ map'[r] = map[r] /\ bridge'[r] = bridge[r] /\ disk'[r] = disk[r]
    /\ boot'[r] = boot[r] /\ raced'[r] = raced[r] /\ stopped' = stopped

Untouched(r) == OpsOf(r) /\ EntriesOf(r) /\ LinksOf(r) /\ SlotsOf(r)

\* A dead transport of the session's entry is on its way back.
Back(i) ==
    \/ link[entry[i].link].closes > 0
    \/ rec[i].phase # "none"
    \/ entry[i].backoff
    \/ entry[i].attempt = Ladder

Watched(s) ==
    ~stopped /\ map[s] # None /\ link[entry[map[s]].link].state = "dead" => Back(map[s])

LEMMA WatchedIsRecovered == DeadIsBeingRecovered <=> \A s \in Sessions : Watched(s)
  BY DEF DeadIsBeingRecovered, Watched, Back

Safe(s) == Alone(s) /\ Mirrored(s) /\ Flushed(s)

\* The entry of a session's slot, as the step finds it.
LEMMA MapHeld ==
    ASSUME TypeInv, NEW s \in Sessions, map[s] # None
    PROVE  /\ map[s] \in Attaches /\ entry[map[s]].session = s
           /\ entry[map[s]].link \in Links /\ Connected(link[entry[map[s]].link], s)
           /\ entry[map[s]].link # None /\ link[entry[map[s]].link].session = s
           /\ EntryHeld(map[s])
  <1>1. map[s] \in Attaches /\ entry[map[s]].session = s /\ s # None
    BY Fields, Constants DEF TypeInv, Held
  <1>2. EntryHeld(map[s])
    BY <1>1 DEF TypeInv, Held
  <1>3. entry[map[s]].link \in Links /\ Connected(link[entry[map[s]].link], s)
    BY <1>1, <1>2 DEF EntryHeld
  <1> QED BY <1>1, <1>2, <1>3, Constants DEF Connected

LEMMA UntouchedMap ==
    ASSUME TypeInv, NEW r \in Sessions, Untouched(r), map[r] # None
    PROVE  /\ map'[r] = map[r] /\ entry'[map[r]] = entry[map[r]] /\ rec'[map[r]] = rec[map[r]]
           /\ link'[entry[map[r]].link] = link[entry[map[r]].link]
  <1>1. /\ map[r] \in Attaches /\ entry[map[r]].session = r
        /\ entry[map[r]].link \in Links /\ link[entry[map[r]].link].session = r
    BY MapHeld
  <1> QED BY <1>1 DEF Untouched, SlotsOf, EntriesOf, LinksOf

LEMMA UntouchedWatched ==
    ASSUME TypeInv, NEW r \in Sessions, Untouched(r), Watched(r)
    PROVE  Watched(r)'
  <1>1. stopped' = stopped /\ map'[r] = map[r]
    BY DEF Untouched, SlotsOf
  <1>2. CASE map[r] = None
    BY <1>1, <1>2 DEF Watched
  <1>3. CASE map[r] # None
    BY <1>1, <1>3, UntouchedMap DEF Watched, Back
  <1> QED BY <1>2, <1>3

\* The operations, entries and transports of session r are as they were, or
\* nearer to their end: what is known of r without a race stays true.
OpsAlike(r) ==
    \A i \in Attaches : op'[i].session = r /\ op'[i].phase # "none" => op'[i] = op[i]

EntryAlike(i, r) ==
    /\ entry'[i].session = entry[i].session /\ entry'[i].link = entry[i].link
    /\ entry'[i].refresh \/ entry'[i].backoff =>
          entry[i].refresh \/ entry[i].backoff \/ map[r] = i
    /\ rec'[i].phase # "none" => rec[i].phase # "none" \/ map[r] = i
    /\ rec'[i].phase = "reattach" =>
          rec[i].phase = "reattach" \/ link[entry[i].link].state # "up"

EntriesAlike(r) ==
    \A i \in Attaches : entry[i].session = r \/ entry'[i].session = r => EntryAlike(i, r)

LinkAlike(t) ==
    \/ /\ link'[t].session = link[t].session /\ link'[t].cse = link[t].cse
       /\ \/ link'[t].state = link[t].state
          \/ link[t].state = "up" /\ link'[t].state = "dead"
          \/ /\ link[t].state \in {"connecting", "refused"}
             /\ link'[t].state \in {"refused", "closed"}
    \/ link[t].state = "none" /\ link'[t].state = "connecting"

LinksAlike(r) ==
    \A t \in Links : link[t].session = r \/ link'[t].session = r => LinkAlike(t)

LEMMA UntouchedAlike ==
    ASSUME NEW r, Untouched(r)
    PROVE  OpsAlike(r) /\ EntriesAlike(r) /\ LinksAlike(r) /\ SlotsOf(r)
  <1>1. OpsAlike(r)
    BY DEF Untouched, OpsOf, OpsAlike
  <1>2. EntriesAlike(r)
    BY DEF Untouched, EntriesOf, EntriesAlike, EntryAlike
  <1>3. LinksAlike(r)
    BY DEF Untouched, LinksOf, LinksAlike, LinkAlike
  <1> QED BY <1>1, <1>2, <1>3 DEF Untouched

LEMMA AloneKept ==
    ASSUME TypeInv, NEW r \in Sessions, OpsAlike(r), EntriesAlike(r), SlotsOf(r), Alone(r)
    PROVE  Alone(r)'
  <1>1. /\ stopped' = stopped /\ map'[r] = map[r] /\ boot'[r] = boot[r] /\ disk'[r] = disk[r]
    BY DEF SlotsOf
  <1>2. \A i \in Attaches : op'[i].session = r /\ op'[i].phase # "none" =>
           op'[i] = op[i] /\ op[i].session = r
    BY DEF OpsAlike
  <1>3. \A i \in Attaches : entry'[i].session = r => EntryAlike(i, r) /\ entry[i].session = r
    BY DEF EntriesAlike, EntryAlike
  <1>4. (\A i, j \in Attaches : op[i].session = r /\ op[i].phase # "none"
          /\ op[j].session = r /\ op[j].phase # "none" => i = j)'
    BY <1>2 DEF Alone
  <1>5. ASSUME NEW i \in Attaches, Attaching(i, r)'
        PROVE  (/\ map[r] = None /\ boot[r] = Pure /\ ~stopped
                /\ op[i].kind = "existing" => op[i].cse = disk[r].cse /\ op[i].cse # None
                /\ op[i].kind # "existing" /\ op[i].phase = "auth" => op[i].cse = None)'
    <2>1. op'[i] = op[i] /\ Attaching(i, r)
      BY <1>2, <1>5 DEF Attaching
    <2> QED BY <2>1, <1>1 DEF Alone
  <1>6. ASSUME NEW i \in Attaches, Flushing(i, r)' PROVE (boot[r] = Pure /\ ~stopped)'
    <2>1. Flushing(i, r)
      BY <1>2, <1>6 DEF Flushing
    <2> QED BY <2>1, <1>1 DEF Alone
  <1>7. ASSUME NEW i \in Attaches, Recovering(i, r)' PROVE (map[r] = i)'
    <2>1. Recovering(i, r) \/ map[r] = i
      BY <1>3, <1>7 DEF Recovering, EntryAlike
    <2> QED BY <2>1, <1>1 DEF Alone
  <1>8. (\A i \in Attaches : entry[i].session = r /\ (entry[i].refresh \/ entry[i].backoff) =>
          map[r] = i)'
    BY <1>1, <1>3 DEF Alone, EntryAlike
  <1>9. (boot[r] # Pure => map[r] = None /\ disk[r] = boot[r] /\ ~stopped)'
    BY <1>1 DEF Alone
  <1> QED BY <1>4, <1>5, <1>6, <1>7, <1>8, <1>9 DEF Alone

LEMMA MirroredKept ==
    ASSUME TypeInv, NEW r \in Sessions, EntriesAlike(r), LinksAlike(r), Mirrored(r),
           stopped' = stopped, map'[r] = map[r], bridge'[r] = bridge[r],
           disk'[r].cse = disk[r].cse
    PROVE  Mirrored(r)'
  <1>1. /\ stopped' = stopped /\ map'[r] = map[r] /\ bridge'[r] = bridge[r]
        /\ disk'[r].cse = disk[r].cse
    OBVIOUS
  <1>2. map[r] # None => /\ entry'[map[r]].link = entry[map[r]].link
                         /\ LinkAlike(entry[map[r]].link)
                         /\ link[entry[map[r]].link].state \in {"up", "dead"}
    <2> HAVE map[r] # None
    <2>1. /\ map[r] \in Attaches /\ entry[map[r]].session = r
          /\ entry[map[r]].link \in Links /\ link[entry[map[r]].link].session = r
      BY MapHeld
    <2> QED BY <2>1 DEF EntriesAlike, EntryAlike, LinksAlike, Mirrored
  <1>4. \A t \in Links : link'[t].session = r /\ link'[t].state = "up" =>
           link[t].state = "up" /\ link[t].session = r
    BY DEF LinksAlike, LinkAlike
  <1>5. (~stopped => bridge[r] = IF map[r] = None THEN None ELSE entry[map[r]].link)'
    BY <1>1, <1>2 DEF Mirrored
  <1>6. (/\ stopped => map[r] = None
         /\ stopped /\ bridge[r] # None =>
               link[bridge[r]].state = "closed" /\ link[bridge[r]].session = r)'
    <2>1. bridge[r] \in Links \cup {None}
      BY DEF TypeInv, TypeOK
    <2>2. bridge[r] # None /\ link[bridge[r]].session = r /\ link[bridge[r]].state = "closed" =>
             link'[bridge[r]].state = "closed" /\ link'[bridge[r]].session = r
      BY <2>1 DEF LinksAlike, LinkAlike
    <2> QED BY <2>2, <1>1 DEF Mirrored
  <1>7. (\A t \in Links : link[t].session = r /\ link[t].state = "up" =>
            map[r] # None /\ entry[map[r]].link = t)'
    BY <1>1, <1>2, <1>4 DEF Mirrored
  <1>8. (map[r] # None =>
            /\ link[entry[map[r]].link].state \in {"up", "dead"}
            /\ disk[r].cse = link[entry[map[r]].link].cse)'
    BY <1>1, <1>2 DEF Mirrored, LinkAlike
  <1>9. ASSUME NEW i \in Attaches, entry'[i].session = r, rec'[i].phase = "reattach"
        PROVE  link'[entry'[i].link].state # "up"
    <2>1. EntryAlike(i, r) /\ entry[i].session = r
      BY <1>9 DEF EntriesAlike, EntryAlike
    <2>2. entry[i].link \in Links /\ Connected(link[entry[i].link], r)
      BY <2>1, Constants DEF TypeInv, Held, EntryHeld
    <2>3. link[entry[i].link].state # "up"
      BY <2>1, <1>9 DEF Mirrored, EntryAlike
    <2>4. LinkAlike(entry[i].link)
      BY <2>2 DEF LinksAlike, Connected
    <2> QED BY <2>1, <2>2, <2>3, <2>4 DEF EntryAlike, LinkAlike, Connected
  <1> QED BY <1>5, <1>6, <1>7, <1>8, <1>9 DEF Mirrored

LEMMA FlushedKept ==
    ASSUME TypeInv, NEW r \in Sessions, OpsAlike(r), LinksAlike(r),
           disk'[r].cse = disk[r].cse, disk'[r].backfilled = disk[r].backfilled,
           flushed \subseteq flushed', Flushed(r)
    PROVE  Flushed(r)'
  <1>2. \A i \in Attaches : op'[i].session = r /\ op'[i].phase # "none" =>
           op'[i] = op[i] /\ op[i].session = r
    BY DEF OpsAlike
  <1>3. ASSUME NEW i \in Attaches, op'[i].session = r, op'[i].phase = "history"
        PROVE  /\ disk'[r].cse \in {None, link'[op'[i].link].cse}
               /\ link'[op'[i].link].state = "closed" => disk'[r].cse = None
    <2>1. op'[i] = op[i] /\ op[i].session = r /\ op[i].phase = "history"
      BY <1>2, <1>3
    <2>2. op[i].link \in Links /\ Connected(link[op[i].link], r)
      BY <2>1 DEF TypeInv, Held, OpHeld
    <2>3. LinkAlike(op[i].link)
      BY <2>2 DEF LinksAlike, Connected
    <2>4. /\ link'[op[i].link].cse = link[op[i].link].cse
          /\ link'[op[i].link].state = "closed" => link[op[i].link].state = "closed"
      BY <2>2, <2>3 DEF LinkAlike, Connected
    <2> QED BY <2>1, <2>4 DEF Flushed
  <1>4. (\A i \in Attaches : op[i].session = r /\ op[i].phase = "mark" =>
          disk[r].cse = None \/ disk[r].cse \in flushed)'
    BY <1>2 DEF Flushed
  <1>5. (disk[r].backfilled => disk[r].cse \in flushed)'
    BY DEF Flushed
  <1> QED BY <1>3, <1>4, <1>5 DEF Flushed

LEMMA SafeKept ==
    ASSUME TypeInv, NEW r \in Sessions, Safe(r), flushed \subseteq flushed',
           OpsAlike(r), EntriesAlike(r), LinksAlike(r), SlotsOf(r)
    PROVE  Safe(r)'
  BY AloneKept, MirroredKept, FlushedKept DEF Safe, SlotsOf

-----------------------------------------------------------------------------
(* The invariant of the sessions' lifecycles.                              *)

CalmInv ==
    /\ TypeInv /\ Apart /\ Silent /\ Stamps
    /\ \A s \in Sessions : Watched(s) /\ (~raced[s] => Safe(s))

\* A step that is about session s alone, and leaves it in order.
Settles(s) ==
    /\ \A r \in Sessions : r # s => Untouched(r)
    /\ flushed \subseteq flushed'
    /\ ~raced'[s] => Safe(s)'
    /\ Watched(s)'

LEMMA SettlesAll ==
    ASSUME CalmInv, NEW s \in Sessions, Settles(s)
    PROVE  \A r \in Sessions : (Watched(r) /\ (~raced[r] => Safe(r)))'
  <1> SUFFICES ASSUME NEW r \in Sessions
               PROVE  Watched(r)' /\ (~raced'[r] => Safe(r)')
    OBVIOUS
  <1>1. CASE r = s
    BY <1>1 DEF Settles
  <1>2. CASE r # s
    <2>1. Untouched(r) /\ raced'[r] = raced[r] /\ TypeInv /\ Watched(r)
      BY <1>2 DEF Settles, Untouched, SlotsOf, CalmInv
    <2>2. ~raced'[r] => Safe(r)
      BY <2>1 DEF CalmInv
    <2> QED BY <2>1, <2>2, UntouchedWatched, UntouchedAlike, SafeKept DEF Settles
  <1> QED BY <1>1, <1>2

-----------------------------------------------------------------------------
(* The step of each action, for the session it is about.                   *)

\* The entries that a step has changed are of session s.
EntriesFor(e, f, s) == \A j \in Attaches : entry[j].session # s => f[j] = e[j]

RecsFor(s) == \A j \in Attaches : entry[j].session # s => rec'[j] = rec[j]

\* The close of a transport of s at most has been reported.
Reported(s) ==
    \A t \in Links : /\ link'[t].session = link[t].session /\ link'[t].cse = link[t].cse
                     /\ link'[t].state = link[t].state
                     /\ link[t].session # s => link'[t] = link[t]

LEMMA OthersUntouched ==
    ASSUME TypeInv, NEW s, NEW r, r # s, EntriesEased, EntriesFor(entry, entry', s), RecsFor(s),
           OpsOf(r), LinksOf(r), SlotsOf(r)
    PROVE  Untouched(r)
  <1>1. EntriesOf(r)
    BY DEF EntriesOf, EntriesFor, RecsFor, EntriesEased, Retimed
  <1> QED BY <1>1 DEF Untouched

\* Entry m's recovery is as far as it was.
StillBack(m) ==
    /\ entry'[m].link = entry[m].link
    /\ link'[entry[m].link].state = "dead" =>
          \/ link'[entry[m].link].closes > 0
          \/ /\ link[entry[m].link].state = "dead"
             /\ link'[entry[m].link].closes = link[entry[m].link].closes
    /\ rec[m].phase # "none" => rec'[m].phase # "none"
    /\ entry[m].backoff => entry'[m].backoff
    /\ entry'[m].attempt = entry[m].attempt

LEMMA WatchedKept ==
    ASSUME NEW s, Watched(s), stopped' = stopped, map'[s] = map[s],
           map[s] # None => StillBack(map[s])
    PROVE  Watched(s)'
  BY DEF Watched, Back, StillBack

\* recover.
LEMMA RecoverSettles ==
    ASSUME CalmInv, NEW s \in Sessions, NEW e, Retimed(entry, e), FewerTimers(entry, e),
           \A j \in Attaches : entry[j].session = None => e[j] = entry[j],
           EntriesFor(entry, e, s), Recover(s, e), Reported(s),
           UNCHANGED <<stopped, map, op, boot, bridge, disk, flushed, raced>>
    PROVE  Settles(s)
  <1>i. TypeInv
    BY DEF CalmInv
  <1>1. /\ EntriesEased /\ Recovered(s) /\ FewerTimers(e, entry') /\ Besides(e, entry', map[s])
    BY <1>i, RecoverDoes
  <1>2. map[s] # None => map[s] \in Attaches /\ entry[map[s]].session = s
    BY <1>i, MapHeld
  <1>3. EntriesFor(entry, entry', s)
    BY <1>1, <1>2, Constants DEF EntriesFor, Besides
  <1>4. RecsFor(s)
    BY <1>1, <1>2, Constants DEF RecsFor, Recovered
  <1>5. ASSUME NEW r \in Sessions, r # s PROVE Untouched(r)
    <2>1. OpsOf(r) /\ LinksOf(r) /\ SlotsOf(r)
      BY <1>5 DEF OpsOf, LinksOf, SlotsOf, Reported
    <2> QED BY <2>1, <1>i, <1>1, <1>3, <1>4, <1>5, OthersUntouched
  <1>6. ASSUME ~raced'[s] PROVE Safe(s)'
    <2>1. Safe(s)
      BY <1>6 DEF CalmInv
    <2>2. OpsAlike(s) /\ LinksAlike(s) /\ SlotsOf(s)
      BY DEF OpsAlike, LinksAlike, LinkAlike, SlotsOf, Reported
    <2>3. ASSUME NEW i \in Attaches PROVE EntryAlike(i, s)
      <3>1. /\ entry'[i].session = entry[i].session /\ entry'[i].link = entry[i].link
        BY <1>1 DEF EntriesEased, Retimed
      <3>2. entry'[i].refresh \/ entry'[i].backoff => entry[i].refresh \/ entry[i].backoff
        BY <1>1 DEF FewerTimers
      <3>3. rec'[i] = rec[i] \/ (map[s] = i /\ rec'[i].phase = "probe")
        BY <1>1 DEF Recovered
      <3> QED BY <3>1, <3>2, <3>3 DEF EntryAlike
    <2>4. EntriesAlike(s)
      BY <2>3 DEF EntriesAlike
    <2> QED BY <2>1, <2>2, <2>4, <1>i, SafeKept
  <1>7. Watched(s)'
    BY <1>1 DEF Recovered, Watched, Back
  <1> QED BY <1>5, <1>6, <1>7 DEF Settles

LEMMA TimersSettle ==
    ASSUME CalmInv, NEW i \in Attaches, RefreshDue(i) \/ RetryDue(i)
    PROVE  entry[i].session \in Sessions /\ Settles(entry[i].session)
  <1>i. TypeInv
    BY DEF CalmInv
  <1>e. PICK e : /\ e \in {[entry EXCEPT ![i].refresh = FALSE], [entry EXCEPT ![i].backoff = FALSE]}
                 /\ Recover(entry[i].session, e)
    BY DEF RefreshDue, RetryDue
  <1>0. /\ entry[i].refresh \/ entry[i].backoff
        /\ UNCHANGED <<stopped, map, refreshing, op, boot, link, bridge, disk, cloudVars,
                   countVars, inboundVars, raced>>
    BY DEF RefreshDue, RetryDue
  <1>1. /\ entry[i].session \in Sessions /\ Retimed(entry, e) /\ Besides(entry, e, i)
        /\ FewerTimers(entry, e)
        /\ \A j \in Attaches : entry[j].session = None => e[j] = entry[j]
    BY <1>i, <1>0, <1>e, TimerOff
  <1> PICK s \in Sessions : s = entry[i].session
    BY <1>1
  <1>2. EntriesFor(entry, e, s)
    BY <1>1 DEF EntriesFor, Besides
  <1>3. Reported(s)
    BY <1>0 DEF Reported
  <1>4. UNCHANGED <<stopped, map, op, boot, bridge, disk, flushed, raced>>
    BY <1>0 DEF cloudVars
  <1>5. Recover(s, e)
    BY <1>e
  <1> QED BY <1>1, <1>2, <1>3, <1>4, <1>5, RecoverSettles

LEMMA CloseFiresSettles ==
    ASSUME CalmInv, NEW t \in Links, CloseFires(t)
    PROVE  link[t].session \in Sessions /\ Settles(link[t].session)
  <1>i. TypeInv
    BY DEF CalmInv
  <1> PICK s : s = link[t].session
    OBVIOUS
  <1>0. /\ link[t].closes > 0
        /\ link' = [link EXCEPT ![t].closes = @ - 1]
        /\ IF IsStale(s, t) THEN UNCHANGED <<entry, rec>> ELSE Recover(s, entry)
        /\ UNCHANGED <<stopped, map, op, boot, bridge, disk, flushed, raced>>
    BY DEF CloseFires, cloudVars
  <1>1. Relinked(t) /\ s \in Sessions /\ link'[t].state = link[t].state
    BY <1>i, <1>0, ClosesDoes
  <1>2. Reported(s)
    BY <1>1 DEF Reported, Relinked, SameLink
  <1>3. CASE ~IsStale(s, t)
    <2>1. Retimed(entry, entry) /\ FewerTimers(entry, entry) /\ EntriesFor(entry, entry, s)
      BY <1>i DEF Retimed, FewerTimers, EntriesFor, TypeInv, TypeOK
    <2> QED BY <2>1, <1>0, <1>1, <1>2, <1>3, RecoverSettles
  <1>4. CASE IsStale(s, t)
    <2>1. entry' = entry /\ rec' = rec
      BY <1>0, <1>4
    <2>2. EntriesEased
      BY <2>1, <1>i, SameEntries
    <2>3. ASSUME NEW r \in Sessions, r # s PROVE Untouched(r)
      BY <2>1, <2>3, <1>0, <1>2
         DEF Untouched, OpsOf, EntriesOf, LinksOf, SlotsOf, Reported
    <2>4. ASSUME ~raced'[s] PROVE Safe(s)'
      <3>1. Safe(s)
        BY <2>4, <1>0, <1>1 DEF CalmInv
      <3>2. OpsAlike(s) /\ LinksAlike(s) /\ SlotsOf(s)
        BY <1>0, <1>2 DEF OpsAlike, LinksAlike, LinkAlike, SlotsOf, Reported
      <3>3. EntriesAlike(s)
        BY <2>1 DEF EntriesAlike, EntryAlike
      <3> QED BY <3>1, <3>2, <3>3, <1>i, <1>0, <1>1, SafeKept
    <2>5. Watched(s)'
      <3>1. map[s] # None /\ entry[map[s]].link # t
        BY <1>4 DEF IsStale
      <3>2. entry[map[s]].link \in Links
        BY <3>1, <1>i, <1>1, MapHeld
      <3>3. link'[entry[map[s]].link] = link[entry[map[s]].link]
        BY <3>1, <3>2, <1>1 DEF Relinked
      <3>4. StillBack(map[s])
        BY <3>3, <2>1 DEF StillBack
      <3> QED BY <3>4, <1>0, <1>1, WatchedKept DEF CalmInv
    <2> QED BY <2>3, <2>4, <2>5, <1>0, <1>1 DEF Settles
  <1> QED BY <1>1, <1>3, <1>4

\* The transports that a step has changed are of session s, and are not
\* connected by it.
LinksFor(s) ==
    \A t \in Links :
       /\ LinkAlike(t)
       /\ \/ link'[t] = link[t]
          \/ link[t].session = s
          \/ link[t].state = "none" /\ link'[t].session = s

LEMMA LinksForDoes ==
    ASSUME TypeInv, NEW s \in Sessions, LinksFor(s)
    PROVE  LinksAlike(s) /\ \A r \in Sessions : r # s => LinksOf(r)
  <1>1. LinksAlike(s)
    BY DEF LinksFor, LinksAlike
  <1>2. ASSUME NEW r \in Sessions, r # s, NEW t \in Links,
               link[t].session = r \/ link'[t].session = r
        PROVE  link'[t] = link[t]
    <2>1. link[t].state = "none" => link[t].session = None
      BY DEF TypeInv, Held, LinkHeld, NoLink
    <2>2. r # None /\ s # None
      BY Constants
    <2> QED BY <2>1, <2>2, <1>2 DEF LinksFor, LinkAlike
  <1> QED BY <1>1, <1>2 DEF LinksOf

\* What the reconnect of entry i does to the other entries of its session
\* is nothing, but for the timers of the session's entry.
LEMMA FinishSettles ==
    ASSUME CalmInv, NEW i \in Attaches, rec[i].phase # "none", Finished(i),
           NEW s \in Sessions, s = entry[i].session,
           entry' = ScheduleRetry(entry, s), LinksFor(s),
           \A t \in Links : link[t].state \in {"up", "dead"} => link'[t] = link[t],
           UNCHANGED <<stopped, map, op, boot, bridge, disk, flushed, raced>>
    PROVE  Settles(s)
  <1>i. TypeInv
    BY DEF CalmInv
  <1>1. /\ Retimed(entry, entry') /\ Besides(entry, entry', map[s])
        /\ map[s] # None => entry'[map[s]].backoff \/ entry'[map[s]].attempt = Ladder
    BY <1>i, RetriedEntry DEF TypeInv
  <1>2. map[s] # None => map[s] \in Attaches /\ entry[map[s]].session = s
    BY <1>i, MapHeld
  <1>3. EntriesEased
    BY <1>i, RetryEased
  <1>4. EntriesFor(entry, entry', s)
    BY <1>1, <1>2, Constants DEF EntriesFor, Besides
  <1>5. /\ rec'[i] = NoRec /\ \A j \in Attaches : j # i => rec'[j] = rec[j]
    BY <1>i, FinishedDoes
  <1>6. RecsFor(s)
    BY <1>5 DEF RecsFor
  <1>7. ASSUME NEW r \in Sessions, r # s PROVE Untouched(r)
    <2>1. OpsOf(r) /\ LinksOf(r) /\ SlotsOf(r)
      BY <1>7, <1>i, LinksForDoes DEF OpsOf, SlotsOf
    <2> QED BY <2>1, <1>i, <1>3, <1>4, <1>6, <1>7, OthersUntouched
  <1>8. ASSUME ~raced'[s] PROVE Safe(s)'
    <2>1. Safe(s)
      BY <1>8 DEF CalmInv
    <2>2. OpsAlike(s) /\ LinksAlike(s) /\ SlotsOf(s)
      BY <1>i, LinksForDoes DEF OpsAlike, SlotsOf
    <2>3. ASSUME NEW j \in Attaches PROVE EntryAlike(j, s)
      <3>1. /\ entry'[j].session = entry[j].session /\ entry'[j].link = entry[j].link
        BY <1>1 DEF Retimed
      <3>2. entry'[j].refresh \/ entry'[j].backoff =>
               entry[j].refresh \/ entry[j].backoff \/ map[s] = j
        BY <1>1 DEF Besides
      <3>3. rec'[j] = rec[j] \/ rec'[j].phase = "none"
        BY <1>5 DEF NoRec
      <3> QED BY <3>1, <3>2, <3>3 DEF EntryAlike
    <2>4. EntriesAlike(s)
      BY <2>3 DEF EntriesAlike
    <2> QED BY <2>1, <2>2, <2>4, <1>i, SafeKept
  <1>9. Watched(s)'
    BY <1>1 DEF Watched, Back
  <1> QED BY <1>7, <1>8, <1>9 DEF Settles

LEMMA FailuresSettle ==
    ASSUME CalmInv, NEW i \in Attaches, ProbeFails(i) \/ SwapFails(i) \/ ReattachFails(i)
    PROVE  entry[i].session \in Sessions /\ Settles(entry[i].session)
  <1>i. TypeInv /\ Apart
    BY DEF CalmInv
  <1> PICK s : s = entry[i].session
    OBVIOUS
  <1>0. /\ rec[i].phase # "none" /\ Finished(i)
        /\ entry' = ScheduleRetry(entry, s)
        /\ UNCHANGED <<stopped, map, op, boot, bridge, disk, flushed, raced>>
    BY DEF ProbeFails, SwapFails, ReattachFails, cloudVars
  <1>1. s \in Sessions
    BY <1>0, <1>i, RecoveringHeld
  <1>2. LinksFor(s) /\ \A t \in Links : link[t].state \in {"up", "dead"} => link'[t] = link[t]
    <2>1. CASE ReattachFails(i)
      <3> PICK t : t = rec[i].link
        OBVIOUS
      <3>1. t \in Links /\ Connecting(link[t], s) /\ link' = Dropped(t)
        BY <2>1, <1>i DEF ReattachFails, TypeInv, Held, RecHeld
      <3>2. /\ \A u \in Links : u # t => link'[u] = link[u]
            /\ link'[t].state \in {"refused", "closed"} /\ link'[t].session = link[t].session
            /\ link'[t].cse = link[t].cse
        BY <3>1, <1>i, DroppedDoes DEF Connecting, OnlyLink
      <3> QED BY <3>1, <3>2 DEF LinksFor, LinkAlike, Connecting
    <2>2. CASE ProbeFails(i) \/ SwapFails(i)
      <3>1. link' = link
        BY <2>2 DEF ProbeFails, SwapFails
      <3> QED BY <3>1 DEF LinksFor, LinkAlike
    <2> QED BY <2>1, <2>2
  <1> QED BY <1>0, <1>1, <1>2, FinishSettles

\* A reconnect goes on from its probe.
LEMMA ProbeOkSettles ==
    ASSUME CalmInv, NEW i \in Attaches, ProbeOk(i)
    PROVE  entry[i].session \in Sessions /\ Settles(entry[i].session)
  <1>i. TypeInv /\ Apart
    BY DEF CalmInv
  <1> PICK s : s = entry[i].session
    OBVIOUS
  <1>0. /\ rec[i].phase = "probe"
        /\ UNCHANGED <<stopped, map, entry, op, boot, bridge, disk, flushed, raced>>
    BY DEF ProbeOk, serviceVars, cloudVars
  <1>1. s \in Sessions /\ entry[i].link \in Links
    BY <1>0, <1>i, RecoveringHeld
  <1>2. /\ \A j \in Attaches : j # i => rec'[j] = rec[j]
        /\ rec'[i].phase # "none"
        /\ rec'[i].phase = "reattach" => link[entry[i].link].state # "up"
        /\ LinksFor(s) /\ \A t \in Links : link[t].state # "none" => link'[t] = link[t]
    <2>1. CASE link[entry[i].link].state = "up"
      <3>1. rec' = [rec EXCEPT ![i].phase = "swap"] /\ link' = link
        BY <2>1 DEF ProbeOk
      <3>2. /\ \A j \in Attaches : j # i => rec'[j] = rec[j]
            /\ rec'[i].phase = "swap"
        BY <3>1, <1>i, Fields DEF TypeInv, TypeOK, Recovery
      <3> QED BY <3>1, <3>2 DEF LinksFor, LinkAlike
    <2>2. CASE link[entry[i].link].state # "up"
      <3>1. /\ rec' = [rec EXCEPT ![i] = [phase |-> "reattach", link |-> links']]
            /\ Opens(s, link[entry[i].link].cse, ResumeFrom(i))
        BY <2>2 DEF ProbeOk, Opens
      <3>2. /\ \A j \in Attaches : j # i => rec'[j] = rec[j]
            /\ rec'[i].phase = "reattach"
        BY <3>1, <1>i DEF TypeInv, TypeOK
      <3>3. link[entry[i].link].cse \in Clouds /\ ResumeFrom(i) \in 0 .. MaxInbound
        <4>1. link[entry[i].link].cse # None
          BY <1>0, <1>i, RecoveringHeld DEF TypeInv, Held, LinkHeld, Connected
        <4> QED BY <4>1, <1>1, <1>i, Fields DEF TypeInv, ResumeFrom
      <3>4. /\ links' \in Links /\ link[links'].state = "none" /\ OnlyLink(links')
            /\ link'[links'].state = "connecting" /\ link'[links'].session = s
        BY <3>1, <3>3, <1>1, <1>i, NewLinkIs
      <3> QED BY <2>2, <3>2, <3>4 DEF LinksFor, LinkAlike, OnlyLink
    <2> QED BY <2>1, <2>2
  <1>3. EntriesEased /\ EntriesFor(entry, entry', s) /\ RecsFor(s)
    BY <1>0, <1>2, <1>i, SameEntries DEF EntriesFor, RecsFor
  <1>4. ASSUME NEW r \in Sessions, r # s PROVE Untouched(r)
    <2>1. OpsOf(r) /\ LinksOf(r) /\ SlotsOf(r)
      BY <1>4, <1>0, <1>1, <1>2, <1>i, LinksForDoes DEF OpsOf, SlotsOf
    <2> QED BY <2>1, <1>i, <1>3, <1>4, OthersUntouched
  <1>5. ASSUME ~raced'[s] PROVE Safe(s)'
    <2>1. Safe(s)
      BY <1>5, <1>0, <1>1 DEF CalmInv
    <2>2. OpsAlike(s) /\ LinksAlike(s) /\ SlotsOf(s)
      BY <1>0, <1>1, <1>2, <1>i, LinksForDoes DEF OpsAlike, SlotsOf
    <2>3. EntriesAlike(s)
      BY <1>0, <1>2 DEF EntriesAlike, EntryAlike
    <2> QED BY <2>1, <2>2, <2>3, <1>0, <1>1, <1>i, SafeKept
  <1>6. Watched(s)'
    <2>1. CASE map[s] = None
      BY <2>1, <1>0 DEF Watched
    <2>2. CASE map[s] # None
      <3>1. /\ map[s] \in Attaches /\ entry[map[s]].link \in Links
            /\ Connected(link[entry[map[s]].link], s)
        BY <2>2, <1>1, <1>i, MapHeld
      <3>2. link'[entry[map[s]].link] = link[entry[map[s]].link]
        BY <3>1, <1>2 DEF Connected
      <3>3. rec[map[s]].phase # "none" => rec'[map[s]].phase # "none"
        BY <3>1, <1>2
      <3>4. StillBack(map[s])
        BY <3>2, <3>3, <1>0 DEF StillBack
      <3> QED BY <3>4, <1>0, <1>1, WatchedKept DEF CalmInv
    <2> QED BY <2>1, <2>2
  <1> QED BY <1>0, <1>1, <1>4, <1>5, <1>6 DEF Settles

\* The session is let go: its entry, and perhaps its worker state.
LinksLet(s) ==
    \A t \in Links :
       /\ link'[t].session = link[t].session /\ link'[t].cse = link[t].cse
       /\ link'[t].state \in {link[t].state, "closed"}
       /\ link[t].session # s => link'[t] = link[t]

Idle(s) ==
    /\ \A i \in Attaches : op[i].session = s => op[i].phase = "none"
    /\ \A i \in Attaches : entry[i].session = s => rec[i].phase = "none"
    /\ boot[s] = Pure

LEMMA BusyOrIdle ==
    ASSUME NEW s \in Sessions, raced' = [raced EXCEPT ![s] = @ \/ Busy(s)],
           raced \in [Sessions -> BOOLEAN]
    PROVE  /\ ~raced'[s] => ~raced[s] /\ Idle(s)
           /\ \A r \in Sessions : r # s => raced'[r] = raced[r]
  BY DEF Busy, Idle

Released(s) ==
    /\ EntriesEased /\ Forgotten(s) /\ LinksLet(s)
    /\ \A j \in Attaches : rec'[j] = rec[j] \/ (entry[j].session = s /\ rec'[j] = NoRec)
    /\ \A r \in Sessions : r # s => disk'[r] = disk[r] /\ raced'[r] = raced[r]
    /\ disk'[s] = Pure \/ (disk'[s] = disk[s] /\ (~raced'[s] => Idle(s)))
    /\ ~raced'[s] => /\ ~raced[s] /\ rec'[map[s]].phase = "none"
                     /\ link'[entry[map[s]].link].state # "up"
    /\ UNCHANGED <<op, boot, stopped, flushed>>

LEMMA ReleasedSettles ==
    ASSUME CalmInv, NEW s \in Sessions, map[s] # None, Released(s)
    PROVE  Settles(s)
  <1>i. TypeInv
    BY DEF CalmInv
  <1>1. map[s] \in Attaches /\ entry[map[s]].session = s
    BY <1>i, MapHeld
  <1>2. /\ map'[s] = None /\ Besides(entry, entry', map[s]) /\ FewerTimers(entry, entry')
        /\ ~entry'[map[s]].refresh /\ ~entry'[map[s]].backoff
        /\ bridge'[s] = IF bridge[s] = entry[map[s]].link THEN None ELSE bridge[s]
        /\ \A r \in Sessions : r # s => map'[r] = map[r] /\ bridge'[r] = bridge[r]
    BY DEF Released, Forgotten
  <1>3. \A j \in Attaches : entry'[j].session = entry[j].session /\ entry'[j].link = entry[j].link
    BY DEF Released, EntriesEased, Retimed
  <1>4. EntriesFor(entry, entry', s) /\ RecsFor(s)
    BY <1>1, <1>2, Constants DEF EntriesFor, RecsFor, Besides, Released
  <1>5. ASSUME NEW r \in Sessions, r # s PROVE Untouched(r)
    <2>1. OpsOf(r) /\ LinksOf(r) /\ SlotsOf(r)
      BY <1>5, <1>2 DEF OpsOf, SlotsOf, LinksOf, Released, LinksLet
    <2> QED BY <2>1, <1>i, <1>4, <1>5, OthersUntouched DEF Released
  <1>6. ASSUME ~raced'[s] PROVE Safe(s)'
    <2>1. /\ Alone(s) /\ Mirrored(s) /\ Flushed(s) /\ rec'[map[s]].phase = "none"
          /\ link'[entry[map[s]].link].state # "up"
      BY <1>6 DEF CalmInv, Safe, Released
    <2>2. ~stopped /\ stopped' = stopped /\ boot'[s] = Pure /\ boot[s] = Pure /\ op' = op
      BY <2>1 DEF Mirrored, Alone, Released
    <2>3. \A j \in Attaches : entry'[j].session = s => rec'[j].phase = "none"
      <3> SUFFICES ASSUME NEW j \in Attaches, entry'[j].session = s, rec'[j].phase # "none"
                   PROVE  FALSE
        OBVIOUS
      <3>1. rec'[j] = rec[j] /\ Recovering(j, s)
        BY <1>3 DEF Released, Recovering, NoRec
      <3>2. j = map[s]
        BY <3>1, <2>1 DEF Alone
      <3> QED BY <3>2, <2>1
    <2>4. \A j \in Attaches : entry'[j].session = s => ~entry'[j].refresh /\ ~entry'[j].backoff
      <3> SUFFICES ASSUME NEW j \in Attaches, entry'[j].session = s,
                          entry'[j].refresh \/ entry'[j].backoff
                   PROVE  FALSE
        OBVIOUS
      <3>1. entry[j].refresh \/ entry[j].backoff
        BY <1>2 DEF FewerTimers
      <3>2. j = map[s]
        BY <3>1, <1>3, <2>1 DEF Alone
      <3> QED BY <3>2, <1>2
    <2>5. Alone(s)'
      <3>1. \A i \in Attaches : ~Attaching(i, s)
        BY <2>1 DEF Alone
      <3>2. \A i \in Attaches : ~Attaching(i, s)'
        BY <3>1, <2>2 DEF Attaching
      <3>3. \A i \in Attaches : ~Recovering(i, s)'
        BY <2>3 DEF Recovering
      <3>4. (\A i, j \in Attaches : op[i].session = s /\ op[i].phase # "none"
              /\ op[j].session = s /\ op[j].phase # "none" => i = j)'
        BY <2>1, <2>2 DEF Alone
      <3> QED BY <3>2, <3>3, <3>4, <2>2, <2>4 DEF Alone
    <2>6. Mirrored(s)'
      <3>1. bridge[s] = entry[map[s]].link
        BY <2>1, <2>2 DEF Mirrored
      <3>2. \A t \in Links : ~(link'[t].session = s /\ link'[t].state = "up")
        BY <2>1 DEF Mirrored, Released, LinksLet
      <3> QED BY <3>1, <3>2, <1>2, <2>2, <2>3 DEF Mirrored
    <2>7. Flushed(s)'
      <3>1. CASE disk'[s] = Pure
        BY <3>1 DEF Flushed, Pure
      <3>2. CASE disk'[s] = disk[s] /\ Idle(s)
        BY <3>2, <2>1, <2>2 DEF Flushed, Idle, Released
      <3> QED BY <3>1, <3>2, <1>6 DEF Released
    <2> QED BY <2>5, <2>6, <2>7 DEF Safe
  <1>7. Watched(s)'
    BY <1>2 DEF Watched
  <1> QED BY <1>5, <1>6, <1>7 DEF Settles, Released

LEMMA DetachLets ==
    ASSUME TypeInv, NEW s \in Sessions, map[s] # None, Detach(s)
    PROVE  /\ EntriesEased /\ Forgotten(s) /\ LinksLet(s)
           /\ link'[entry[map[s]].link].state = "closed" /\ disk'[s] = Pure
           /\ \A r \in Sessions : r # s => disk'[r] = disk[r]
  <1> PICK t : t = entry[map[s]].link
    OBVIOUS
  <1>1. /\ EntriesEased /\ Forgotten(s) /\ t \in Links /\ link' = Shut(t)
        /\ disk'[s] = Pure /\ \A r \in Sessions : r # s => disk'[r] = disk[r]
    BY DetachDoes
  <1>2. link[t].session = s
    BY MapHeld
  <1>3. /\ \A u \in Links : u # t => link'[u] = link[u]
        /\ link'[t].state = "closed" /\ link'[t].session = link[t].session
        /\ link'[t].cse = link[t].cse
    BY <1>1, ShutDoes
  <1>4. LinksLet(s)
    BY <1>2, <1>3 DEF LinksLet
  <1> QED BY <1>1, <1>3, <1>4

\* A step that leaves a session, which is not bridged, as it is.
LEMMA NothingSettles ==
    ASSUME CalmInv, NEW s \in Sessions, EntriesEased, EntriesFor(entry, entry', s),
           entry' = entry, RecsFor(s), \A j \in Attaches : rec'[j] = rec[j] \/ rec'[j] = NoRec,
           map[s] = None, LinksFor(s), ~raced'[s] => ~raced[s], raced'[s] \in BOOLEAN,
           \A r \in Sessions : r # s => raced'[r] = raced[r],
           UNCHANGED <<stopped, map, op, boot, bridge, disk, flushed>>
    PROVE  Settles(s)
  <1>i. TypeInv
    BY DEF CalmInv
  <1>1. ASSUME NEW r \in Sessions, r # s PROVE Untouched(r)
    <2>1. OpsOf(r) /\ LinksOf(r) /\ SlotsOf(r)
      BY <1>1, <1>i, LinksForDoes DEF OpsOf, SlotsOf
    <2> QED BY <2>1, <1>i, <1>1, OthersUntouched
  <1>2. ASSUME ~raced'[s] PROVE Safe(s)'
    <2>1. Safe(s) /\ raced'[s] = raced[s]
      BY <1>2, <1>i DEF CalmInv, TypeInv, TypeOK
    <2>2. OpsAlike(s) /\ LinksAlike(s)
      BY <1>i, LinksForDoes DEF OpsAlike
    <2>3. EntriesAlike(s)
      BY DEF EntriesAlike, EntryAlike, NoRec
    <2> QED BY <2>1, <2>2, <2>3, <1>i, SafeKept DEF SlotsOf
  <1>3. Watched(s)'
    BY DEF Watched
  <1> QED BY <1>1, <1>2, <1>3 DEF Settles

LEMMA ProbeGoneSettles ==
    ASSUME CalmInv, NEW i \in Attaches, ProbeGone(i)
    PROVE  entry[i].session \in Sessions /\ Settles(entry[i].session)
  <1>i. TypeInv
    BY DEF CalmInv
  <1> PICK s \in Sessions : s = entry[i].session
    BY <1>i, RecoveringHeld DEF ProbeGone
  <1>0. /\ Finished(i)
        /\ IF map[s] = None
           THEN UNCHANGED <<map, entry, bridge, refreshing, link, disk>>
           ELSE Detach(s)
        /\ raced' = [raced EXCEPT ![s] = @ \/ map[s] # i]
        /\ UNCHANGED <<stopped, op, boot, flushed>>
    BY DEF ProbeGone, cloudVars
  <1>1. /\ rec'[i] = NoRec /\ \A j \in Attaches : j # i => rec'[j] = rec[j]
    BY <1>0, <1>i, FinishedDoes
  <1>2. RecsFor(s) /\ \A j \in Attaches : rec'[j] = rec[j] \/ (entry[j].session = s /\ rec'[j] = NoRec)
    BY <1>1 DEF RecsFor
  <1>3. /\ raced'[s] \in BOOLEAN /\ (~raced'[s] => ~raced[s] /\ map[s] = i)
        /\ \A r \in Sessions : r # s => raced'[r] = raced[r]
    BY <1>0, <1>i DEF TypeInv, TypeOK
  <1>4. CASE map[s] = None
    <2>1. UNCHANGED <<map, entry, bridge, refreshing, link, disk>>
      BY <1>0, <1>4
    <2>2. EntriesEased /\ EntriesFor(entry, entry', s) /\ LinksFor(s)
      BY <2>1, <1>i, SameEntries DEF EntriesFor, LinksFor, LinkAlike
    <2> QED BY <2>1, <2>2, <1>0, <1>2, <1>3, <1>4, NothingSettles
  <1>5. CASE map[s] # None
    <2>1. Detach(s)
      BY <1>0, <1>5
    <2>2. /\ EntriesEased /\ Forgotten(s) /\ LinksLet(s)
          /\ link'[entry[map[s]].link].state = "closed" /\ disk'[s] = Pure
          /\ \A r \in Sessions : r # s => disk'[r] = disk[r]
      BY <2>1, <1>i, <1>5, DetachLets
    <2>3. Released(s)
      BY <2>2, <1>0, <1>1, <1>2, <1>3 DEF Released, NoRec
    <2> QED BY <2>3, <1>5, ReleasedSettles
  <1> QED BY <1>4, <1>5

LEMMA UnbridgeSettles ==
    ASSUME CalmInv, NEW s \in Sessions, Unbridge(s)
    PROVE  Settles(s)
  <1>i. TypeInv
    BY DEF CalmInv
  <1>0. /\ Unbridged(s) /\ raced' = [raced EXCEPT ![s] = @ \/ Busy(s)]
        /\ UNCHANGED <<stopped, rec, op, boot, flushed>>
    BY DEF Unbridge, Overlap, waitVars, cloudVars
  <1>3. /\ raced'[s] \in BOOLEAN /\ (~raced'[s] => ~raced[s] /\ Idle(s))
        /\ \A r \in Sessions : r # s => raced'[r] = raced[r]
    BY <1>0, <1>i, BusyOrIdle DEF TypeInv, TypeOK
  <1>4. CASE map[s] = None
    <2>1. UNCHANGED <<map, entry, bridge, refreshing, link, disk>>
      BY <1>0, <1>4 DEF Unbridged
    <2>2. EntriesEased /\ EntriesFor(entry, entry', s) /\ LinksFor(s) /\ RecsFor(s)
      BY <2>1, <1>0, <1>i, SameEntries DEF EntriesFor, LinksFor, LinkAlike, RecsFor
    <2> QED BY <2>1, <2>2, <1>0, <1>3, <1>4, NothingSettles
  <1>5. CASE map[s] # None
    <2>1. Detach(s)
      BY <1>0, <1>5 DEF Unbridged
    <2>2. /\ EntriesEased /\ Forgotten(s) /\ LinksLet(s)
          /\ link'[entry[map[s]].link].state = "closed" /\ disk'[s] = Pure
          /\ \A r \in Sessions : r # s => disk'[r] = disk[r]
      BY <2>1, <1>i, <1>5, DetachLets
    <2>3. map[s] \in Attaches /\ entry[map[s]].session = s
      BY <1>i, <1>5, MapHeld
    <2>4. Released(s)
      BY <2>2, <2>3, <1>0, <1>3 DEF Released, Idle
    <2> QED BY <2>4, <1>5, ReleasedSettles
  <1> QED BY <1>4, <1>5

LEMMA CleanCloseSettles ==
    ASSUME CalmInv, NEW t \in Links, CleanClose(t)
    PROVE  link[t].session \in Sessions /\ Settles(link[t].session)
  <1>i. TypeInv
    BY DEF CalmInv
  <1> PICK s : s = link[t].session
    OBVIOUS
  <1>0. /\ link[t].closes > 0
        /\ link' = [link EXCEPT ![t].closes = @ - 1]
        /\ IF map[s] = None \/ IsStale(s, t)
           THEN UNCHANGED <<map, entry, bridge, refreshing, raced>>
           ELSE /\ Forget(s)
                /\ raced' = [raced EXCEPT ![s] = @ \/ Busy(s) \/ link[t].state = "refused"]
        /\ UNCHANGED <<stopped, rec, op, boot, disk, flushed>>
    BY DEF CleanClose, waitVars, cloudVars
  <1>1. Relinked(t) /\ s \in Sessions /\ link'[t].state = link[t].state
    BY <1>i, <1>0, ClosesDoes
  <1>2. Reported(s)
    BY <1>1 DEF Reported, Relinked, SameLink
  <1>3. CASE ~(map[s] = None \/ IsStale(s, t))
    <2>1. map[s] # None /\ (link[t].state # "refused" => entry[map[s]].link = t)
      BY <1>3 DEF IsStale
    <2>2. Forget(s) /\ raced' = [raced EXCEPT ![s] = @ \/ Busy(s) \/ link[t].state = "refused"]
      BY <1>0, <1>3
    <2>3. EntriesEased /\ Forgotten(s)
      BY <2>1, <2>2, <1>1, <1>i, ForgetDoes
    <2>4. LinksLet(s)
      BY <1>2 DEF LinksLet, Reported
    <2>5. /\ ~raced'[s] => ~raced[s] /\ Idle(s) /\ link[t].state # "refused"
          /\ \A r \in Sessions : r # s => raced'[r] = raced[r]
      BY <2>2, <1>1, <1>i DEF TypeInv, TypeOK, Busy, Idle
    <2>6. link'[t].state # "up"
      <3>1. link[t].closes \in 0 .. 2
        BY <1>i, Fields DEF TypeInv
      <3> QED BY <3>1, <1>0, <1>1 DEF CalmInv, Silent
    <2>7. map[s] \in Attaches /\ entry[map[s]].session = s
      BY <2>1, <1>1, <1>i, MapHeld
    <2>8. Released(s)
      BY <2>1, <2>3, <2>4, <2>5, <2>6, <2>7, <1>0 DEF Released, Idle
    <2> QED BY <2>1, <2>8, <1>1, ReleasedSettles
  <1>4. CASE map[s] = None \/ IsStale(s, t)
    <2>1. entry' = entry /\ rec' = rec
          /\ UNCHANGED <<map, entry, bridge, refreshing, raced>>
      BY <1>0, <1>4
    <2>2. /\ EntriesEased /\ EntriesFor(entry, entry', s) /\ RecsFor(s)
          /\ LinksFor(s)
      BY <2>1, <1>2, <1>i, SameEntries DEF EntriesFor, RecsFor, LinksFor, LinkAlike, Reported
    <2>3. ASSUME NEW r \in Sessions, r # s PROVE Untouched(r)
      BY <2>1, <2>3, <1>0, <1>2
         DEF Untouched, OpsOf, EntriesOf, LinksOf, SlotsOf, Reported
    <2>4. ASSUME ~raced'[s] PROVE Safe(s)'
      <3>1. Safe(s)
        BY <2>4, <2>1, <1>1 DEF CalmInv
      <3>2. OpsAlike(s) /\ LinksAlike(s) /\ SlotsOf(s)
        BY <1>0, <1>2, <2>1 DEF OpsAlike, LinksAlike, LinkAlike, SlotsOf, Reported
      <3>3. EntriesAlike(s)
        BY <2>1 DEF EntriesAlike, EntryAlike
      <3> QED BY <3>1, <3>2, <3>3, <1>i, <1>0, <1>1, SafeKept
    <2>5. Watched(s)'
      <3>1. CASE map[s] = None
        BY <3>1, <2>1 DEF Watched
      <3>2. CASE map[s] # None
        <4>1. entry[map[s]].link # t /\ entry[map[s]].link \in Links
          BY <3>2, <1>1, <1>4, <1>i, MapHeld DEF IsStale
        <4>2. link'[entry[map[s]].link] = link[entry[map[s]].link]
          BY <4>1, <1>1 DEF Relinked
        <4>3. StillBack(map[s])
          BY <4>2, <2>1 DEF StillBack
        <4> QED BY <4>3, <2>1, <1>0, <1>1, WatchedKept DEF CalmInv
      <3> QED BY <3>1, <3>2
    <2> QED BY <2>3, <2>4, <2>5, <1>0, <1>1 DEF Settles
  <1> QED BY <1>1, <1>3, <1>4

-----------------------------------------------------------------------------
(* Attach and upgrade, for their session.                                  *)

OpStep(s, i) ==
    /\ \A j \in Attaches : j # i => op'[j] = op[j]
    /\ op[i].phase = "none" \/ op[i].session = s
    /\ op'[i].phase = "none" \/ op'[i].session = s
    /\ LinksFor(s) /\ \A t \in Links : link[t].state \in {"up", "dead"} => link'[t] = link[t]
    /\ \A r \in Sessions : r # s =>
          disk'[r] = disk[r] /\ boot'[r] = boot[r] /\ raced'[r] = raced[r]
    /\ flushed \subseteq flushed'
    /\ UNCHANGED <<stopped, map, entry, rec, bridge>>

LEMMA OpStepDoes ==
    ASSUME CalmInv, NEW s \in Sessions, NEW i \in Attaches, OpStep(s, i)
    PROVE  /\ \A r \in Sessions : r # s => Untouched(r)
           /\ Watched(s)' /\ EntriesAlike(s) /\ LinksAlike(s)
  <1>i. TypeInv
    BY DEF CalmInv
  <1>1. LinksAlike(s) /\ EntriesAlike(s)
    BY <1>i, LinksForDoes DEF OpStep, EntriesAlike, EntryAlike
  <1>2. ASSUME NEW r \in Sessions, r # s PROVE Untouched(r)
    <2>1. LinksOf(r)
      BY <1>2, <1>i, LinksForDoes DEF OpStep
    <2>2. OpsOf(r)
      BY <1>2 DEF OpStep, OpsOf
    <2>3. EntriesOf(r) /\ SlotsOf(r)
      BY <1>2 DEF OpStep, EntriesOf, SlotsOf
    <2> QED BY <2>1, <2>2, <2>3 DEF Untouched
  <1>3. Watched(s)'
    <2>1. CASE map[s] = None
      BY <2>1 DEF Watched, OpStep
    <2>2. CASE map[s] # None
      <3>1. /\ map[s] \in Attaches /\ entry[map[s]].link \in Links
            /\ Connected(link[entry[map[s]].link], s)
        BY <2>2, <1>i, MapHeld
      <3>2. link[entry[map[s]].link].state \in {"up", "dead"} =>
               link'[entry[map[s]].link] = link[entry[map[s]].link]
        BY <3>1 DEF OpStep
      <3>3. link[entry[map[s]].link].state = "closed" =>
               link'[entry[map[s]].link].state = "closed"
        BY <3>1 DEF OpStep, LinksFor, LinkAlike
      <3>4. StillBack(map[s])
        BY <3>1, <3>2, <3>3 DEF StillBack, OpStep, Connected
      <3> QED BY <3>4, WatchedKept DEF CalmInv, OpStep
    <2> QED BY <2>1, <2>2
  <1> QED BY <1>1, <1>2, <1>3

\* What Alone and Flushed say of one operation.
OpFine(i, s) ==
    /\ Attaching(i, s) =>
          /\ map[s] = None /\ boot[s] = Pure /\ ~stopped
          /\ op[i].kind = "existing" => op[i].cse = disk[s].cse /\ op[i].cse # None
          /\ op[i].kind # "existing" /\ op[i].phase = "auth" => op[i].cse = None
    /\ Flushing(i, s) => boot[s] = Pure /\ ~stopped

FlushFine(i, s) ==
    /\ op[i].session = s /\ op[i].phase = "history" =>
          /\ disk[s].cse \in {None, link[op[i].link].cse}
          /\ link[op[i].link].state = "closed" => disk[s].cse = None
    /\ op[i].session = s /\ op[i].phase = "mark" =>
          disk[s].cse = None \/ disk[s].cse \in flushed

\* No operation of the session but i is under way.
Solo(i, s) == \A j \in Attaches : j # i /\ op[j].session = s => op[j].phase = "none"

LEMMA SoloOp ==
    ASSUME NEW i \in Attaches, op[i].phase # "none", NEW s, s = op[i].session, Safe(s)
    PROVE  Solo(i, s) /\ OpFine(i, s) /\ FlushFine(i, s)
  BY DEF Safe, Alone, Flushed, Solo, OpFine, FlushFine

LEMMA OpAlone ==
    ASSUME NEW s \in Sessions, NEW i \in Attaches, Alone(s), Solo(i, s),
           \A j \in Attaches : j # i => op'[j] = op[j],
           UNCHANGED <<stopped, map, entry, rec>>, OpFine(i, s)',
           boot'[s] # Pure => map[s] = None /\ disk'[s] = boot'[s] /\ ~stopped
    PROVE  Alone(s)'
  <1>1. \A j \in Attaches : j # i /\ op'[j].session = s => op'[j].phase = "none"
    BY DEF Solo
  <1>2. (\A j, k \in Attaches : op[j].session = s /\ op[j].phase # "none"
          /\ op[k].session = s /\ op[k].phase # "none" => j = k)'
    BY <1>1
  <1>3. \A j \in Attaches : Attaching(j, s)' \/ Flushing(j, s)' => j = i
    BY <1>1 DEF Attaching, Flushing
  <1>4. (\A j \in Attaches : Attaching(j, s) =>
          /\ map[s] = None /\ boot[s] = Pure /\ ~stopped
          /\ op[j].kind = "existing" => op[j].cse = disk[s].cse /\ op[j].cse # None
          /\ op[j].kind # "existing" /\ op[j].phase = "auth" => op[j].cse = None)'
    BY <1>3 DEF OpFine
  <1>5. (\A j \in Attaches : Flushing(j, s) => boot[s] = Pure /\ ~stopped)'
    BY <1>3 DEF OpFine
  <1>6. (\A j \in Attaches : Recovering(j, s) => map[s] = j)'
    BY DEF Alone, Recovering
  <1>7. (\A j \in Attaches : entry[j].session = s /\ (entry[j].refresh \/ entry[j].backoff) =>
          map[s] = j)'
    BY DEF Alone
  <1> QED BY <1>2, <1>4, <1>5, <1>6, <1>7 DEF Alone

LEMMA OpFlushed ==
    ASSUME NEW s \in Sessions, NEW i \in Attaches, Solo(i, s),
           \A j \in Attaches : j # i => op'[j] = op[j], FlushFine(i, s)',
           disk'[s].backfilled => disk'[s].cse \in flushed'
    PROVE  Flushed(s)'
  <1>1. \A j \in Attaches : j # i /\ op'[j].session = s => op'[j].phase = "none"
    BY DEF Solo
  <1> QED BY <1>1 DEF Flushed, FlushFine

LEMMA OpSettles ==
    ASSUME CalmInv, NEW s \in Sessions, NEW i \in Attaches, OpStep(s, i),
           ~raced'[s] => /\ Safe(s) /\ Solo(i, s) /\ OpFine(i, s)' /\ FlushFine(i, s)'
                         /\ disk'[s].cse = disk[s].cse
                         /\ boot'[s] # Pure => map[s] = None /\ disk'[s] = boot'[s] /\ ~stopped
                         /\ disk'[s].backfilled => disk'[s].cse \in flushed'
    PROVE  Settles(s)
  <1>i. TypeInv
    BY DEF CalmInv
  <1>1. /\ \A r \in Sessions : r # s => Untouched(r)
        /\ Watched(s)' /\ EntriesAlike(s) /\ LinksAlike(s)
    BY OpStepDoes
  <1>2. ASSUME ~raced'[s] PROVE Safe(s)'
    <2>1. Alone(s)'
      BY <1>2, OpAlone DEF Safe, OpStep
    <2>2. Mirrored(s)'
      BY <1>1, <1>2, <1>i, MirroredKept DEF Safe, OpStep
    <2>3. Flushed(s)'
      BY <1>2, OpFlushed DEF OpStep
    <2> QED BY <2>1, <2>2, <2>3 DEF Safe
  <1> QED BY <1>1, <1>2 DEF Settles, OpStep

\* What begins an attach, as the operation it is.
LEMMA BeginSettles ==
    ASSUME CalmInv, NEW s \in Sessions, NEW kind \in {"fresh", "upgrade", "existing"},
           NEW from \in Worker, Begin(s, kind, from),
           \A r \in Sessions : r # s => boot'[r] = boot[r] /\ raced'[r] = raced[r],
           ~raced'[s] =>
              /\ Safe(s) /\ boot'[s] = Pure
              /\ \A j \in Attaches : op[j].session = s => op[j].phase = "none"
              /\ kind = "existing" => from.cse = disk[s].cse /\ from.cse # None
              /\ kind # "existing" => from.cse = None
    PROVE  Settles(s)
  <1>i. TypeInv
    BY DEF CalmInv
  <1>0. /\ ~stopped /\ opened < MaxAttaches /\ opened' = opened + 1
        /\ op' = IF map[s] # None /\ kind # "upgrade" THEN op
                 ELSE [op EXCEPT ![opened'] =
                    [phase   |-> IF map[s] = None THEN "auth" ELSE "history",
                     session |-> s, kind |-> kind, cse |-> from.cse,
                     link    |-> IF map[s] = None THEN None ELSE entry[map[s]].link,
                     seq     |-> from.seq]]
        /\ UNCHANGED <<stopped, map, entry, rec, link, bridge, disk, flushed>>
    BY DEF Begin, cloudVars
  <1>1. op \in [Attaches -> Operation] /\ opened \in 0 .. MaxAttaches /\ MaxAttaches \in Nat
    BY <1>i, Constants DEF TypeInv, TypeOK
  <1>o. opened + 1 \in Attaches /\ ~(opened + 1 <= opened)
    BY <1>0, <1>1 DEF Attaches
  <1> PICK n \in Attaches : n = opened + 1
    BY <1>o
  <1>2. op[n].phase = "none"
    BY <1>o, <1>i DEF TypeInv, Held, OpHeld
  <1> PICK o : o = [phase   |-> IF map[s] = None THEN "auth" ELSE "history",
                    session |-> s, kind |-> kind, cse |-> from.cse,
                    link    |-> IF map[s] = None THEN None ELSE entry[map[s]].link,
                    seq     |-> from.seq]
    OBVIOUS
  <1>3. /\ o.session = s /\ o.kind = kind /\ o.cse = from.cse
        /\ o.phase = IF map[s] = None THEN "auth" ELSE "history"
        /\ o.link = IF map[s] = None THEN None ELSE entry[map[s]].link
    OBVIOUS
  <1>p. op' = op \/ (op' = [op EXCEPT ![n] = o] /\ (map[s] # None => kind = "upgrade"))
    BY <1>0
  <1>4. /\ \A j \in Attaches : j # n => op'[j] = op[j]
        /\ op'[n] = op[n] \/ (op'[n] = o /\ (map[s] # None => kind = "upgrade"))
    BY <1>p, <1>1
  <1>5. OpStep(s, n)
    <2>1. LinksFor(s)
      BY <1>0 DEF LinksFor, LinkAlike
    <2> QED BY <2>1, <1>0, <1>2, <1>3, <1>4 DEF OpStep
  <1>6. ASSUME ~raced'[s]
        PROVE  /\ Safe(s) /\ Solo(n, s) /\ OpFine(n, s)' /\ FlushFine(n, s)'
               /\ disk'[s].cse = disk[s].cse
               /\ boot'[s] # Pure => map[s] = None /\ disk'[s] = boot'[s] /\ ~stopped
               /\ disk'[s].backfilled => disk'[s].cse \in flushed'
    <2>1. Solo(n, s)
      BY <1>6 DEF Solo
    <2>2. OpFine(n, s)'
      <3>1. CASE op'[n] = op[n]
        BY <3>1, <1>2 DEF OpFine, Attaching, Flushing
      <3>2. CASE op'[n] = o /\ (map[s] # None => kind = "upgrade")
        BY <3>2, <1>0, <1>3, <1>6 DEF OpFine, Attaching, Flushing
      <3> QED BY <3>1, <3>2, <1>4
    <2>3. FlushFine(n, s)'
      <3>1. CASE op'[n] = op[n]
        BY <3>1, <1>2 DEF FlushFine
      <3>2. CASE op'[n] = o
        <4>1. map[s] # None => /\ link[entry[map[s]].link].state \in {"up", "dead"}
                               /\ disk[s].cse = link[entry[map[s]].link].cse
          BY <1>6 DEF Safe, Mirrored
        <4> QED BY <4>1, <3>2, <1>0, <1>3 DEF FlushFine
      <3> QED BY <3>1, <3>2, <1>4
    <2>4. disk'[s].backfilled => disk'[s].cse \in flushed'
      BY <1>0, <1>6 DEF Safe, Flushed
    <2> QED BY <2>1, <2>2, <2>3, <2>4, <1>0, <1>6
  <1> QED BY <1>5, <1>6, OpSettles

LEMMA AttachSettles ==
    ASSUME CalmInv, NEW s \in Sessions, NEW kind \in {"fresh", "upgrade"}, Attach(s, kind)
    PROVE  Settles(s)
  <1>i. TypeInv
    BY DEF CalmInv
  <1>0. /\ Begin(s, kind, Pure) /\ raced' = [raced EXCEPT ![s] = @ \/ Busy(s)] /\ boot' = boot
    BY DEF Attach, Overlap
  <1>1. /\ ~raced'[s] => ~raced[s] /\ Idle(s)
        /\ \A r \in Sessions : r # s => raced'[r] = raced[r]
    BY <1>0, <1>i, BusyOrIdle DEF TypeInv, TypeOK
  <1>2. Pure \in Worker /\ Pure.cse = None
    BY Blanks DEF Pure
  <1>3. ~raced'[s] => /\ Safe(s) /\ boot'[s] = Pure
                      /\ \A j \in Attaches : op[j].session = s => op[j].phase = "none"
    BY <1>0, <1>1 DEF CalmInv, Idle
  <1> QED BY <1>0, <1>1, <1>2, <1>3, BeginSettles

LEMMA BootAttachSettles ==
    ASSUME CalmInv, NEW s \in Sessions, BootAttach(s)
    PROVE  Settles(s)
  <1>i. TypeInv
    BY DEF CalmInv
  <1>0. /\ boot[s] # Pure /\ boot' = [boot EXCEPT ![s] = Pure]
        /\ Begin(s, "existing", boot[s]) /\ raced' = raced
    BY DEF BootAttach
  <1>1. /\ boot[s] \in Worker /\ boot'[s] = Pure /\ \A r \in Sessions : r # s => boot'[r] = boot[r]
    BY <1>0, <1>i DEF TypeInv, TypeOK
  <1>2. boot[s].cse # None
    BY <1>0 DEF CalmInv, Stamps, Stamped
  <1>3. ASSUME ~raced'[s]
        PROVE  /\ Safe(s) /\ \A j \in Attaches : op[j].session = s => op[j].phase = "none"
               /\ boot[s] = disk[s]
    <2>1. Safe(s)
      BY <1>0, <1>3 DEF CalmInv
    <2>2. \A j \in Attaches : ~Attaching(j, s) /\ ~Flushing(j, s)
      BY <2>1, <1>0 DEF Safe, Alone
    <2>3. \A j \in Attaches : op[j].phase \in Phases
      BY <1>i, Fields DEF TypeInv
    <2> QED BY <2>1, <2>2, <2>3, <1>0 DEF Safe, Alone, Attaching, Flushing, Phases
  <1> QED BY <1>0, <1>1, <1>2, <1>3, BeginSettles

LEMMA AttachOpensSettles ==
    ASSUME CalmInv, NEW i \in Attaches, AttachOpens(i)
    PROVE  op[i].session \in Sessions /\ Settles(op[i].session)
  <1>i. TypeInv
    BY DEF CalmInv
  <1> PICK c : c = IF op[i].cse = None THEN i ELSE op[i].cse
    OBVIOUS
  <1>0. /\ op[i].phase = "auth"
        /\ Opens(op[i].session, c, op[i].seq)
        /\ op' = [op EXCEPT ![i].phase = "connect", ![i].cse = c, ![i].link = links']
        /\ UNCHANGED <<stopped, map, entry, rec, boot, bridge, disk, flushed, raced>>
    BY DEF AttachOpens, Opens, serviceVars, cloudVars
  <1>1. /\ op \in [Attaches -> Operation] /\ op[i] \in Operation
        /\ op[i].session \in Sessions
        /\ c \in Clouds /\ op[i].seq \in 0 .. MaxInbound
    BY <1>0, <1>i, Fields, Constants DEF TypeInv, TypeOK, Held, OpHeld
  <1> PICK s \in Sessions : s = op[i].session
    BY <1>1
  <1>2. /\ links' \in Links /\ link[links'].state = "none" /\ OnlyLink(links')
        /\ link'[links'].state = "connecting"
        /\ link'[links'].session = s
    <2> PICK q \in 0 .. MaxInbound : q = op[i].seq
      BY <1>1
    <2>1. Opens(s, c, q)
      BY <1>0
    <2> QED BY <2>1, <1>1, <1>i, NewLinkIs
  <1> PICK t \in Links : t = links'
    BY <1>2
  <1> PICK o : o = [op[i] EXCEPT !.phase = "connect", !.cse = c, !.link = t]
    OBVIOUS
  <1>4. /\ o.phase = "connect" /\ o.session = s /\ o.cse = c /\ o.kind = op[i].kind
    BY <1>1 DEF Operation
  <1>5. op'[i] = o /\ \A j \in Attaches : j # i => op'[j] = op[j]
    BY <1>0, <1>1
  <1>6. OpStep(s, i)
    <2>1. LinksFor(s) /\ \A u \in Links : link[u].state \in {"up", "dead"} => link'[u] = link[u]
      BY <1>2 DEF LinksFor, LinkAlike, OnlyLink
    <2> QED BY <2>1, <1>0, <1>4, <1>5 DEF OpStep
  <1>7. ASSUME ~raced'[s]
        PROVE  /\ Safe(s) /\ Solo(i, s) /\ OpFine(i, s)' /\ FlushFine(i, s)'
               /\ disk'[s].cse = disk[s].cse
               /\ boot'[s] # Pure => map[s] = None /\ disk'[s] = boot'[s] /\ ~stopped
               /\ disk'[s].backfilled => disk'[s].cse \in flushed'
    <2>1. Safe(s)
      BY <1>0, <1>7 DEF CalmInv
    <2>2. Solo(i, s) /\ OpFine(i, s)
      BY <2>1, <1>0, SoloOp
    <2>3. OpFine(i, s)'
      <3>1. /\ map[s] = None /\ boot[s] = Pure /\ ~stopped
            /\ op[i].kind = "existing" => op[i].cse = disk[s].cse /\ op[i].cse # None
        BY <2>2, <1>0 DEF OpFine, Attaching
      <3>2. op[i].kind = "existing" => c = op[i].cse
        BY <3>1
      <3> QED BY <3>1, <3>2, <1>0, <1>4, <1>5 DEF OpFine, Flushing
    <2>4. FlushFine(i, s)'
      BY <1>4, <1>5 DEF FlushFine
    <2> QED BY <2>1, <2>2, <2>3, <2>4, <1>0 DEF Safe, Flushed, Alone
  <1> QED BY <1>6, <1>7, OpSettles

LEMMA OpEndsSettle ==
    ASSUME CalmInv, NEW i \in Attaches, AttachFails(i) \/ BackfillFails(i)
    PROVE  op[i].session \in Sessions /\ Settles(op[i].session)
  <1>i. TypeInv
    BY DEF CalmInv
  <1>0. /\ op[i].phase \in {"auth", "connect", "history"}
        /\ op' = [op EXCEPT ![i] = NoOp]
        /\ op[i].phase # "connect" => link' = link
        /\ op[i].phase = "connect" => link' = Dropped(op[i].link)
        /\ UNCHANGED <<stopped, map, entry, rec, boot, bridge, disk, flushed, raced>>
    BY DEF AttachFails, BackfillFails, serviceVars, cloudVars
  <1>1. op[i].session \in Sessions /\ op \in [Attaches -> Operation]
    BY <1>0, <1>i DEF TypeInv, TypeOK, Held, OpHeld
  <1> PICK s \in Sessions : s = op[i].session
    BY <1>1
  <1>2. op'[i] = NoOp /\ \A j \in Attaches : j # i => op'[j] = op[j]
    BY <1>0, <1>1
  <1>3. LinksFor(s) /\ \A u \in Links : link[u].state \in {"up", "dead"} => link'[u] = link[u]
    <2>1. CASE op[i].phase # "connect"
      BY <2>1, <1>0 DEF LinksFor, LinkAlike
    <2>2. CASE op[i].phase = "connect"
      <3> PICK t : t = op[i].link
        OBVIOUS
      <3>1. t \in Links /\ Connecting(link[t], s) /\ link' = Dropped(t)
        BY <2>2, <1>0, <1>i DEF TypeInv, Held, OpHeld
      <3>2. /\ \A u \in Links : u # t => link'[u] = link[u]
            /\ link'[t].state \in {"refused", "closed"} /\ link'[t].session = link[t].session
            /\ link'[t].cse = link[t].cse
        BY <3>1, <1>i, DroppedDoes DEF Connecting, OnlyLink
      <3> QED BY <3>1, <3>2 DEF LinksFor, LinkAlike, Connecting
    <2> QED BY <2>1, <2>2
  <1>4. OpStep(s, i)
    BY <1>0, <1>2, <1>3 DEF OpStep, NoOp
  <1>5. ASSUME ~raced'[s]
        PROVE  /\ Safe(s) /\ Solo(i, s) /\ OpFine(i, s)' /\ FlushFine(i, s)'
               /\ disk'[s].cse = disk[s].cse
               /\ boot'[s] # Pure => map[s] = None /\ disk'[s] = boot'[s] /\ ~stopped
               /\ disk'[s].backfilled => disk'[s].cse \in flushed'
    <2>1. Safe(s)
      BY <1>0, <1>5 DEF CalmInv
    <2>2. Solo(i, s)
      BY <2>1, <1>0, SoloOp
    <2>3. OpFine(i, s)' /\ FlushFine(i, s)'
      BY <1>2 DEF OpFine, FlushFine, Attaching, Flushing, NoOp
    <2> QED BY <2>1, <2>2, <2>3, <1>0 DEF Safe, Flushed, Alone
  <1> QED BY <1>4, <1>5, OpSettles


\* The history is flushed, and the worker state marked.
LEMMA BackfillSettles ==
    ASSUME CalmInv, NEW i \in Attaches, Backfill(i)
    PROVE  op[i].session \in Sessions /\ Settles(op[i].session)
  <1>i. TypeInv
    BY DEF CalmInv
  <1>0. /\ op[i].phase = "history"
        /\ link[op[i].link].state \in {"up", "closed"}
        /\ flushed' = IF link[op[i].link].state = "up"
                      THEN flushed \cup {link[op[i].link].cse} ELSE flushed
        /\ op' = [op EXCEPT ![i].phase = "mark"]
        /\ UNCHANGED <<stopped, map, entry, rec, boot, link, bridge, disk, raced>>
    BY DEF Backfill, serviceVars
  <1>1. op[i].session \in Sessions /\ op \in [Attaches -> Operation] /\ op[i] \in Operation
    BY <1>0, <1>i DEF TypeInv, TypeOK, Held, OpHeld
  <1> PICK s \in Sessions : s = op[i].session
    BY <1>1
  <1> PICK o : o = [op[i] EXCEPT !.phase = "mark"]
    OBVIOUS
  <1>2. o.phase = "mark" /\ o.session = s
    BY <1>1 DEF Operation
  <1>3. op'[i] = o /\ \A j \in Attaches : j # i => op'[j] = op[j]
    BY <1>0, <1>1
  <1>4. OpStep(s, i)
    <2>1. LinksFor(s)
      BY <1>0 DEF LinksFor, LinkAlike
    <2> QED BY <2>1, <1>0, <1>2, <1>3 DEF OpStep
  <1>5. ASSUME ~raced'[s]
        PROVE  /\ Safe(s) /\ Solo(i, s) /\ OpFine(i, s)' /\ FlushFine(i, s)'
               /\ disk'[s].cse = disk[s].cse
               /\ boot'[s] # Pure => map[s] = None /\ disk'[s] = boot'[s] /\ ~stopped
               /\ disk'[s].backfilled => disk'[s].cse \in flushed'
    <2>1. Safe(s)
      BY <1>0, <1>5 DEF CalmInv
    <2>2. Solo(i, s) /\ OpFine(i, s) /\ FlushFine(i, s)
      BY <2>1, <1>0, SoloOp
    <2>3. OpFine(i, s)'
      BY <2>2, <1>0, <1>2, <1>3 DEF OpFine, Attaching, Flushing
    <2>4. FlushFine(i, s)'
      <3>1. disk[s].cse = None \/ disk[s].cse \in flushed'
        BY <2>2, <1>0 DEF FlushFine
      <3> QED BY <3>1, <1>0, <1>2, <1>3 DEF FlushFine
    <2> QED BY <2>1, <2>2, <2>3, <2>4, <1>0 DEF Safe, Flushed, Alone
  <1> QED BY <1>4, <1>5, OpSettles

\* The mark, of the worker state that the file holds.
LEMMA MarkedDoes ==
    ASSUME TypeInv, NEW i \in Attaches, MarkBackfilled(i), op[i].session \in Sessions
    PROVE  /\ \A r \in Sessions : r # op[i].session => disk'[r] = disk[r]
           /\ disk'[op[i].session].cse = disk[op[i].session].cse
           /\ disk[op[i].session].cse = None => disk' = disk
  <1> PICK s \in Sessions : s = op[i].session
    OBVIOUS
  <1>1. /\ disk' = IF disk[s].cse = None THEN disk ELSE [disk EXCEPT ![s].backfilled = TRUE]
        /\ disk \in [Sessions -> Worker] /\ disk[s] \in Worker
    BY DEF MarkBackfilled, TypeInv, TypeOK
  <1> PICK w \in Worker : w = disk[s]
    BY <1>1
  <1> PICK x : x = [w EXCEPT !.backfilled = TRUE]
    OBVIOUS
  <1>2. x.cse = w.cse
    BY DEF Worker
  <1> QED BY <1>1, <1>2

LEMMA MarkSettles ==
    ASSUME CalmInv, NEW i \in Attaches, MarkBackfilled(i)
    PROVE  op[i].session \in Sessions /\ Settles(op[i].session)
  <1>i. TypeInv
    BY DEF CalmInv
  <1>0. /\ op[i].phase = "mark"
        /\ op' = [op EXCEPT ![i] = NoOp]
        /\ UNCHANGED <<stopped, map, entry, rec, boot, link, bridge, flushed, raced>>
    BY DEF MarkBackfilled, serviceVars, cloudVars
  <1>1. op[i].session \in Sessions /\ op \in [Attaches -> Operation]
    BY <1>0, <1>i DEF TypeInv, TypeOK, Held, OpHeld
  <1> PICK s \in Sessions : s = op[i].session
    BY <1>1
  <1>2. op'[i] = NoOp /\ \A j \in Attaches : j # i => op'[j] = op[j]
    BY <1>0, <1>1
  <1>3. /\ \A r \in Sessions : r # s => disk'[r] = disk[r]
        /\ disk'[s].cse = disk[s].cse /\ (disk[s].cse = None => disk' = disk)
    BY <1>1, <1>i, MarkedDoes
  <1>4. OpStep(s, i)
    <2>1. LinksFor(s)
      BY <1>0 DEF LinksFor, LinkAlike
    <2> QED BY <2>1, <1>0, <1>2, <1>3 DEF OpStep, NoOp
  <1>5. ASSUME ~raced'[s]
        PROVE  /\ Safe(s) /\ Solo(i, s) /\ OpFine(i, s)' /\ FlushFine(i, s)'
               /\ disk'[s].cse = disk[s].cse
               /\ boot'[s] # Pure => map[s] = None /\ disk'[s] = boot'[s] /\ ~stopped
               /\ disk'[s].backfilled => disk'[s].cse \in flushed'
    <2>1. Safe(s)
      BY <1>0, <1>5 DEF CalmInv
    <2>2. Solo(i, s) /\ OpFine(i, s) /\ FlushFine(i, s)
      BY <2>1, <1>0, SoloOp
    <2>3. OpFine(i, s)' /\ FlushFine(i, s)'
      BY <1>2 DEF OpFine, FlushFine, Attaching, Flushing, NoOp
    <2>4. boot[s] = Pure
      BY <2>2, <1>0 DEF OpFine, Flushing
    <2>5. disk'[s].backfilled => disk'[s].cse \in flushed'
      <3>1. CASE disk[s].cse = None
        BY <3>1, <2>1, <1>0, <1>3 DEF Safe, Flushed
      <3>2. CASE disk[s].cse # None
        BY <3>2, <2>2, <1>0, <1>3 DEF FlushFine
      <3> QED BY <3>1, <3>2
    <2> QED BY <2>1, <2>2, <2>3, <2>4, <2>5, <1>0, <1>3
  <1> QED BY <1>4, <1>5, OpSettles


\* An attach has landed: its session gets the entry, the transport and the
\* worker state.
LEMMA AttachLandsSettles ==
    ASSUME CalmInv, NEW i \in Attaches, AttachLands(i)
    PROVE  op[i].session \in Sessions /\ Settles(op[i].session)
  <1>i. TypeInv
    BY DEF CalmInv
  <1> PICK t : t = op[i].link
    OBVIOUS
  <1>0. /\ op[i].phase = "connect" /\ link[t].state = "connecting"
        /\ link' = [link EXCEPT ![t].state = "up"]
        /\ disk' = Persisted(i)
        /\ UNCHANGED <<stopped, rec, boot, flushed, raced>>
    BY DEF AttachLands, cloudVars
  <1>1. /\ t \in Links /\ link[t].state = "connecting" /\ link[t].session = op[i].session
        /\ op[i].session \in Sessions /\ op[i].cse = link[t].cse
    BY <1>0, <1>i DEF TypeInv, Held, OpHeld, Connecting
  <1> PICK s \in Sessions : s = op[i].session
    BY <1>1
  <1>2. /\ OnlyLink(t) /\ link'[t].state = "up" /\ link'[t].session = s
        /\ link'[t].cse = link[t].cse
    BY <1>0, <1>1, <1>i, UpDoes
  <1>3. Landed(i)
    BY <1>i, LandedDoes
  <1>4. /\ entry'[i].session = s /\ entry'[i].link = t
        /\ \A j \in Attaches : j # i => entry'[j] = entry[j] /\ op'[j] = op[j]
        /\ map'[s] = i /\ \A r \in Sessions : r # s => map'[r] = map[r]
        /\ bridge'[s] = t /\ \A r \in Sessions : r # s => bridge'[r] = bridge[r]
        /\ \/ op'[i].phase = "none"
           \/ op'[i].phase = "history" /\ op'[i].session = s /\ op'[i].link = t
    BY <1>3 DEF Landed, NoOp
  <1>5. entry[i].session = None /\ rec[i].phase = "none"
    <2>1. entry[i].session = None /\ rec[i] = NoRec
      BY <1>0, <1>i DEF TypeInv, Held, EntryHeld
    <2> QED BY <2>1 DEF NoRec
  <1>6. /\ \A r \in Sessions : r # s => disk'[r] = disk[r]
        /\ op[i].kind = "existing" => disk' = disk
        /\ op[i].kind # "existing" => disk'[s].cse = op[i].cse /\ disk'[s].backfilled = FALSE
    BY <1>0, <1>i, PersistedIs
  <1>7. ASSUME NEW r \in Sessions, r # s PROVE Untouched(r)
    <2>1. OpsOf(r)
      BY <1>4, <1>7 DEF OpsOf
    <2>2. EntriesOf(r)
      BY <1>0, <1>4, <1>5, <1>7, Constants DEF EntriesOf
    <2>3. LinksOf(r)
      BY <1>1, <1>2, <1>7 DEF LinksOf, OnlyLink
    <2>4. SlotsOf(r)
      BY <1>0, <1>4, <1>6, <1>7 DEF SlotsOf
    <2> QED BY <2>1, <2>2, <2>3, <2>4 DEF Untouched
  <1>8. ASSUME ~raced'[s] PROVE Safe(s)'
    <2>1. Safe(s)
      BY <1>0, <1>8 DEF CalmInv
    <2>2. Solo(i, s) /\ OpFine(i, s)
      BY <2>1, <1>0, SoloOp
    <2>3. /\ map[s] = None /\ boot[s] = Pure /\ ~stopped
          /\ op[i].kind = "existing" => op[i].cse = disk[s].cse /\ op[i].cse # None
      BY <2>2, <1>0 DEF OpFine, Attaching
    <2>4. \A j \in Attaches : j # i /\ op'[j].session = s => op'[j].phase = "none"
      BY <2>2, <1>4 DEF Solo
    <2>5. \A j \in Attaches : entry'[j].session = s /\ rec'[j].phase # "none" => FALSE
      <3> SUFFICES ASSUME NEW j \in Attaches, entry'[j].session = s, rec'[j].phase # "none"
                   PROVE  FALSE
        OBVIOUS
      <3>1. j # i /\ Recovering(j, s)
        BY <1>0, <1>4, <1>5 DEF Recovering
      <3> QED BY <3>1, <2>1, <2>3, Constants DEF Safe, Alone
    <2>6. Alone(s)'
      <3>1. \A j \in Attaches : ~Attaching(j, s)'
        BY <2>4, <1>4 DEF Attaching
      <3>2. boot'[s] = Pure /\ ~stopped'
        BY <2>3, <1>0
      <3>3. \A j \in Attaches : ~Recovering(j, s)'
        BY <2>5 DEF Recovering
      <3>4. (\A j, k \in Attaches : op[j].session = s /\ op[j].phase # "none"
              /\ op[k].session = s /\ op[k].phase # "none" => j = k)'
        BY <2>4
      <3>5. (\A j \in Attaches : entry[j].session = s /\ (entry[j].refresh \/ entry[j].backoff) =>
              map[s] = j)'
        <4> SUFFICES ASSUME NEW j \in Attaches, entry'[j].session = s,
                            entry'[j].refresh \/ entry'[j].backoff
                     PROVE  j = i
          BY <1>4
        <4> SUFFICES ASSUME j # i PROVE FALSE
          OBVIOUS
        <4>1. entry'[j] = entry[j]
          BY <1>4
        <4> QED BY <4>1, <2>1, <2>3, Constants DEF Safe, Alone
      <3> QED BY <3>1, <3>2, <3>3, <3>4, <3>5 DEF Alone
    <2>7. disk'[s].cse = link'[t].cse
      BY <2>3, <1>1, <1>2, <1>6
    <2>8. Mirrored(s)'
      <3>1. \A u \in Links : link'[u].session = s /\ link'[u].state = "up" => u = t
        BY <2>1, <2>3, <1>2 DEF Safe, Mirrored, OnlyLink
      <3>2. i # None /\ ~stopped'
        BY <2>3, <1>0, Constants
      <3>3. (/\ ~stopped => bridge[s] = IF map[s] = None THEN None ELSE entry[map[s]].link
             /\ stopped => map[s] = None
             /\ stopped /\ bridge[s] # None =>
                   link[bridge[s]].state = "closed" /\ link[bridge[s]].session = s)'
        BY <3>2, <1>4
      <3>4. (\A u \in Links : link[u].session = s /\ link[u].state = "up" =>
               map[s] # None /\ entry[map[s]].link = u)'
        BY <3>1, <3>2, <1>4
      <3>5. (map[s] # None =>
               /\ link[entry[map[s]].link].state \in {"up", "dead"}
               /\ disk[s].cse = link[entry[map[s]].link].cse)'
        BY <2>7, <1>2, <1>4
      <3>6. (\A j \in Attaches : entry[j].session = s /\ rec[j].phase = "reattach" =>
               link[entry[j].link].state # "up")'
        BY <2>5
      <3> QED BY <3>3, <3>4, <3>5, <3>6 DEF Mirrored
    <2>9. Flushed(s)'
      <3>1. disk'[s].backfilled => disk'[s].cse \in flushed'
        BY <2>1, <1>0, <1>6 DEF Safe, Flushed
      <3>2. FlushFine(i, s)'
        BY <2>7, <1>2, <1>4 DEF FlushFine
      <3> QED BY <3>1, <3>2, <2>2, <1>4, OpFlushed
    <2> QED BY <2>6, <2>8, <2>9 DEF Safe
  <1>9. Watched(s)'
    BY <1>2, <1>4 DEF Watched
  <1>10. flushed \subseteq flushed'
    BY <1>0
  <1>11. Settles(s)
    BY <1>7, <1>8, <1>9, <1>10 DEF Settles
  <1> QED BY <1>11


-----------------------------------------------------------------------------
(* A reconnect that succeeds, for its session.                             *)

\* Reconnect i is over, its session's entry armed.
Resumed(i, s) ==
    /\ EntriesFor(entry, entry', s)
    /\ \A j \in Attaches :
          /\ entry'[j].session = entry[j].session
          /\ entry'[j].backoff = entry[j].backoff
          /\ j # map[s] => entry'[j].refresh = entry[j].refresh
          /\ j # i => entry'[j].link = entry[j].link /\ entry'[j].attempt = entry[j].attempt
    /\ rec'[i] = NoRec /\ \A j \in Attaches : j # i => rec'[j] = rec[j]
    /\ \A r \in Sessions : r # s => bridge'[r] = bridge[r] /\ LinksOf(r)
    /\ UNCHANGED <<stopped, map, op, boot, disk, flushed, raced>>

LEMMA ResumedDoes ==
    ASSUME CalmInv, NEW i \in Attaches, NEW s \in Sessions, s = entry[i].session,
           rec[i].phase # "none", Resumed(i, s)
    PROVE  /\ \A r \in Sessions : r # s => Untouched(r)
           /\ ~raced'[s] => /\ Alone(s)' /\ Safe(s) /\ map[s] = i /\ ~stopped
                            /\ \A j \in Attaches : entry'[j].session = s => rec'[j].phase = "none"
  <1>1. ASSUME NEW r \in Sessions, r # s PROVE Untouched(r)
    <2>1. EntriesOf(r)
      BY <1>1 DEF Resumed, EntriesOf, EntriesFor
    <2>2. OpsOf(r) /\ LinksOf(r) /\ SlotsOf(r)
      BY <1>1 DEF Resumed, OpsOf, SlotsOf
    <2> QED BY <2>1, <2>2 DEF Untouched
  <1>2. ASSUME ~raced'[s]
        PROVE  /\ Alone(s)' /\ Safe(s) /\ map[s] = i /\ ~stopped
               /\ \A j \in Attaches : entry'[j].session = s => rec'[j].phase = "none"
    <2>1. Safe(s)
      BY <1>2 DEF CalmInv, Resumed
    <2>2. map[s] = i /\ ~stopped
      <3>1. map[s] = i
        BY <2>1 DEF Safe, Alone, Recovering
      <3> QED BY <3>1, <2>1, Constants DEF Safe, Mirrored
    <2>3. \A j \in Attaches : entry'[j].session = s => rec'[j].phase = "none"
      <3> SUFFICES ASSUME NEW j \in Attaches, entry'[j].session = s, rec'[j].phase # "none"
                   PROVE  FALSE
        OBVIOUS
      <3>1. j # i /\ rec[j].phase # "none" /\ entry[j].session = s
        BY DEF Resumed, NoRec
      <3> QED BY <3>1, <2>1, <2>2 DEF Safe, Alone, Recovering
    <2>4. Alone(s)'
      <3>1. (/\ \A j, k \in Attaches : op[j].session = s /\ op[j].phase # "none"
                   /\ op[k].session = s /\ op[k].phase # "none" => j = k
             /\ \A j \in Attaches : Attaching(j, s) =>
                   /\ map[s] = None /\ boot[s] = Pure /\ ~stopped
                   /\ op[j].kind = "existing" => op[j].cse = disk[s].cse /\ op[j].cse # None
                   /\ op[j].kind # "existing" /\ op[j].phase = "auth" => op[j].cse = None
             /\ \A j \in Attaches : Flushing(j, s) => boot[s] = Pure /\ ~stopped
             /\ boot[s] # Pure => map[s] = None /\ disk[s] = boot[s] /\ ~stopped)'
        BY <2>1 DEF Safe, Alone, Resumed, Attaching, Flushing
      <3>2. \A j \in Attaches : ~Recovering(j, s)'
        BY <2>3 DEF Recovering
      <3>3. (\A j \in Attaches : entry[j].session = s /\ (entry[j].refresh \/ entry[j].backoff) =>
              map[s] = j)'
        BY <2>1 DEF Safe, Alone, Resumed
      <3> QED BY <3>1, <3>2, <3>3 DEF Alone
    <2> QED BY <2>1, <2>2, <2>3, <2>4
  <1> QED BY <1>1, <1>2

LEMMA SwapResumes ==
    ASSUME TypeInv, NEW i \in Attaches, SwapOk(i)
    PROVE  /\ Resumed(i, entry[i].session) /\ entry'[i].link = entry[i].link
           /\ Relinked(entry[i].link) /\ bridge' = bridge
           /\ link'[entry[i].link].state = IF link[entry[i].link].state = "dead" THEN "up"
                                           ELSE link[entry[i].link].state
  <1> PICK t : t = entry[i].link
    OBVIOUS
  <1> PICK s : s = entry[i].session
    OBVIOUS
  <1> PICK e : e = [entry EXCEPT ![i].attempt = 0]
    OBVIOUS
  <1>0. /\ rec[i].phase # "none" /\ Finished(i)
        /\ link' = [link EXCEPT ![t] = Rebuilt(@)]
        /\ entry' = ArmRefresh(e, map, s)
        /\ UNCHANGED <<stopped, map, op, boot, bridge, disk, flushed, raced>>
    BY DEF SwapOk, cloudVars
  <1>1. s \in Sessions /\ t \in Links /\ Connected(link[t], s)
    BY <1>0, RecoveringHeld
  <1>2. /\ Relinked(t)
        /\ link'[t].state = IF link[t].state = "dead" THEN "up" ELSE link[t].state
    BY <1>0, <1>1, RebuiltDoes
  <1>3. /\ Retimed(entry, e) /\ Besides(entry, e, i)
        /\ \A j \in Attaches : /\ e[j].refresh = entry[j].refresh
                               /\ e[j].backoff = entry[j].backoff
    BY <1>1, AttemptsReset, Constants
  <1>4. Armed(e, entry', map[s])
    <2>1. e \in [Attaches -> Entry] /\ map \in [Sessions -> Attaches \cup {None}]
      BY <1>3 DEF TypeInv, TypeOK, Retimed
    <2> QED BY <2>1, <1>0, <1>1, ArmedEntry
  <1>5. \A j \in Attaches :
          /\ entry'[j].session = entry[j].session /\ entry'[j].link = entry[j].link
          /\ entry'[j].backoff = entry[j].backoff
          /\ j # map[s] => entry'[j].refresh = entry[j].refresh
          /\ j # i => entry'[j].attempt = entry[j].attempt
          /\ j # i /\ j # map[s] => entry'[j] = entry[j]
    <2>1. \A j \in Attaches : e[j].session = entry[j].session /\ e[j].link = entry[j].link
      BY <1>3 DEF Retimed
    <2>2. \A j \in Attaches : j # i => e[j] = entry[j]
      BY <1>3 DEF Besides
    <2>3. \A j \in Attaches :
             /\ entry'[j].session = e[j].session /\ entry'[j].link = e[j].link
             /\ entry'[j].backoff = e[j].backoff /\ entry'[j].attempt = e[j].attempt
      BY <1>4 DEF Armed, Retimed
    <2>4. \A j \in Attaches : j # map[s] => entry'[j] = e[j]
      BY <1>4 DEF Armed, Besides
    <2>5. \A j \in Attaches :
            /\ entry'[j].session = entry[j].session /\ entry'[j].link = entry[j].link
            /\ entry'[j].backoff = entry[j].backoff
      BY <2>1, <2>3, <1>3
    <2>6. \A j \in Attaches : j # map[s] => entry'[j].refresh = entry[j].refresh
      BY <2>4, <1>3
    <2>7. \A j \in Attaches : /\ j # i => entry'[j].attempt = entry[j].attempt
                              /\ j # i /\ j # map[s] => entry'[j] = entry[j]
      BY <2>2, <2>3, <2>4
    <2> QED BY <2>5, <2>6, <2>7
  <1>6. EntriesFor(entry, entry', s)
    <2>1. map[s] # None => entry[map[s]].session = s
      BY <1>1, MapHeld
    <2> QED BY <2>1, <1>5, Constants DEF EntriesFor
  <1>7. \A r \in Sessions : r # s => LinksOf(r)
    BY <1>1, <1>2 DEF LinksOf, Relinked, SameLink, Connected
  <1>8. rec'[i] = NoRec /\ \A j \in Attaches : j # i => rec'[j] = rec[j]
    BY <1>0, FinishedDoes
  <1>9. Resumed(i, s)
    BY <1>0, <1>5, <1>6, <1>7, <1>8 DEF Resumed
  <1> QED BY <1>0, <1>2, <1>5, <1>9


\* The entries that a replaced transport changes are of its session.
LEMMA ReattachOnlyFor ==
    ASSUME TypeInv, NEW i \in Attaches, ReattachOk(i)
    PROVE  EntriesFor(entry, entry', entry[i].session)
  <1>1. /\ entry[i].session \in Sessions
        /\ entry \in [Attaches -> Entry] /\ map \in [Sessions -> Attaches \cup {None}]
    BY RecoveringHeld DEF ReattachOk, TypeInv, TypeOK
  <1> PICK s \in Sessions : s = entry[i].session
    BY <1>1
  <1> PICK e : e = [entry EXCEPT ![i].link = rec[i].link, ![i].attempt = 0]
    OBVIOUS
  <1>2. entry' = IF map[s] = None THEN e ELSE [e EXCEPT ![map[s]].refresh = TRUE]
    BY DEF ReattachOk, ArmRefresh
  <1>3. \A j \in Attaches : j # i => e[j] = entry[j]
    BY <1>1
  <1>4. map[s] # None => entry[map[s]].session = s
    BY MapHeld
  <1>5. \A j \in Attaches : j # i /\ j # map[s] => entry'[j] = entry[j]
    BY <1>1, <1>2, <1>3
  <1> QED BY <1>4, <1>5, <1>1, Constants DEF EntriesFor

LEMMA SwapOkSettles ==
    ASSUME CalmInv, NEW i \in Attaches, SwapOk(i)
    PROVE  entry[i].session \in Sessions /\ Settles(entry[i].session)
  <1>i. TypeInv /\ Apart
    BY DEF CalmInv
  <1>0. rec[i].phase # "none"
    BY DEF SwapOk
  <1>1. entry[i].session \in Sessions /\ entry[i].link \in Links
    BY <1>0, <1>i, RecoveringHeld
  <1> PICK s \in Sessions, t \in Links : s = entry[i].session /\ t = entry[i].link
    BY <1>1
  <1>2. /\ Resumed(i, s) /\ entry'[i].link = t /\ Relinked(t) /\ bridge' = bridge
        /\ link'[t].state = IF link[t].state = "dead" THEN "up" ELSE link[t].state
    BY <1>i, SwapResumes
  <1>3. \A u \in Links : /\ u # t => link'[u] = link[u]
                         /\ link'[u].cse = link[u].cse /\ link'[u].session = link[u].session
    BY <1>2, RelinkedSame DEF Relinked, SameLink
  <1>4. /\ \A r \in Sessions : r # s => Untouched(r)
        /\ ~raced'[s] => /\ Alone(s)' /\ Safe(s) /\ map[s] = i /\ ~stopped
                         /\ \A j \in Attaches : entry'[j].session = s => rec'[j].phase = "none"
    BY <1>0, <1>2, ResumedDoes
  <1>5. UNCHANGED <<stopped, map, op, boot, disk, flushed, raced>>
    BY <1>2 DEF Resumed
  <1>6. ASSUME ~raced'[s] PROVE Safe(s)'
    <2>1. Alone(s)' /\ Mirrored(s) /\ Flushed(s) /\ map[s] = i /\ ~stopped /\ i # None
      BY <1>4, <1>6, Constants DEF Safe
    <2>2. Mirrored(s)'
      <3>1. link'[t].state = "up" /\ disk'[s].cse = link'[t].cse
        BY <2>1, <1>2, <1>3, <1>5 DEF Mirrored
      <3>2. \A u \in Links : link'[u].session = s /\ link'[u].state = "up" => u = t
        BY <2>1, <1>3 DEF Mirrored
      <3>3. bridge'[s] = t
        BY <2>1, <1>2 DEF Mirrored
      <3> QED BY <3>1, <3>2, <3>3, <2>1, <1>2, <1>4, <1>5, <1>6 DEF Mirrored
    <2>3. Flushed(s)'
      <3>1. \A j \in Attaches : op[j].phase = "history" => op[j].link \in Links
        BY <1>i DEF TypeInv, Held, OpHeld
      <3>2. \A u \in Links : link'[u].state = "closed" => link[u].state = "closed"
        BY <1>2, <1>3
      <3> QED BY <3>1, <3>2, <2>1, <1>3, <1>5 DEF Flushed
    <2> QED BY <2>1, <2>2, <2>3 DEF Safe
  <1>7. Watched(s)'
    <2>1. CASE map[s] = None
      BY <2>1, <1>5 DEF Watched
    <2>2. CASE map[s] # None
      <3>1. map[s] \in Attaches /\ entry[map[s]].link \in Links
        BY <2>2, <1>i, MapHeld
      <3>2. CASE entry[map[s]].link = t
        <4>1. link'[t].state # "dead"
          BY <1>2
        <4>2. entry'[map[s]].link = t
          BY <3>1, <3>2, <1>2 DEF Resumed
        <4> QED BY <4>1, <4>2, <1>5 DEF Watched
      <3>3. CASE entry[map[s]].link # t
        <4>1. /\ map[s] # i /\ link'[entry[map[s]].link] = link[entry[map[s]].link]
          BY <3>1, <3>3, <1>3
        <4>2. StillBack(map[s])
          BY <4>1, <3>1, <1>2 DEF StillBack, Resumed
        <4> QED BY <4>2, <1>5, WatchedKept DEF CalmInv
      <3> QED BY <3>2, <3>3
    <2> QED BY <2>1, <2>2
  <1>8. flushed \subseteq flushed'
    BY <1>5
  <1>9. Settles(s)
    BY <1>4, <1>6, <1>7, <1>8 DEF Settles
  <1> QED BY <1>9

LEMMA ReattachOkSettles ==
    ASSUME CalmInv, NEW i \in Attaches, ReattachOk(i)
    PROVE  entry[i].session \in Sessions /\ Settles(entry[i].session)
  <1>i. TypeInv /\ Apart
    BY DEF CalmInv
  <1> PICK t : t = rec[i].link
    OBVIOUS
  <1> PICK s : s = entry[i].session
    OBVIOUS
  <1>0. /\ rec[i].phase = "reattach" /\ Finished(i) /\ link[t].state = "connecting"
        /\ link' = [link EXCEPT ![t].state = "up"]
        /\ bridge' = [bridge EXCEPT ![s] = t]
        /\ UNCHANGED <<stopped, map, op, boot, disk, flushed, raced>>
    BY DEF ReattachOk, cloudVars
  <1>1. /\ s \in Sessions /\ t \in Links /\ link[t].state = "connecting" /\ link[t].session = s
        /\ link[t].cse = link[entry[i].link].cse /\ entry[i].link \in Links
    <2>1. entry[i].session \in Sessions /\ entry[i].link \in Links
      BY <1>0, <1>i, RecoveringHeld
    <2>2. /\ rec[i].link \in Links /\ Connecting(link[rec[i].link], entry[i].session)
          /\ link[rec[i].link].cse = link[entry[i].link].cse
      BY <1>0, <1>i DEF TypeInv, Held, RecHeld
    <2> QED BY <2>1, <2>2, <1>0 DEF Connecting
  <1>2. /\ OnlyLink(t) /\ link'[t].state = "up" /\ link'[t].session = s
        /\ link'[t].cse = link[t].cse
    BY <1>0, <1>1, <1>i, UpDoes
  <1>3. Replaced(i)
    BY <1>i, ReplacedDoes
  <1>4. /\ entry'[i].link = t
        /\ bridge'[s] = t /\ \A r \in Sessions : r # s => bridge'[r] = bridge[r]
    BY <1>0, <1>1, <1>3, <1>i DEF Replaced, TypeInv, TypeOK
  <1>5. \A j \in Attaches : /\ entry[j].link # t
                            /\ op[j].phase \in {"history", "mark"} => op[j].link # t
    BY <1>1, <1>i, ConnectingLink
  <1>6. Resumed(i, s)
    <2>1. EntriesFor(entry, entry', s)
      BY <1>i, ReattachOnlyFor
    <2>2. \A j \in Attaches :
            /\ entry'[j].session = entry[j].session
            /\ entry'[j].backoff = entry[j].backoff
            /\ j # map[s] => entry'[j].refresh = entry[j].refresh
            /\ j # i => entry'[j].link = entry[j].link /\ entry'[j].attempt = entry[j].attempt
      BY <1>3 DEF Replaced
    <2>3. rec'[i] = NoRec /\ \A j \in Attaches : j # i => rec'[j] = rec[j]
      BY <1>0, <1>i, FinishedDoes
    <2>4. \A r \in Sessions : r # s => bridge'[r] = bridge[r] /\ LinksOf(r)
      BY <1>1, <1>2, <1>4 DEF LinksOf, OnlyLink
    <2> QED BY <2>1, <2>2, <2>3, <2>4, <1>0 DEF Resumed
  <1>7. /\ \A r \in Sessions : r # s => Untouched(r)
        /\ ~raced'[s] => /\ Alone(s)' /\ Safe(s) /\ map[s] = i /\ ~stopped
                         /\ \A j \in Attaches : entry'[j].session = s => rec'[j].phase = "none"
    BY <1>0, <1>1, <1>6, ResumedDoes
  <1>8. ASSUME ~raced'[s] PROVE Safe(s)'
    <2>1. Alone(s)' /\ Mirrored(s) /\ Flushed(s) /\ map[s] = i /\ ~stopped /\ i # None
      BY <1>7, <1>8, Constants DEF Safe
    <2>2. Mirrored(s)'
      <3>1. disk'[s].cse = link'[t].cse
        BY <2>1, <1>0, <1>1, <1>2 DEF Mirrored
      <3>2. link[entry[i].link].state # "up"
        BY <2>1, <1>0 DEF Mirrored
      <3>3. \A u \in Links : link'[u].session = s /\ link'[u].state = "up" => u = t
        BY <3>2, <2>1, <1>2 DEF Mirrored, OnlyLink
      <3> QED BY <3>1, <3>3, <2>1, <1>0, <1>2, <1>4, <1>7, <1>8 DEF Mirrored
    <2>3. Flushed(s)'
      <3>1. \A j \in Attaches : op[j].phase = "history" =>
               op[j].link \in Links /\ link'[op[j].link] = link[op[j].link]
        BY <1>2, <1>5, <1>i DEF TypeInv, Held, OpHeld, OnlyLink
      <3> QED BY <3>1, <2>1, <1>0 DEF Flushed
    <2> QED BY <2>1, <2>2, <2>3 DEF Safe
  <1>9. Watched(s)'
    <2>1. CASE map[s] = None
      BY <2>1, <1>0 DEF Watched
    <2>2. CASE map[s] = i
      BY <2>2, <1>0, <1>2, <1>4 DEF Watched
    <2>3. CASE map[s] # None /\ map[s] # i
      <3>1. map[s] \in Attaches /\ entry[map[s]].link \in Links
        BY <2>3, <1>1, <1>i, MapHeld
      <3>2. link'[entry[map[s]].link] = link[entry[map[s]].link]
        BY <3>1, <1>2, <1>5 DEF OnlyLink
      <3>3. StillBack(map[s])
        BY <3>1, <3>2, <2>3, <1>6 DEF StillBack, Resumed
      <3> QED BY <3>3, <1>0, <1>1, WatchedKept DEF CalmInv
    <2> QED BY <2>1, <2>2, <2>3
  <1>10. flushed \subseteq flushed'
    BY <1>0
  <1>11. Settles(s)
    BY <1>7, <1>8, <1>9, <1>10 DEF Settles
  <1> QED BY <1>1, <1>11


-----------------------------------------------------------------------------
(* The transports and the disk, on their own.                              *)

\* A transport that dies or takes a message.
LEMMA LinkSettles ==
    ASSUME CalmInv, NEW t \in Links, link[t].state \in {"connecting", "up"}, Relinked(t),
           \/ link'[t].state = link[t].state
           \/ link[t].state = "up" /\ link'[t].state = "dead" /\ link'[t].closes > 0
           \/ link[t].state = "connecting" /\ link'[t].state = "refused",
           UNCHANGED <<stopped, map, entry, op, rec, boot, bridge, disk, flushed, raced>>
    PROVE  link[t].session \in Sessions /\ Settles(link[t].session)
  <1>i. TypeInv
    BY DEF CalmInv
  <1>1. link[t].session \in Sessions
    BY <1>i DEF TypeInv, Held, LinkHeld
  <1> PICK s \in Sessions : s = link[t].session
    BY <1>1
  <1>2. /\ \A u \in Links : u # t => link'[u] = link[u]
        /\ link'[t].session = s /\ link'[t].cse = link[t].cse
    BY DEF Relinked, SameLink
  <1>3. LinksFor(s)
    BY <1>2 DEF LinksFor, LinkAlike
  <1>4. ASSUME NEW r \in Sessions, r # s PROVE Untouched(r)
    BY <1>3, <1>4, <1>i, LinksForDoes DEF Untouched, OpsOf, EntriesOf, SlotsOf
  <1>5. ASSUME ~raced'[s] PROVE Safe(s)'
    <2>1. Safe(s)
      BY <1>5 DEF CalmInv
    <2>2. OpsAlike(s) /\ LinksAlike(s) /\ SlotsOf(s) /\ EntriesAlike(s)
      BY <1>3, <1>i, LinksForDoes DEF OpsAlike, SlotsOf, EntriesAlike, EntryAlike
    <2> QED BY <2>1, <2>2, <1>i, SafeKept
  <1>6. Watched(s)'
    <2>1. CASE map[s] = None
      BY <2>1 DEF Watched
    <2>2. CASE map[s] # None
      <3>1. entry[map[s]].link \in Links
        BY <2>2, <1>i, MapHeld
      <3>2. StillBack(map[s])
        <4> PICK u \in Links : u = entry[map[s]].link
          BY <3>1
        <4>1. u # t => link'[u] = link[u]
          BY <1>2
        <4>2. link'[u].state = "dead" => u # t \/ link'[u].closes > 0
          OBVIOUS
        <4> QED BY <4>1, <4>2 DEF StillBack
      <3> QED BY <3>2, WatchedKept DEF CalmInv
    <2> QED BY <2>1, <2>2
  <1>7. Settles(s)
    BY <1>4, <1>5, <1>6 DEF Settles
  <1> QED BY <1>7

LEMMA LinkStepsSettle ==
    ASSUME CalmInv, NEW t \in Links, Die(t) \/ Refuse(t) \/ Inbound(t)
    PROVE  link[t].session \in Sessions /\ Settles(link[t].session)
  <1>i. TypeInv
    BY DEF CalmInv
  <1>1. CASE Die(t)
    <2>1. /\ link[t].state = "up" /\ link' = Dead(link, t)
          /\ UNCHANGED <<stopped, map, entry, op, rec, boot, bridge, disk, flushed, raced>>
      BY <1>1 DEF Die, serviceVars, waitVars, cloudVars
    <2>2. Relinked(t) /\ link'[t].state = "dead" /\ link'[t].closes = 2
      BY <2>1, <1>i, DeadDoes
    <2> QED BY <2>1, <2>2, LinkSettles
  <1>2. CASE Inbound(t)
    <2>1. UNCHANGED <<stopped, map, entry, op, rec, boot, bridge, disk, flushed, raced>>
      BY <1>2 DEF Inbound, serviceVars, waitVars, cloudVars
    <2>2. /\ Relinked(t) /\ link'[t].state = link[t].state
          /\ link[t].state \in {"connecting", "up"}
      BY <1>2, <1>i, InboundDoes
    <2> QED BY <2>1, <2>2, LinkSettles
  <1>3. CASE Refuse(t)
    <2>1. UNCHANGED <<stopped, map, entry, op, rec, boot, bridge, disk, flushed, raced>>
      BY <1>3 DEF Refuse, serviceVars, waitVars, cloudVars
    <2>2. Relinked(t) /\ link[t].state = "connecting" /\ link'[t].state = "refused"
      BY <1>3, <1>i, RefusedDoes
    <2> QED BY <2>1, <2>2, LinkSettles
  <1> QED BY <1>1, <1>2, <1>3

\* The worker state of s, or its place in the re-attach, is another.
DiskStep(s) ==
    /\ \A r \in Sessions : r # s => disk'[r] = disk[r] /\ boot'[r] = boot[r]
    /\ UNCHANGED <<stopped, map, entry, op, rec, link, bridge, flushed, raced>>

LEMMA DiskSettles ==
    ASSUME CalmInv, NEW s \in Sessions, DiskStep(s),
           Safe(s) => /\ boot'[s] = Pure
                      /\ \/ disk'[s].cse = disk[s].cse /\ disk'[s].backfilled = disk[s].backfilled
                         \/ disk'[s] = Pure /\ boot[s] # Pure
    PROVE  Settles(s)
  <1>i. TypeInv
    BY DEF CalmInv
  <1>1. ASSUME NEW r \in Sessions, r # s PROVE Untouched(r)
    BY <1>1 DEF DiskStep, Untouched, OpsOf, EntriesOf, LinksOf, SlotsOf
  <1>2. ASSUME ~raced'[s] PROVE Safe(s)'
    <2>1. Safe(s)
      BY <1>2 DEF CalmInv, DiskStep
    <2>2. /\ OpsAlike(s) /\ LinksAlike(s) /\ EntriesAlike(s)
      BY DEF DiskStep, OpsAlike, LinksAlike, LinkAlike, EntriesAlike, EntryAlike
    <2>3. boot'[s] = Pure
      BY <2>1
    <2>4. CASE disk'[s].cse = disk[s].cse /\ disk'[s].backfilled = disk[s].backfilled
      <3>1. Mirrored(s)'
        BY <2>1, <2>2, <2>4, <1>i, MirroredKept DEF Safe, DiskStep
      <3>2. Flushed(s)'
        BY <2>1, <2>2, <2>4, <1>i, FlushedKept DEF Safe, DiskStep
      <3>3. Alone(s)'
        BY <2>1, <2>3, <2>4 DEF Safe, Alone, DiskStep, Attaching, Flushing, Recovering
      <3> QED BY <3>1, <3>2, <3>3 DEF Safe
    <2>5. CASE disk'[s] = Pure /\ boot[s] # Pure
      <3>1. /\ map[s] = None /\ \A i \in Attaches : ~Attaching(i, s) /\ ~Flushing(i, s)
        BY <2>1, <2>5 DEF Safe, Alone
      <3>2. Alone(s)'
        <4>1. \A i \in Attaches : ~Attaching(i, s)' /\ ~Flushing(i, s)'
          BY <3>1 DEF DiskStep, Attaching, Flushing
        <4> QED BY <4>1, <2>1, <2>3 DEF Safe, Alone, DiskStep, Recovering
      <3>3. Mirrored(s)'
        BY <3>1, <2>1 DEF Safe, Mirrored, DiskStep
      <3>4. Flushed(s)'
        BY <3>1, <2>5 DEF Flushed, DiskStep, Flushing, Pure
      <3> QED BY <3>2, <3>3, <3>4 DEF Safe
    <2> QED BY <2>1, <2>4, <2>5
  <1>3. Watched(s)'
    BY DEF CalmInv, Watched, Back, DiskStep
  <1>4. flushed \subseteq flushed'
    BY DEF DiskStep
  <1> QED BY <1>1, <1>2, <1>3, <1>4 DEF Settles

LEMMA DiskStepsSettle ==
    ASSUME CalmInv, NEW s \in Sessions, BootGone(s) \/ BootFails(s) \/ Checkpoint(s)
    PROVE  Settles(s)
  <1>i. TypeInv
    BY DEF CalmInv
  <1>1. /\ UNCHANGED <<stopped, map, entry, op, rec, link, bridge, flushed, raced>>
        /\ disk \in [Sessions -> Worker] /\ boot \in [Sessions -> Worker] /\ disk[s] \in Worker
    BY <1>i DEF BootGone, BootFails, Checkpoint, serviceVars, waitVars, cloudVars, TypeInv, TypeOK
  <1>2. CASE BootGone(s)
    <2>1. /\ boot[s] # Pure /\ boot'[s] = Pure /\ disk'[s] = Pure
          /\ \A r \in Sessions : r # s => disk'[r] = disk[r] /\ boot'[r] = boot[r]
      BY <1>1, <1>2 DEF BootGone
    <2> QED BY <2>1, <1>1, DiskSettles DEF DiskStep
  <1>3. CASE BootFails(s)
    <2>1. /\ boot'[s] = Pure /\ disk' = disk
          /\ \A r \in Sessions : r # s => boot'[r] = boot[r]
      BY <1>1, <1>3 DEF BootFails
    <2> QED BY <2>1, <1>1, DiskSettles DEF DiskStep
  <1>4. CASE Checkpoint(s)
    <2>1. boot' = boot /\ bridge[s] # None /\ disk' = [disk EXCEPT ![s].seq = link[bridge[s]].seq]
      BY <1>4 DEF Checkpoint, waitVars
    <2>2. /\ disk'[s].cse = disk[s].cse /\ disk'[s].backfilled = disk[s].backfilled
          /\ \A r \in Sessions : r # s => disk'[r] = disk[r]
      <3> PICK w \in Worker : w = disk[s]
        BY <1>1
      <3> PICK x : x = [w EXCEPT !.seq = link[bridge[s]].seq]
        OBVIOUS
      <3>1. x.cse = w.cse /\ x.backfilled = w.backfilled
        BY DEF Worker
      <3> QED BY <3>1, <2>1, <1>1
    <2>3. Safe(s) => boot[s] = Pure
      BY <2>1 DEF Safe, Alone, Mirrored
    <2> QED BY <2>1, <2>2, <2>3, <1>1, DiskSettles DEF DiskStep
  <1> QED BY <1>2, <1>3, <1>4


-----------------------------------------------------------------------------
(* The steps that are about every session.                                 *)

Settled == \A r \in Sessions : Watched(r) /\ (~raced[r] => Safe(r))

LEMMA DeleteSettles ==
    ASSUME CalmInv, NEW c \in Clouds, DeleteCloud(c)
    PROVE  Settled'
  <1>i. TypeInv
    BY DEF CalmInv
  <1>0. UNCHANGED <<stopped, map, entry, op, rec, boot, bridge, disk, flushed, raced>>
    BY DEF DeleteCloud, serviceVars, waitVars
  <1>1. \A t \in Links : \/ link'[t] = link[t]
                         \/ /\ link[t].state = "up" /\ link'[t].state = "dead"
                            /\ link'[t].closes = 2 /\ link'[t].session = link[t].session
                            /\ link'[t].cse = link[t].cse
    BY <1>i, DeletedDoes DEF SameLink
  <1> SUFFICES ASSUME NEW r \in Sessions PROVE Watched(r)' /\ (~raced'[r] => Safe(r)')
    BY DEF Settled
  <1>2. ASSUME ~raced'[r] PROVE Safe(r)'
    <2>1. Safe(r)
      BY <1>0, <1>2 DEF CalmInv
    <2>2. OpsAlike(r) /\ EntriesAlike(r) /\ SlotsOf(r)
      BY <1>0 DEF OpsAlike, EntriesAlike, EntryAlike, SlotsOf
    <2>3. LinksAlike(r)
      BY <1>1 DEF LinksAlike, LinkAlike
    <2> QED BY <2>1, <2>2, <2>3, <1>0, <1>i, SafeKept
  <1>3. Watched(r)'
    <2>1. CASE map[r] = None
      BY <2>1, <1>0 DEF Watched
    <2>2. CASE map[r] # None
      <3>1. entry[map[r]].link \in Links
        BY <2>2, <1>i, MapHeld
      <3>2. StillBack(map[r])
        BY <3>1, <1>0, <1>1 DEF StillBack
      <3> QED BY <3>2, <1>0, WatchedKept DEF CalmInv
    <2> QED BY <2>1, <2>2
  <1> QED BY <1>2, <1>3

LEMMA ShutdownSettles ==
    ASSUME CalmInv, Shutdown
    PROVE  Settled'
  <1>i. TypeInv
    BY DEF CalmInv
  <1>0. /\ ~stopped /\ stopped' = TRUE
        /\ link' = [t \in Links |->
                  IF \E s \in Sessions : map[s] # None /\ entry[map[s]].link = t
                  THEN [link[t] EXCEPT !.state = "closed"] ELSE link[t]]
        /\ entry' = [i \in Attaches |->
                  [entry[i] EXCEPT !.refresh = FALSE, !.backoff = FALSE]]
        /\ map' = [s \in Sessions |-> None]
        /\ raced' = [s \in Sessions |-> raced[s] \/ Busy(s)]
        /\ UNCHANGED <<op, rec, boot, bridge, disk, flushed>>
    BY DEF Shutdown, waitVars, cloudVars
  <1>1. link \in [Links -> Transport] /\ entry \in [Attaches -> Entry]
    BY <1>i DEF TypeInv, TypeOK
  <1>2. \A i \in Attaches : /\ entry'[i].session = entry[i].session
                            /\ ~entry'[i].refresh /\ ~entry'[i].backoff
    BY <1>0, <1>1 DEF Entry
  <1>3. ASSUME NEW t \in Links
        PROVE  /\ link'[t].session = link[t].session
               /\ link'[t].state \in {link[t].state, "closed"}
               /\ (\E s \in Sessions : map[s] # None /\ entry[map[s]].link = t) =>
                     link'[t].state = "closed"
    <2> PICK l \in Transport : l = link[t]
      BY <1>1
    <2> PICK m : m = [l EXCEPT !.state = "closed"]
      OBVIOUS
    <2>1. m.session = l.session /\ m.state = "closed"
      BY DEF Transport
    <2>2. link'[t] = IF \E s \in Sessions : map[s] # None /\ entry[map[s]].link = t
                     THEN m ELSE l
      BY <1>0
    <2> QED BY <2>1, <2>2
  <1> SUFFICES ASSUME NEW r \in Sessions PROVE Watched(r)' /\ (~raced'[r] => Safe(r)')
    BY DEF Settled
  <1>4. ASSUME ~raced'[r] PROVE Safe(r)'
    <2>1. ~raced[r] /\ Idle(r)
      BY <1>0, <1>4 DEF Busy, Idle
    <2>2. Safe(r)
      BY <2>1 DEF CalmInv
    <2>3. /\ \A i \in Attaches : op'[i].session = r => op'[i].phase = "none"
          /\ \A i \in Attaches : entry'[i].session = r => rec'[i].phase = "none"
          /\ boot'[r] = Pure /\ stopped' /\ map'[r] = None
      BY <2>1, <1>0, <1>2 DEF Idle
    <2>4. Alone(r)'
      BY <2>3, <1>2 DEF Alone, Attaching, Flushing, Recovering
    <2>5. Mirrored(r)'
      <3>1. bridge[r] # None => map[r] # None /\ bridge[r] = entry[map[r]].link
        BY <2>2, <1>0 DEF Safe, Mirrored
      <3>2. bridge'[r] # None =>
               link'[bridge'[r]].state = "closed" /\ link'[bridge'[r]].session = r
        <4> HAVE bridge'[r] # None
        <4>1. map[r] # None /\ bridge'[r] = entry[map[r]].link
          BY <3>1, <1>0
        <4>2. entry[map[r]].link \in Links /\ link[entry[map[r]].link].session = r
          BY <4>1, <1>i, MapHeld
        <4> QED BY <4>1, <4>2, <1>3
      <3>3. \A t \in Links : ~(link'[t].session = r /\ link'[t].state = "up")
        <4> SUFFICES ASSUME NEW t \in Links, link'[t].session = r, link'[t].state = "up"
                     PROVE  FALSE
          OBVIOUS
        <4>1. link[t].session = r /\ link[t].state = "up"
          BY <1>3
        <4>2. map[r] # None /\ entry[map[r]].link = t
          BY <4>1, <2>2 DEF Safe, Mirrored
        <4> QED BY <4>2, <1>3
      <3> QED BY <2>3, <3>2, <3>3 DEF Mirrored
    <2>6. Flushed(r)'
      BY <2>2, <2>3, <1>0 DEF Safe, Flushed
    <2> QED BY <2>4, <2>5, <2>6 DEF Safe
  <1>5. Watched(r)'
    BY <1>0 DEF Watched
  <1> QED BY <1>4, <1>5

LEMMA RestartSettles ==
    ASSUME CalmInv, Restart
    PROVE  Settled'
  <1>0. /\ stopped' = FALSE
        /\ map' = [s \in Sessions |-> None]
        /\ entry' = [i \in Attaches |-> NoEntry]
        /\ op' = [i \in Attaches |-> NoOp]
        /\ rec' = [i \in Attaches |-> NoRec]
        /\ boot' = disk
        /\ link' = [t \in Links |-> NoLink]
        /\ bridge' = [s \in Sessions |-> None]
        /\ UNCHANGED <<disk, flushed, raced>>
    BY DEF Restart, cloudVars
  <1>1. /\ \A i \in Attaches : /\ op'[i].phase = "none" /\ rec'[i].phase = "none"
                               /\ ~entry'[i].refresh /\ ~entry'[i].backoff
        /\ \A t \in Links : link'[t].state = "none"
    BY <1>0 DEF NoOp, NoRec, NoEntry, NoLink
  <1> SUFFICES ASSUME NEW r \in Sessions PROVE Watched(r)' /\ (~raced'[r] => Safe(r)')
    BY DEF Settled
  <1>2. map'[r] = None /\ bridge'[r] = None /\ ~stopped' /\ boot'[r] = disk'[r]
    BY <1>0
  <1>3. Alone(r)'
    BY <1>1, <1>2 DEF Alone, Attaching, Flushing, Recovering
  <1>4. Mirrored(r)'
    BY <1>1, <1>2 DEF Mirrored
  <1>5. ~raced'[r] => Flushed(r)'
    BY <1>0, <1>1 DEF CalmInv, Safe, Flushed
  <1>6. Watched(r)'
    BY <1>2 DEF Watched
  <1> QED BY <1>3, <1>4, <1>5, <1>6 DEF Safe


-----------------------------------------------------------------------------
(* A transport that is up is silent, and a worker state is blank or names  *)
(* a cloud session.                                                        *)

SilentLink(t) ==
    \/ link'[t] = link[t]
    \/ link'[t].state \notin {"connecting", "up"}
    \/ link'[t].closes = 0

LEMMA SilentKept ==
    ASSUME Silent, \A t \in Links : SilentLink(t) PROVE Silent'
  BY DEF Silent, SilentLink

LEMMA ShutSilent ==
    ASSUME TypeInv, NEW t \in Links, link' = Shut(t) PROVE \A u \in Links : SilentLink(u)
  BY ShutDoes DEF SilentLink

LEMMA DroppedSilent ==
    ASSUME TypeInv, NEW t \in Links, link' = Dropped(t) PROVE \A u \in Links : SilentLink(u)
  <1>1. CASE link' = link
    BY <1>1 DEF SilentLink
  <1>2. CASE link' # link
    BY <1>2, ShutSilent DEF Dropped
  <1> QED BY <1>1, <1>2

LEMMA DetachSilent ==
    ASSUME TypeInv, NEW s \in Sessions, map[s] # None, Detach(s)
    PROVE  \A u \in Links : SilentLink(u)
  BY MapHeld, ShutSilent DEF Detach

LEMMA OpSilent ==
    ASSUME TypeInv, Silent, NEW i \in Attaches,
           \/ AttachOpens(i) \/ AttachFails(i) \/ AttachLands(i)
           \/ Backfill(i) \/ MarkBackfilled(i) \/ BackfillFails(i)
    PROVE  Silent'
  <1>1. CASE AttachOpens(i)
    <2> PICK c : c = IF op[i].cse = None THEN i ELSE op[i].cse
      OBVIOUS
    <2> PICK q : q = op[i].seq
      OBVIOUS
    <2>1. op[i].phase = "auth" /\ Opens(op[i].session, c, q)
      BY <1>1 DEF AttachOpens, Opens
    <2>2. op[i].session \in Sessions /\ c \in Clouds /\ q \in 0 .. MaxInbound
      BY <2>1, Fields, Constants DEF TypeInv, Held, OpHeld
    <2>3. OnlyLink(links') /\ link'[links'].closes = 0
      BY <2>1, <2>2, NewLinkIs
    <2> QED BY <2>3, SilentKept DEF SilentLink, OnlyLink
  <1>2. CASE AttachFails(i)
    <2>1. CASE op[i].phase = "auth"
      BY <1>2, <2>1, SilentKept DEF AttachFails, SilentLink
    <2>2. CASE op[i].phase # "auth"
      <3>1. op[i].phase = "connect" /\ link' = Dropped(op[i].link) /\ op[i].link \in Links
        BY <1>2, <2>2 DEF AttachFails, TypeInv, Held, OpHeld
      <3> QED BY <3>1, DroppedSilent, SilentKept
    <2> QED BY <2>1, <2>2
  <1>3. CASE AttachLands(i)
    <2> PICK t : t = op[i].link
      OBVIOUS
    <2>1. t \in Links /\ link[t].state = "connecting" /\ link' = [link EXCEPT ![t].state = "up"]
      BY <1>3 DEF AttachLands, TypeInv, Held, OpHeld, Connecting
    <2>2. OnlyLink(t) /\ link'[t].closes = link[t].closes
      BY <2>1, UpDoes
    <2>3. link[t].closes = 0
      BY <2>1 DEF Silent
    <2> QED BY <2>2, <2>3, SilentKept DEF SilentLink, OnlyLink
  <1>4. CASE Backfill(i) \/ MarkBackfilled(i) \/ BackfillFails(i)
    <2>1. link' = link
      BY <1>4 DEF Backfill, MarkBackfilled, BackfillFails
    <2> QED BY <2>1, SilentKept DEF SilentLink
  <1> QED BY <1>1, <1>2, <1>3, <1>4

LEMMA RecSilent ==
    ASSUME TypeInv, Silent, NEW i \in Attaches,
           RefreshDue(i) \/ RetryDue(i) \/ Probed(i) \/ Swapped(i) \/ Reattached(i)
    PROVE  Silent'
  <1>1. CASE RefreshDue(i) \/ RetryDue(i) \/ ProbeFails(i) \/ SwapFails(i)
    <2>1. link' = link
      BY <1>1 DEF RefreshDue, RetryDue, ProbeFails, SwapFails
    <2> QED BY <2>1, SilentKept DEF SilentLink
  <1>2. CASE ProbeGone(i)
    <2>1. entry[i].session \in Sessions
      BY <1>2, RecoveringHeld DEF ProbeGone
    <2>2. CASE map[entry[i].session] = None
      BY <1>2, <2>2, SilentKept DEF ProbeGone, SilentLink
    <2>3. CASE map[entry[i].session] # None
      BY <1>2, <2>1, <2>3, DetachSilent, SilentKept DEF ProbeGone
    <2> QED BY <2>2, <2>3
  <1>3. CASE ProbeOk(i)
    <2>1. CASE link[entry[i].link].state = "up"
      BY <1>3, <2>1, SilentKept DEF ProbeOk, SilentLink
    <2>2. CASE link[entry[i].link].state # "up"
      <3> PICK c : c = link[entry[i].link].cse
        OBVIOUS
      <3> PICK q : q = ResumeFrom(i)
        OBVIOUS
      <3>1. rec[i].phase = "probe" /\ Opens(entry[i].session, c, q)
        BY <1>3, <2>2 DEF ProbeOk, Opens
      <3>2. entry[i].session \in Sessions /\ entry[i].link \in Links
            /\ Connected(link[entry[i].link], entry[i].session)
        BY <3>1, RecoveringHeld
      <3>3. c # None
        BY <3>2 DEF TypeInv, Held, LinkHeld, Connected
      <3>4. c \in Clouds /\ q \in 0 .. MaxInbound
        BY <3>2, <3>3, Fields DEF TypeInv, ResumeFrom
      <3>5. OnlyLink(links') /\ link'[links'].closes = 0
        BY <3>1, <3>2, <3>4, NewLinkIs
      <3> QED BY <3>5, SilentKept DEF SilentLink, OnlyLink
    <2> QED BY <2>1, <2>2
  <1>4. CASE SwapOk(i)
    <2> PICK t : t = entry[i].link
      OBVIOUS
    <2>1. t \in Links /\ link' = [link EXCEPT ![t] = Rebuilt(@)]
      BY <1>4, RecoveringHeld DEF SwapOk
    <2>2. Relinked(t) /\ (link'[t] = link[t] \/ link'[t].closes = 0)
      BY <2>1, RebuiltDoes
    <2> QED BY <2>2, SilentKept DEF SilentLink, Relinked
  <1>5. CASE ReattachOk(i)
    <2> PICK t : t = rec[i].link
      OBVIOUS
    <2>1. t \in Links /\ link[t].state = "connecting" /\ link' = [link EXCEPT ![t].state = "up"]
      BY <1>5 DEF ReattachOk, TypeInv, Held, RecHeld, Connecting
    <2>2. OnlyLink(t) /\ link'[t].closes = link[t].closes
      BY <2>1, UpDoes
    <2>3. link[t].closes = 0
      BY <2>1 DEF Silent
    <2> QED BY <2>2, <2>3, SilentKept DEF SilentLink, OnlyLink
  <1>6. CASE ReattachFails(i)
    <2>1. rec[i].link \in Links /\ link' = Dropped(rec[i].link)
      BY <1>6 DEF ReattachFails, TypeInv, Held, RecHeld
    <2> QED BY <2>1, DroppedSilent, SilentKept
  <1> QED BY <1>1, <1>2, <1>3, <1>4, <1>5, <1>6 DEF Probed, Swapped, Reattached

LEMMA LinksSilent ==
    ASSUME TypeInv, Silent, NEW t \in Links,
           Die(t) \/ Refuse(t) \/ CloseFires(t) \/ CleanClose(t) \/ Inbound(t)
    PROVE  Silent'
  <1>1. CASE Die(t)
    <2>1. Relinked(t) /\ link'[t].state = "dead"
      BY <1>1, DeadDoes DEF Die
    <2> QED BY <2>1, SilentKept DEF SilentLink, Relinked
  <1>2. CASE CloseFires(t) \/ CleanClose(t)
    <2>1. link[t].closes > 0 /\ link' = [link EXCEPT ![t].closes = @ - 1]
      BY <1>2 DEF CloseFires, CleanClose
    <2>2. Relinked(t) /\ link'[t].state = link[t].state
      BY <2>1, ClosesDoes
    <2>3. link[t].state \notin {"connecting", "up"}
      <3>1. link[t].closes \in 0 .. 2
        BY Fields DEF TypeInv
      <3> QED BY <3>1, <2>1 DEF Silent
    <2> QED BY <2>2, <2>3, SilentKept DEF SilentLink, Relinked
  <1>3. CASE Inbound(t)
    <2>1. Relinked(t) /\ link'[t].closes = link[t].closes
      BY <1>3, InboundDoes
    <2>2. link[t].closes = 0
      BY <1>3 DEF Inbound, Silent
    <2> QED BY <2>1, <2>2, SilentKept DEF SilentLink, Relinked
  <1>4. CASE Refuse(t)
    <2>1. Relinked(t) /\ link'[t].state = "refused"
      BY <1>4, RefusedDoes
    <2> QED BY <2>1, SilentKept DEF SilentLink, Relinked
  <1> QED BY <1>1, <1>2, <1>3, <1>4

LEMMA OtherSilent ==
    ASSUME TypeInv, Silent,
           \/ \E s \in Sessions :
                 \/ \E kind \in {"fresh", "upgrade"} : Attach(s, kind)
                 \/ Unbridge(s)
                 \/ BootGone(s) \/ BootAttach(s) \/ BootFails(s)
                 \/ Checkpoint(s)
           \/ \E c \in Clouds : DeleteCloud(c)
           \/ Shutdown \/ Restart \/ UNCHANGED vars
    PROVE  Silent'
  <1>1. ASSUME NEW s \in Sessions, Unbridge(s) PROVE Silent'
    <2>1. CASE map[s] = None
      BY <1>1, <2>1, SilentKept DEF Unbridge, Unbridged, SilentLink
    <2>2. CASE map[s] # None
      BY <1>1, <2>2, DetachSilent, SilentKept DEF Unbridge, Unbridged
    <2> QED BY <2>1, <2>2
  <1>2. ASSUME \/ \E s \in Sessions :
                     \/ \E kind \in {"fresh", "upgrade"} : Attach(s, kind)
                     \/ BootGone(s) \/ BootAttach(s) \/ BootFails(s)
                     \/ Checkpoint(s)
               \/ UNCHANGED vars
        PROVE  Silent'
    <2>1. link' = link
      BY <1>2 DEF Attach, BootGone, BootAttach, BootFails, Checkpoint, Begin, vars
    <2> QED BY <2>1, SilentKept DEF SilentLink
  <1>3. ASSUME NEW c \in Clouds, DeleteCloud(c) PROVE Silent'
    BY <1>3, DeletedDoes, SilentKept DEF SilentLink
  <1>4. CASE Shutdown
    <2>1. ASSUME NEW t \in Links PROVE SilentLink(t)
      <3> PICK l \in Transport : l = link[t]
        BY Fields DEF TypeInv
      <3> PICK m : m = [l EXCEPT !.state = "closed"]
        OBVIOUS
      <3>1. m.state = "closed"
        BY DEF Transport
      <3>2. link'[t] = m \/ link'[t] = l
        BY <1>4 DEF Shutdown
      <3> QED BY <3>1, <3>2 DEF SilentLink
    <2> QED BY <2>1, SilentKept
  <1>5. CASE Restart
    BY <1>5, SilentKept DEF Restart, SilentLink, NoLink
  <1> QED BY <1>1, <1>2, <1>3, <1>4, <1>5


LEMMA StampsKept ==
    ASSUME Stamps,
           \A s \in Sessions : \/ disk'[s] \in {disk[s], Pure}
                               \/ disk'[s].cse # None,
           \A s \in Sessions : boot'[s] \in {boot[s], disk[s], Pure}
    PROVE  Stamps'
  <1> SUFFICES ASSUME NEW s \in Sessions PROVE Stamped(s)'
    BY DEF Stamps
  <1>1. Stamped(s)
    BY DEF Stamps
  <1>2. disk'[s].cse = None => disk'[s] = Pure
    BY <1>1 DEF Stamped
  <1>3. boot'[s].cse = None => boot'[s] = Pure
    BY <1>1 DEF Stamped
  <1> QED BY <1>2, <1>3 DEF Stamped

LEMMA StampsStep ==
    ASSUME TypeInv, Stamps, [Next]_vars
    PROVE  Stamps'
  <1>t. /\ disk \in [Sessions -> Worker] /\ boot \in [Sessions -> Worker]
        /\ \A s \in Sessions : disk[s] \in Worker
    BY DEF TypeInv, TypeOK
  <1>1. ASSUME NEW s \in Sessions,
               \/ \E kind \in {"fresh", "upgrade"} : Attach(s, kind)
               \/ Unbridge(s) \/ BootGone(s) \/ BootAttach(s) \/ BootFails(s)
        PROVE  Stamps'
    <2>1. \A r \in Sessions : disk'[r] \in {disk[r], Pure} /\ boot'[r] \in {boot[r], Pure}
      BY <1>1, <1>t DEF Attach, Unbridge, Unbridged, Detach, BootGone, BootAttach, BootFails,
         Begin, waitVars
    <2> QED BY <2>1, StampsKept
  <1>2. ASSUME NEW s \in Sessions, Checkpoint(s) PROVE Stamps'
    <2> PICK n : n = link[bridge[s]].seq
      OBVIOUS
    <2>1. disk[s].cse # None /\ disk' = [disk EXCEPT ![s].seq = n] /\ boot' = boot
      BY <1>2 DEF Checkpoint, waitVars
    <2> PICK w \in Worker : w = disk[s]
      BY <1>t
    <2> PICK x : x = [w EXCEPT !.seq = n]
      OBVIOUS
    <2>2. x.cse = w.cse
      BY DEF Worker
    <2>3. \A r \in Sessions : disk'[r] = disk[r] \/ disk'[r].cse # None
      BY <2>1, <2>2, <1>t
    <2> QED BY <2>1, <2>3, StampsKept
  <1>3. ASSUME NEW i \in Attaches, AttachLands(i) PROVE Stamps'
    <2>1. /\ op[i].phase = "connect" /\ disk' = Persisted(i) /\ boot' = boot
      BY <1>3 DEF AttachLands
    <2>2. op[i].cse # None
      BY <2>1 DEF TypeInv, Held, OpHeld, LinkHeld, Connecting
    <2>3. \A r \in Sessions : disk'[r] = disk[r] \/ disk'[r].cse # None
      <3>1. /\ \A r \in Sessions : r # op[i].session => disk'[r] = disk[r]
            /\ op[i].kind = "existing" => disk' = disk
            /\ op[i].kind # "existing" => disk'[op[i].session].cse = op[i].cse
        BY <2>1, PersistedIs
      <3> QED BY <3>1, <2>2
    <2> QED BY <2>1, <2>3, StampsKept
  <1>4. ASSUME NEW i \in Attaches, MarkBackfilled(i) PROVE Stamps'
    <2>1. op[i].phase = "mark" /\ boot' = boot
      BY <1>4 DEF MarkBackfilled
    <2>2. op[i].session \in Sessions
      BY <2>1 DEF TypeInv, Held, OpHeld
    <2>3. \A r \in Sessions : disk'[r] = disk[r] \/ disk'[r].cse # None
      BY <1>4, <2>2, MarkedDoes
    <2> QED BY <2>1, <2>3, StampsKept
  <1>5. ASSUME NEW i \in Attaches, ProbeGone(i) PROVE Stamps'
    <2>1. boot' = boot /\ \A r \in Sessions : disk'[r] \in {disk[r], Pure}
      BY <1>5, <1>t DEF ProbeGone, Detach
    <2> QED BY <2>1, StampsKept
  <1>6. ASSUME \/ \E i \in Attaches :
                     \/ AttachOpens(i) \/ AttachFails(i)
                     \/ Backfill(i) \/ BackfillFails(i)
                     \/ RefreshDue(i) \/ RetryDue(i)
                     \/ ProbeFails(i) \/ ProbeOk(i) \/ Swapped(i) \/ Reattached(i)
               \/ \E t \in Links :
                    Die(t) \/ Refuse(t) \/ CloseFires(t) \/ CleanClose(t) \/ Inbound(t)
               \/ \E c \in Clouds : DeleteCloud(c)
               \/ Shutdown \/ UNCHANGED vars
        PROVE  Stamps'
    <2>1. disk' = disk /\ boot' = boot
      BY <1>6 DEF AttachOpens, AttachFails, Backfill, BackfillFails, RefreshDue, RetryDue,
         ProbeFails, ProbeOk, Swapped, SwapOk, SwapFails, Reattached, ReattachOk, ReattachFails,
         Die, Refuse, CloseFires, CleanClose, Inbound, DeleteCloud, Shutdown, vars, waitVars
    <2> QED BY <2>1, StampsKept
  <1>7. CASE Restart
    BY <1>7, StampsKept DEF Restart
  <1> QED BY <1>1, <1>2, <1>3, <1>4, <1>5, <1>6, <1>7 DEF Next, Probed

-----------------------------------------------------------------------------
(* The invariant and the theorems about the lifecycles.                    *)

LEMMA CalmInit ==
    ASSUME Init PROVE CalmInv
  <1>1. TypeInv /\ Apart
    BY HeldInit
  <1>2. /\ \A i \in Attaches : /\ op[i].phase = "none" /\ rec[i].phase = "none"
                               /\ ~entry[i].refresh /\ ~entry[i].backoff
        /\ \A t \in Links : link[t].state = "none"
        /\ ~stopped
        /\ \A s \in Sessions : /\ map[s] = None /\ bridge[s] = None
                               /\ disk[s] = Pure /\ boot[s] = Pure
    BY DEF Init, NoOp, NoRec, NoEntry, NoLink
  <1>3. Silent /\ Stamps
    BY <1>2 DEF Silent, Stamps, Stamped
  <1>4. ASSUME NEW s \in Sessions PROVE Watched(s) /\ Safe(s)
    <2>1. Alone(s)
      BY <1>2 DEF Alone, Attaching, Flushing, Recovering
    <2>2. Mirrored(s)
      BY <1>2 DEF Mirrored
    <2>3. Flushed(s)
      BY <1>2 DEF Flushed, Pure
    <2>4. Watched(s)
      BY <1>2 DEF Watched
    <2> QED BY <2>1, <2>2, <2>3, <2>4 DEF Safe
  <1> QED BY <1>1, <1>3, <1>4 DEF CalmInv

LEMMA SettledStep ==
    ASSUME CalmInv, [Next]_vars
    PROVE  Settled'
  <1>1. ASSUME NEW s \in Sessions, Settles(s) PROVE Settled'
    BY <1>1, SettlesAll DEF Settled
  <1>2. ASSUME NEW s \in Sessions,
               \/ \E kind \in {"fresh", "upgrade"} : Attach(s, kind)
               \/ Unbridge(s)
               \/ BootGone(s) \/ BootAttach(s) \/ BootFails(s)
               \/ Checkpoint(s)
        PROVE  Settled'
    BY <1>1, <1>2, AttachSettles, UnbridgeSettles, BootAttachSettles, DiskStepsSettle
  <1>3. ASSUME NEW i \in Attaches,
               \/ AttachOpens(i) \/ AttachFails(i) \/ AttachLands(i)
               \/ Backfill(i) \/ MarkBackfilled(i) \/ BackfillFails(i)
        PROVE  Settled'
    BY <1>1, <1>3, AttachOpensSettles, OpEndsSettle, AttachLandsSettles, BackfillSettles,
       MarkSettles
  <1>4. ASSUME NEW i \in Attaches,
               RefreshDue(i) \/ RetryDue(i) \/ Probed(i) \/ Swapped(i) \/ Reattached(i)
        PROVE  Settled'
    <2>1. CASE RefreshDue(i) \/ RetryDue(i)
      BY <1>1, <2>1, TimersSettle
    <2>2. CASE ProbeFails(i) \/ SwapFails(i) \/ ReattachFails(i)
      BY <1>1, <2>2, FailuresSettle
    <2>3. CASE ProbeGone(i) \/ ProbeOk(i)
      BY <1>1, <2>3, ProbeGoneSettles, ProbeOkSettles
    <2>4. CASE SwapOk(i) \/ ReattachOk(i)
      BY <1>1, <2>4, SwapOkSettles, ReattachOkSettles
    <2> QED BY <1>4, <2>1, <2>2, <2>3, <2>4 DEF Probed, Swapped, Reattached
  <1>5. ASSUME NEW t \in Links,
               Die(t) \/ Refuse(t) \/ CloseFires(t) \/ CleanClose(t) \/ Inbound(t)
        PROVE  Settled'
    BY <1>1, <1>5, LinkStepsSettle, CloseFiresSettles, CleanCloseSettles
  <1>6. ASSUME NEW c \in Clouds, DeleteCloud(c) PROVE Settled'
    BY <1>6, DeleteSettles
  <1>7. CASE Shutdown
    BY <1>7, ShutdownSettles
  <1>8. CASE Restart
    BY <1>8, RestartSettles
  <1>9. CASE UNCHANGED vars
    <2>1. UNCHANGED <<stopped, map, entry, op, rec, boot, link, bridge, disk, flushed, raced>>
      BY <1>9 DEF vars, serviceVars, waitVars, cloudVars
    <2> SUFFICES ASSUME NEW r \in Sessions PROVE Watched(r)' /\ (~raced'[r] => Safe(r)')
      BY DEF Settled
    <2>2. Untouched(r)
      BY <2>1 DEF Untouched, OpsOf, EntriesOf, LinksOf, SlotsOf
    <2> QED BY <2>1, <2>2, UntouchedWatched, UntouchedAlike, SafeKept DEF CalmInv
  <1> QED BY <1>2, <1>3, <1>4, <1>5, <1>6, <1>7, <1>8, <1>9 DEF Next

LEMMA CalmStep ==
    ASSUME CalmInv, [Next]_vars
    PROVE  CalmInv'
  <1>1. TypeInv /\ Apart /\ Silent /\ Stamps
    BY DEF CalmInv
  <1>2. TypeInv' /\ Apart'
    BY <1>1, HeldStep
  <1>3. Silent'
    BY <1>1, OpSilent, RecSilent, LinksSilent, OtherSilent DEF Next
  <1>4. Stamps'
    BY <1>1, StampsStep
  <1>5. Settled'
    BY SettledStep
  <1> QED BY <1>2, <1>3, <1>4, <1>5 DEF CalmInv, Settled

LEMMA AlwaysCalm == Spec => []CalmInv
  <1>1. Init => CalmInv
    BY CalmInit
  <1>2. CalmInv /\ [Next]_vars => CalmInv'
    BY CalmStep
  <1> QED BY <1>1, <1>2, PTL DEF Spec

\* No close of a transport is lost: a bridged session whose transport is dead
\* has its close still to come, a reconnect in flight, a retry armed or its
\* ladder used up, however attaches, closes and reconnects overlap
\* (bridge-service.ts handleClose, reconnect, scheduleBackoffRetry).
THEOREM DeadIsRecovered == Spec => []DeadIsBeingRecovered
  <1>1. CalmInv => DeadIsBeingRecovered
    BY WatchedIsRecovered DEF CalmInv
  <1> QED BY <1>1, AlwaysCalm, PTL

\* The mirror of a session whose lifecycle operations never overlapped is the
\* transport of its entry and no other, no timer outlives its entry, and the
\* worker state names the mirror's cloud session (bridge-service.ts attach,
\* reconnectInternal, forget, detach).
THEOREM MirrorTracked == Spec => []MirrorIsTracked
  <1>1. CalmInv => MirrorIsTracked
    <2> SUFFICES ASSUME CalmInv, NEW s \in Sessions, ~raced[s], ~stopped
        PROVE  /\ bridge[s] = IF map[s] = None THEN None ELSE entry[map[s]].link
               /\ \A t \in Links : (link[t].session = s /\ link[t].state = "up") => bridge[s] = t
               /\ \A i \in Attaches :
                     entry[i].session = s /\ (entry[i].refresh \/ entry[i].backoff) => map[s] = i
               /\ map[s] # None => disk[s].cse = link[entry[map[s]].link].cse
      BY DEF MirrorIsTracked
    <2>1. Alone(s) /\ Mirrored(s)
      BY DEF CalmInv, Safe
    <2> QED BY <2>1 DEF Alone, Mirrored
  <1> QED BY <1>1, AlwaysCalm, PTL

\* A worker state is marked backfilled only after its cloud session got the
\* history, across failed flushes, closes between the two and restarts, of a
\* session whose lifecycle operations never overlapped (bridge-service.ts
\* upgrade).
THEOREM BackfilledTrue == Spec => []BackfilledIsTrue
  <1>1. CalmInv => BackfilledIsTrue
    BY DEF CalmInv, Safe, Flushed, BackfilledIsTrue
  <1> QED BY <1>1, AlwaysCalm, PTL


-----------------------------------------------------------------------------
(* Cloud sessions: named once, for one session.                            *)

\* What uses a cloud session after the step used it before.
OpsNamed ==
    \A s \in Sessions, c \in Clouds, i \in Attaches :
       op'[i].phase # "none" /\ op'[i].session = s /\ op'[i].cse = c => Uses(s, c)

LinksNamed ==
    \A s \in Sessions, c \in Clouds, t \in Links :
       link'[t].session = s /\ link'[t].cse = c => Uses(s, c)

FilesNamed ==
    \A s \in Sessions, c \in Clouds : disk'[s].cse = c \/ boot'[s].cse = c => Uses(s, c)

\* What has no name after the step had none before, and got nothing.
StillUnnamed ==
    \A c \in Clouds : Unnamed(c)' =>
       /\ Unnamed(c)
       /\ got'[c].ever = got[c].ever /\ got'[c].now \in {got[c].now, 0}

LEMMA HomesKept ==
    ASSUME Homes, OpsNamed, LinksNamed, FilesNamed, StillUnnamed
    PROVE  Homes'
  <1>1. ASSUME NEW s \in Sessions, NEW c \in Clouds, Uses(s, c)' PROVE Uses(s, c)
    BY <1>1 DEF Uses, OpsNamed, LinksNamed, FilesNamed
  <1>2. ASSUME NEW c \in Clouds
        PROVE  (/\ \A r, s \in Sessions : Uses(r, c) /\ Uses(s, c) => r = s
                /\ Unnamed(c) => got[c].ever = 0 /\ got[c].now = 0 /\ \A s \in Sessions : ~Uses(s, c))'
    <2>1. \A r, s \in Sessions : Uses(r, c)' /\ Uses(s, c)' => r = s
      BY <1>1 DEF Homes
    <2>2. ASSUME Unnamed(c)'
          PROVE  got'[c].ever = 0 /\ got'[c].now = 0 /\ \A s \in Sessions : ~Uses(s, c)'
      <3>1. Unnamed(c) /\ got'[c].ever = got[c].ever /\ got'[c].now \in {got[c].now, 0}
        BY <2>2 DEF StillUnnamed
      <3>2. got[c].ever = 0 /\ got[c].now = 0 /\ \A s \in Sessions : ~Uses(s, c)
        BY <3>1 DEF Homes
      <3> QED BY <3>1, <3>2, <1>1
    <2> QED BY <2>1, <2>2
  <1> QED BY <1>2 DEF Homes

LEMMA SameOpsNamed ==
    ASSUME \A i \in Attaches : \/ op'[i].phase = "none"
                               \/ op'[i].session = op[i].session /\ op'[i].cse = op[i].cse
                                  /\ op[i].phase # "none"
                               \/ op'[i] = op[i]
    PROVE  OpsNamed
  BY DEF OpsNamed, Uses

LEMMA SameLinksNamed ==
    ASSUME \A t \in Links : link'[t].session = link[t].session /\ link'[t].cse = link[t].cse
    PROVE  LinksNamed
  BY DEF LinksNamed, Uses

LEMMA SameFilesNamed ==
    ASSUME \A s \in Sessions : /\ disk'[s].cse \in {disk[s].cse, None}
                               /\ boot'[s].cse \in {boot[s].cse, disk[s].cse, None}
    PROVE  FilesNamed
  BY Constants DEF FilesNamed, Uses

LEMMA SameUnnamed ==
    ASSUME opened' = opened, got' = got,
           \A i \in Attaches : op'[i].phase = "auth" => op'[i] = op[i]
    PROVE  StillUnnamed
  BY DEF StillUnnamed, Unnamed, Clouds

LEMMA EasedHomes ==
    ASSUME TypeInv, Homes, Eased, got' = got,
           \A s \in Sessions : disk'[s].cse \in {disk[s].cse, None}
                               /\ boot'[s].cse \in {boot[s].cse, disk[s].cse, None}
    PROVE  Homes'
  <1>1. OpsNamed
    <2>1. \A i \in Attaches : \/ op'[i].phase = "none"
                              \/ op'[i].session = op[i].session /\ op'[i].cse = op[i].cse
                                 /\ op[i].phase # "none"
                              \/ op'[i] = op[i]
      BY DEF Eased, OpEased
    <2> QED BY <2>1, SameOpsNamed
  <1>2. LinksNamed
    <2>1. \A t \in Links : link'[t].session = link[t].session /\ link'[t].cse = link[t].cse
      BY DEF Eased, SameLink
    <2> QED BY <2>1, SameLinksNamed
  <1>3. StillUnnamed
    <2>1. opened' = opened /\ \A i \in Attaches : op'[i].phase = "auth" => op'[i] = op[i]
      BY DEF Eased, OpEased
    <2> QED BY <2>1, SameUnnamed
  <1> QED BY <1>1, <1>2, <1>3, SameFilesNamed, HomesKept


\* The worker states, on disk and in the re-attach, are as they were or blank,
\* but for the mark.
FilesEased ==
    \A s \in Sessions :
       /\ \/ disk'[s].cse = None
          \/ disk'[s].cse = disk[s].cse /\ disk'[s].seq = disk[s].seq
       /\ boot'[s] \in {boot[s], Pure}

LEMMA SameFiles ==
    ASSUME disk' = disk, boot' = boot PROVE FilesEased
  BY DEF FilesEased

LEMMA DetachFiles ==
    ASSUME TypeInv, NEW s \in Sessions, Detach(s), boot' = boot PROVE FilesEased
  <1>1. disk' = [disk EXCEPT ![s] = Pure] /\ disk \in [Sessions -> Worker]
    BY DEF Detach, TypeInv, TypeOK
  <1>2. \A r \in Sessions : disk'[r] = disk[r] \/ disk'[r] = Pure
    BY <1>1
  <1>3. Pure.cse = None
    BY DEF Pure
  <1> QED BY <1>2, <1>3 DEF FilesEased

\* The steps that neither attach, nor give a message, nor write a checkpoint.
Quiet ==
    \/ \E s \in Sessions : Unbridge(s) \/ BootGone(s) \/ BootFails(s)
    \/ \E i \in Attaches : \/ Backfill(i) \/ MarkBackfilled(i) \/ BackfillFails(i)
                           \/ RefreshDue(i) \/ RetryDue(i) \/ ProbeFails(i)
                           \/ ProbeGone(i) \/ Swapped(i)
    \/ \E t \in Links : Die(t) \/ Refuse(t) \/ CloseFires(t) \/ CleanClose(t)
    \/ \E c \in Clouds : DeleteCloud(c)
    \/ Shutdown

LEMMA QuietFiles ==
    ASSUME TypeInv, Quiet
    PROVE  FilesEased /\ got' = got /\ UNCHANGED <<skipped, repeated, spilt>>
  <1>1. ASSUME NEW s \in Sessions, Unbridge(s) PROVE FilesEased
    <2>1. boot' = boot
      BY <1>1 DEF Unbridge, waitVars
    <2>2. CASE map[s] = None
      BY <1>1, <2>1, <2>2, SameFiles DEF Unbridge, Unbridged
    <2>3. CASE map[s] # None
      BY <1>1, <2>1, <2>3, DetachFiles DEF Unbridge, Unbridged
    <2> QED BY <2>2, <2>3
  <1>2. ASSUME NEW s \in Sessions, BootGone(s) \/ BootFails(s) PROVE FilesEased
    <2>1. boot \in [Sessions -> Worker] /\ disk \in [Sessions -> Worker] /\ Pure.cse = None
      BY DEF TypeInv, TypeOK, Pure
    <2>2. \A r \in Sessions : (disk'[r] = disk[r] \/ disk'[r] = Pure) /\ boot'[r] \in {boot[r], Pure}
      BY <1>2, <2>1 DEF BootGone, BootFails
    <2> QED BY <2>1, <2>2 DEF FilesEased
  <1>3. ASSUME NEW i \in Attaches, ProbeGone(i) PROVE FilesEased
    <2>1. boot' = boot /\ entry[i].session \in Sessions
      BY <1>3, RecoveringHeld DEF ProbeGone
    <2>2. CASE map[entry[i].session] = None
      BY <1>3, <2>1, <2>2, SameFiles DEF ProbeGone
    <2>3. CASE map[entry[i].session] # None
      BY <1>3, <2>1, <2>3, DetachFiles DEF ProbeGone
    <2> QED BY <2>2, <2>3
  <1>4. ASSUME NEW i \in Attaches, MarkBackfilled(i) PROVE FilesEased
    <2>1. boot' = boot /\ op[i].session \in Sessions
      BY <1>4 DEF MarkBackfilled, TypeInv, Held, OpHeld
    <2>2. \A r \in Sessions : disk'[r].cse = disk[r].cse /\ disk'[r].seq = disk[r].seq
      <3> PICK s \in Sessions : s = op[i].session
        BY <2>1
      <3>1. /\ disk' = IF disk[s].cse = None THEN disk ELSE [disk EXCEPT ![s].backfilled = TRUE]
            /\ disk \in [Sessions -> Worker]
        BY <1>4 DEF MarkBackfilled, TypeInv, TypeOK
      <3> PICK w \in Worker : w = disk[s]
        BY <3>1
      <3> PICK x : x = [w EXCEPT !.backfilled = TRUE]
        OBVIOUS
      <3>2. x.cse = w.cse /\ x.seq = w.seq
        BY DEF Worker
      <3> QED BY <3>1, <3>2
    <2> QED BY <2>1, <2>2 DEF FilesEased
  <1>5. ASSUME \/ \E i \in Attaches : \/ Backfill(i) \/ BackfillFails(i)
                                      \/ RefreshDue(i) \/ RetryDue(i) \/ ProbeFails(i)
                                      \/ Swapped(i)
               \/ \E t \in Links : Die(t) \/ Refuse(t) \/ CloseFires(t) \/ CleanClose(t)
               \/ \E c \in Clouds : DeleteCloud(c)
               \/ Shutdown
        PROVE  FilesEased
    <2>1. disk' = disk /\ boot' = boot
      BY <1>5 DEF Backfill, BackfillFails, RefreshDue, RetryDue, ProbeFails, Swapped, SwapOk,
         SwapFails, Die, Refuse, CloseFires, CleanClose, DeleteCloud, Shutdown, waitVars
    <2> QED BY <2>1, SameFiles
  <1>6. FilesEased
    BY <1>1, <1>2, <1>3, <1>4, <1>5 DEF Quiet
  <1>7. got' = got /\ UNCHANGED <<skipped, repeated, spilt>>
    BY DEF Quiet, Unbridge, BootGone, BootFails, Backfill, MarkBackfilled, BackfillFails,
       RefreshDue, RetryDue, ProbeFails, ProbeGone, Swapped, SwapOk, SwapFails, Die, Refuse, CloseFires,
       CleanClose, DeleteCloud, Shutdown, inboundVars
  <1> QED BY <1>6, <1>7

LEMMA QuietHomes ==
    ASSUME TypeInv, Homes, Quiet PROVE Homes'
  <1>1. Eased
    BY EasedSteps DEF Quiet
  <1>2. FilesEased /\ got' = got
    BY QuietFiles
  <1>3. \A s \in Sessions : disk'[s].cse \in {disk[s].cse, None}
                            /\ boot'[s].cse \in {boot[s].cse, disk[s].cse, None}
    BY <1>2 DEF FilesEased, Pure
  <1> QED BY <1>1, <1>2, <1>3, EasedHomes


\* The operation that an attach begins with.
Begun(n, s, kind, from) ==
    /\ n \in Attaches /\ n > opened /\ op[n].phase = "none" /\ opened' = opened + 1
    /\ \A j \in Attaches : j # n => op'[j] = op[j]
    /\ \/ op'[n] = op[n]
       \/ /\ op'[n].session = s /\ op'[n].kind = kind
          /\ op'[n].cse = from.cse /\ op'[n].seq = from.seq
          /\ op'[n].phase = IF map[s] = None THEN "auth" ELSE "history"

LEMMA BegunDoes ==
    ASSUME TypeInv, NEW s \in Sessions, NEW kind, NEW from, Begin(s, kind, from)
    PROVE  \E n \in Attaches : Begun(n, s, kind, from)
  <1> PICK n : n = opened + 1
    OBVIOUS
  <1> PICK o : o = [phase   |-> IF map[s] = None THEN "auth" ELSE "history",
                    session |-> s, kind |-> kind, cse |-> from.cse,
                    link    |-> IF map[s] = None THEN None ELSE entry[map[s]].link,
                    seq     |-> from.seq]
    OBVIOUS
  <1>1. /\ opened < MaxAttaches /\ opened' = n
        /\ op' = op \/ op' = [op EXCEPT ![n] = o]
    BY DEF Begin
  <1>2. op \in [Attaches -> Operation] /\ opened \in 0 .. MaxAttaches /\ MaxAttaches \in Nat
    BY Constants DEF TypeInv, TypeOK
  <1>3. n \in Attaches /\ n > opened /\ ~(n <= opened)
    BY <1>1, <1>2 DEF Attaches
  <1>4. op[n].phase = "none"
    BY <1>3 DEF TypeInv, Held, OpHeld
  <1>5. /\ o.session = s /\ o.kind = kind /\ o.cse = from.cse /\ o.seq = from.seq
        /\ o.phase = IF map[s] = None THEN "auth" ELSE "history"
    OBVIOUS
  <1>6. /\ \A j \in Attaches : j # n => op'[j] = op[j]
        /\ op'[n] = op[n] \/ op'[n] = o
    BY <1>1, <1>2, <1>3
  <1> QED BY <1>1, <1>3, <1>4, <1>5, <1>6 DEF Begun

LEMMA BeginHomes ==
    ASSUME TypeInv, Homes, NEW s \in Sessions,
           BootAttach(s) \/ \E kind \in {"fresh", "upgrade"} : Attach(s, kind)
    PROVE  Homes'
  <1>0. PICK kind \in {"fresh", "upgrade", "existing"}, from \in {boot[s], Pure} :
           /\ Begin(s, kind, from)
           /\ \A r \in Sessions : boot'[r] \in {boot[r], Pure}
    <2>1. boot \in [Sessions -> Worker]
      BY DEF TypeInv, TypeOK
    <2>2. CASE BootAttach(s)
      <3>1. Begin(s, "existing", boot[s]) /\ boot' = [boot EXCEPT ![s] = Pure]
        BY <2>2 DEF BootAttach
      <3>2. \A r \in Sessions : boot'[r] \in {boot[r], Pure}
        BY <3>1, <2>1
      <3> QED BY <3>1, <3>2
    <2>3. CASE \E k \in {"fresh", "upgrade"} : Attach(s, k)
      <3>1. PICK k \in {"fresh", "upgrade"} : Begin(s, k, Pure) /\ boot' = boot
        BY <2>3 DEF Attach
      <3> QED BY <3>1
    <2> QED BY <2>2, <2>3
  <1>1. UNCHANGED <<link, disk, got>>
    BY <1>0 DEF Begin, inboundVars
  <1>2. PICK n \in Attaches : Begun(n, s, kind, from)
    BY <1>0, BegunDoes
  <1>3. Pure.cse = None /\ \A c \in Clouds : c # None
    BY Constants DEF Pure
  <1>4. OpsNamed
    <2> SUFFICES ASSUME NEW r \in Sessions, NEW c \in Clouds, NEW i \in Attaches,
                        op'[i].phase # "none", op'[i].session = r, op'[i].cse = c
                 PROVE  Uses(r, c)
      BY DEF OpsNamed
    <2>1. CASE op'[i] = op[i]
      BY <2>1 DEF Uses
    <2>2. CASE op'[i] # op[i]
      <3>1. r = s /\ c = from.cse
        BY <1>2, <2>2 DEF Begun
      <3> QED BY <3>1, <1>3 DEF Uses
    <2> QED BY <2>1, <2>2
  <1>5. LinksNamed
    BY <1>1, SameLinksNamed
  <1>6. FilesNamed
    BY <1>0, <1>1, <1>3, SameFilesNamed
  <1>7. StillUnnamed
    <2> SUFFICES ASSUME NEW c \in Clouds, Unnamed(c)' PROVE Unnamed(c)
      BY <1>1 DEF StillUnnamed
    <2>1. opened \in Nat /\ c \in Nat /\ c \in Attaches
      BY BoundsAssumption DEF TypeInv, TypeOK, Clouds, Attaches
    <2>2. CASE c > opened'
      BY <2>1, <2>2, <1>2 DEF Unnamed, Begun
    <2>3. CASE op'[c].phase = "auth" /\ op'[c].cse = None
      BY <2>1, <2>3, <1>2 DEF Unnamed, Begun
    <2> QED BY <2>2, <2>3 DEF Unnamed
  <1> QED BY <1>4, <1>5, <1>6, <1>7, HomesKept

LEMMA OpensHomes ==
    ASSUME TypeInv, Homes, NEW i \in Attaches, AttachOpens(i)
    PROVE  Homes'
  <1> PICK c : c = IF op[i].cse = None THEN i ELSE op[i].cse
    OBVIOUS
  <1> PICK q : q = op[i].seq
    OBVIOUS
  <1> PICK s : s = op[i].session
    OBVIOUS
  <1>0. /\ op[i].phase = "auth" /\ Opens(s, c, q)
        /\ op' = [op EXCEPT ![i].phase = "connect", ![i].cse = c, ![i].link = links']
        /\ UNCHANGED <<disk, boot, got, opened>>
    BY DEF AttachOpens, Opens, inboundVars
  <1>1. /\ op[i] \in Operation /\ op \in [Attaches -> Operation]
        /\ s \in Sessions /\ c \in Clouds /\ q \in 0 .. MaxInbound /\ i <= opened
    BY <1>0, Fields, Constants DEF TypeInv, TypeOK, Held, OpHeld
  <1>2. /\ OnlyLink(links') /\ link'[links'].session = s /\ link'[links'].cse = c
    BY <1>0, <1>1, NewLinkIs
  <1> PICK o : o = [op[i] EXCEPT !.phase = "connect", !.cse = c, !.link = links']
    OBVIOUS
  <1>3. o.phase = "connect" /\ o.session = s /\ o.cse = c
    BY <1>1 DEF Operation
  <1>4. op'[i] = o /\ \A j \in Attaches : j # i => op'[j] = op[j]
    BY <1>0, <1>1
  <1>5. ASSUME NEW r \in Sessions, NEW d \in Clouds, Uses(r, d)'
        PROVE  Uses(r, d) \/ (r = s /\ d = c)
    <2>1. ASSUME NEW j \in Attaches, op'[j].phase # "none", op'[j].session = r, op'[j].cse = d
          PROVE  Uses(r, d) \/ (r = s /\ d = c)
      <3>1. CASE j = i
        BY <2>1, <3>1, <1>3, <1>4
      <3>2. CASE j # i
        BY <2>1, <3>2, <1>4 DEF Uses
      <3> QED BY <3>1, <3>2
    <2>2. ASSUME NEW t \in Links, link'[t].session = r, link'[t].cse = d
          PROVE  Uses(r, d) \/ (r = s /\ d = c)
      <3>1. CASE t = links'
        BY <2>2, <3>1, <1>2
      <3>2. CASE t # links'
        BY <2>2, <3>2, <1>2 DEF Uses, OnlyLink
      <3> QED BY <3>1, <3>2
    <2>3. ASSUME disk'[r].cse = d \/ boot'[r].cse = d PROVE Uses(r, d)
      BY <2>3, <1>0 DEF Uses
    <2> QED BY <2>1, <2>2, <2>3, <1>5 DEF Uses
  <1>6. Uses(s, c) \/ (c = i /\ Unnamed(i))
    BY <1>0, <1>1 DEF Uses, Unnamed
  <1>7. \A r \in Sessions : Uses(r, c) => r = s
    BY <1>1, <1>6 DEF Homes
  <1>8. \A r, u \in Sessions, d \in Clouds : Uses(r, d)' /\ Uses(u, d)' => r = u
    BY <1>5, <1>7 DEF Homes
  <1>9. ASSUME NEW d \in Clouds, Unnamed(d)'
        PROVE  got'[d].ever = 0 /\ got'[d].now = 0 /\ \A r \in Sessions : ~Uses(r, d)'
    <2>1. Unnamed(d) /\ d # i
      <3>1. opened \in Nat /\ i \in Nat /\ d \in Attaches
        BY Constants, BoundsAssumption DEF TypeInv, TypeOK, Clouds
      <3>2. ~Unnamed(i)'
        BY <3>1, <1>0, <1>1, <1>3, <1>4 DEF Unnamed
      <3> QED BY <3>1, <3>2, <1>0, <1>4, <1>9 DEF Unnamed
    <2>2. got[d].ever = 0 /\ got[d].now = 0 /\ \A r \in Sessions : ~Uses(r, d)
      BY <2>1 DEF Homes
    <2>3. d # c
      BY <2>1, <2>2, <1>1, <1>6
    <2> QED BY <2>2, <2>3, <1>0, <1>5
  <1> QED BY <1>8, <1>9 DEF Homes


LEMMA AttachEndsHomes ==
    ASSUME TypeInv, Homes, NEW i \in Attaches, AttachFails(i) \/ AttachLands(i)
    PROVE  Homes'
  <1>0. /\ op[i].phase \in {"auth", "connect"} /\ got' = got /\ opened' = opened /\ boot' = boot
    BY DEF AttachFails, AttachLands, countVars, inboundVars
  <1>1. op[i].session \in Sessions /\ op \in [Attaches -> Operation] /\ NoOp.phase = "none"
    BY <1>0 DEF TypeInv, TypeOK, Held, OpHeld, NoOp
  <1>2. \A j \in Attaches : \/ op'[j].phase = "none"
                            \/ op'[j].session = op[j].session /\ op'[j].cse = op[j].cse
                               /\ op[j].phase # "none" /\ op'[j].phase = "history"
                            \/ op'[j] = op[j]
    <2>1. CASE AttachFails(i)
      <3>1. op' = [op EXCEPT ![i] = NoOp]
        BY <2>1 DEF AttachFails
      <3> QED BY <3>1, <1>1
    <2>2. CASE AttachLands(i)
      <3>1. Landed(i)
        BY <2>2, LandedDoes
      <3> QED BY <3>1, <1>0, <1>1 DEF Landed
    <2> QED BY <2>1, <2>2
  <1>3. OpsNamed
    BY <1>2, SameOpsNamed
  <1>4. LinksNamed
    <2>1. \A t \in Links : link'[t].session = link[t].session /\ link'[t].cse = link[t].cse
      <3>1. CASE link' = link
        BY <3>1
      <3>2. CASE link' # link
        <4>1. /\ op[i].phase = "connect"
              /\ link' \in {Dropped(op[i].link), [link EXCEPT ![op[i].link].state = "up"]}
          BY <1>0, <3>2 DEF AttachFails, AttachLands
        <4> PICK t : t = op[i].link
          OBVIOUS
        <4>2. t \in Links /\ link[t].state \in {"connecting", "refused"}
          BY <4>1 DEF TypeInv, Held, OpHeld, Connecting
        <4>3. CASE link' = Dropped(t)
          BY <4>2, <4>3, DroppedDoes DEF OnlyLink
        <4>4. CASE link' = [link EXCEPT ![t].state = "up"]
          BY <4>2, <4>4, UpDoes DEF OnlyLink
        <4> QED BY <4>1, <4>3, <4>4
      <3> QED BY <3>1, <3>2
    <2> QED BY <2>1, SameLinksNamed
  <1>5. FilesNamed
    <2>1. CASE disk' = disk
      BY <2>1, <1>0, SameFilesNamed
    <2>2. CASE disk' # disk
      <3>1. op[i].phase = "connect" /\ disk' = Persisted(i)
        BY <2>2 DEF AttachFails, AttachLands
      <3>2. /\ \A r \in Sessions : r # op[i].session => disk'[r] = disk[r]
            /\ disk'[op[i].session].cse = op[i].cse
        BY <2>2, <3>1, PersistedIs
      <3>3. \A r \in Sessions : disk'[r].cse = disk[r].cse \/ (r = op[i].session /\ disk'[r].cse = op[i].cse)
        BY <3>2
      <3> QED BY <3>1, <3>3, <1>0 DEF FilesNamed, Uses
    <2> QED BY <2>1, <2>2
  <1>6. StillUnnamed
    BY <1>0, <1>2, SameUnnamed
  <1> QED BY <1>3, <1>4, <1>5, <1>6, HomesKept

LEMMA ReattachHomes ==
    ASSUME TypeInv, Homes, NEW i \in Attaches, ProbeOk(i) \/ Reattached(i)
    PROVE  Homes'
  <1>0. /\ rec[i].phase # "none" /\ UNCHANGED <<op, disk, boot, got, opened>>
    BY DEF ProbeOk, Reattached, ReattachOk, ReattachFails, countVars, inboundVars
  <1>1. /\ entry[i].session \in Sessions /\ entry[i].link \in Links
        /\ Connected(link[entry[i].link], entry[i].session)
    BY <1>0, RecoveringHeld
  <1>2. LinksNamed
    <2>1. CASE link' = link
      BY <2>1, SameLinksNamed
    <2>2. CASE link' # link /\ ProbeOk(i)
      <3> PICK c : c = link[entry[i].link].cse
        OBVIOUS
      <3> PICK q : q = ResumeFrom(i)
        OBVIOUS
      <3> PICK s : s = entry[i].session
        OBVIOUS
      <3>1. Opens(s, c, q)
        BY <2>2 DEF ProbeOk, Opens
      <3>2. c # None
        BY <1>1 DEF TypeInv, Held, LinkHeld, Connected
      <3>3. c \in Clouds /\ q \in 0 .. MaxInbound
        BY <1>1, <3>2, Fields DEF TypeInv, ResumeFrom
      <3>4. OnlyLink(links') /\ link'[links'].session = s /\ link'[links'].cse = c
        BY <3>1, <3>3, <1>1, NewLinkIs
      <3>5. Uses(s, c)
        BY <1>1 DEF Uses, Connected
      <3> SUFFICES ASSUME NEW r \in Sessions, NEW d \in Clouds, NEW t \in Links,
                          link'[t].session = r, link'[t].cse = d
                   PROVE  Uses(r, d)
        BY DEF LinksNamed
      <3>6. CASE t = links'
        BY <3>4, <3>5, <3>6
      <3>7. CASE t # links'
        BY <3>4, <3>7 DEF Uses, OnlyLink
      <3> QED BY <3>6, <3>7
    <2>3. CASE Reattached(i)
      <3> PICK t : t = rec[i].link
        OBVIOUS
      <3>1. t \in Links /\ link[t].state \in {"connecting", "refused"}
        BY <2>3 DEF Reattached, ReattachOk, ReattachFails, TypeInv, Held, RecHeld, Connecting
      <3>2. link' = Dropped(t) \/ link' = [link EXCEPT ![t].state = "up"]
        BY <2>3 DEF Reattached, ReattachOk, ReattachFails
      <3>3. \A u \in Links : link'[u].session = link[u].session /\ link'[u].cse = link[u].cse
        <4>1. CASE link' = Dropped(t)
          BY <3>1, <4>1, DroppedDoes DEF OnlyLink
        <4>2. CASE link' = [link EXCEPT ![t].state = "up"]
          BY <3>1, <4>2, UpDoes DEF OnlyLink
        <4> QED BY <3>2, <4>1, <4>2
      <3> QED BY <3>3, SameLinksNamed
    <2> QED BY <2>1, <2>2, <2>3
  <1>3. OpsNamed
    BY <1>0, SameOpsNamed
  <1>4. FilesNamed
    BY <1>0, SameFilesNamed
  <1>5. StillUnnamed
    BY <1>0, SameUnnamed
  <1> QED BY <1>2, <1>3, <1>4, <1>5, HomesKept

LEMMA InboundHomes ==
    ASSUME TypeInv, Homes, NEW t \in Links, Inbound(t)
    PROVE  Homes'
  <1>0. UNCHANGED <<op, disk, boot, opened>> /\ link[t].state \in {"connecting", "up"}
    BY DEF Inbound, waitVars, countVars
  <1> PICK c : c = link[t].cse
    OBVIOUS
  <1>1. /\ Relinked(t) /\ c \in Clouds /\ \A d \in Clouds : d # c => got'[d] = got[d]
    BY InboundDoes
  <1>2. link[t].session \in Sessions
    BY <1>0 DEF TypeInv, Held, LinkHeld
  <1>3. Uses(link[t].session, c)
    BY DEF Uses
  <1>4. ~Unnamed(c)
    BY <1>1, <1>2, <1>3 DEF Homes
  <1>5. OpsNamed /\ FilesNamed
    BY <1>0, SameOpsNamed, SameFilesNamed
  <1>6. LinksNamed
    BY <1>1, RelinkedSame, SameLinksNamed DEF SameLink
  <1>7. StillUnnamed
    BY <1>0, <1>1, <1>4 DEF StillUnnamed, Unnamed
  <1> QED BY <1>5, <1>6, <1>7, HomesKept

LEMMA RestartHomes ==
    ASSUME TypeInv, Homes, Restart
    PROVE  Homes'
  <1>0. /\ op' = [i \in Attaches |-> NoOp] /\ boot' = disk /\ link' = [t \in Links |-> NoLink]
        /\ got' = [c \in Clouds |-> [ever |-> got[c].ever, now |-> 0]]
        /\ disk' = disk /\ opened' = opened
    BY DEF Restart
  <1>1. \A i \in Attaches : op'[i].phase = "none"
    BY <1>0 DEF NoOp
  <1>2. \A t \in Links : link'[t].cse = None
    BY <1>0 DEF NoLink
  <1>3. OpsNamed
    BY <1>1, SameOpsNamed
  <1>4. LinksNamed
    BY <1>2, Constants DEF LinksNamed
  <1>5. FilesNamed
    BY <1>0, SameFilesNamed
  <1>6. StillUnnamed
    BY <1>0, <1>1 DEF StillUnnamed, Unnamed, Clouds
  <1> QED BY <1>3, <1>4, <1>5, <1>6, HomesKept

LEMMA CheckpointHomes ==
    ASSUME TypeInv, Homes, NEW s \in Sessions, Checkpoint(s)
    PROVE  Homes'
  <1> PICK n : n = link[bridge[s]].seq
    OBVIOUS
  <1>1. /\ disk' = [disk EXCEPT ![s].seq = n] /\ disk \in [Sessions -> Worker]
        /\ UNCHANGED <<op, boot, link, got, opened>>
    BY DEF Checkpoint, waitVars, countVars, inboundVars, TypeInv, TypeOK
  <1> PICK w \in Worker : w = disk[s]
    BY <1>1
  <1> PICK x : x = [w EXCEPT !.seq = n]
    OBVIOUS
  <1>2. x.cse = w.cse
    BY DEF Worker
  <1>3. \A r \in Sessions : disk'[r].cse = disk[r].cse
    BY <1>1, <1>2
  <1> QED BY <1>1, <1>3, SameOpsNamed, SameLinksNamed, SameFilesNamed, SameUnnamed, HomesKept

LEMMA HomesStep ==
    ASSUME TypeInv, Homes, [Next]_vars
    PROVE  Homes'
  <1>1. ASSUME NEW s \in Sessions,
               \/ \E kind \in {"fresh", "upgrade"} : Attach(s, kind)
               \/ BootAttach(s) \/ Checkpoint(s)
        PROVE  Homes'
    BY <1>1, BeginHomes, CheckpointHomes
  <1>2. ASSUME NEW i \in Attaches,
               \/ AttachOpens(i) \/ AttachFails(i) \/ AttachLands(i)
               \/ ProbeOk(i) \/ Reattached(i)
        PROVE  Homes'
    BY <1>2, OpensHomes, AttachEndsHomes, ReattachHomes
  <1>3. CASE Quiet
    BY <1>3, QuietHomes
  <1>4. ASSUME NEW t \in Links, Inbound(t) PROVE Homes'
    BY <1>4, InboundHomes
  <1>5. CASE Restart
    BY <1>5, RestartHomes
  <1>6. CASE UNCHANGED vars
    BY <1>6, SameOpsNamed, SameLinksNamed, SameFilesNamed, SameUnnamed, HomesKept
       DEF vars, waitVars, countVars, inboundVars
  <1> QED BY <1>1, <1>2, <1>3, <1>4, <1>5, <1>6 DEF Next, Quiet, Probed

LEMMA HomesInit == Init => Homes
  <1> SUFFICES ASSUME Init PROVE Homes
    OBVIOUS
  <1>1. /\ \A i \in Attaches : op[i].phase = "none"
        /\ \A t \in Links : link[t].cse = None
        /\ \A s \in Sessions : disk[s].cse = None /\ boot[s].cse = None
        /\ \A c \in Clouds : got[c].ever = 0 /\ got[c].now = 0
    BY DEF Init, NoOp, NoLink, Pure
  <1>2. \A s \in Sessions, c \in Clouds : ~Uses(s, c)
    BY <1>1, Constants DEF Uses
  <1> QED BY <1>1, <1>2 DEF Homes

-----------------------------------------------------------------------------
(* The places in the streams.                                              *)

LinksStay ==
    \A t \in Links : link[t].state # "none" =>
       link'[t].cse = link[t].cse /\ link'[t].seq = link[t].seq

LEMMA FitsKept ==
    ASSUME NEW c, NEW n, Fits(c, n), got' = got, spilt \subseteq spilt'
    PROVE  Fits(c, n)'
  BY DEF Fits

LEMMA SameFit ==
    ASSUME NEW t \in Links, LinksStay, got' = got, spilt \subseteq spilt',
           link[t].state # "none", LinkFits(t)
    PROVE  LinkFits(t)'
  <1> PICK c : c = link[t].cse
    OBVIOUS
  <1> PICK q : q = link[t].seq
    OBVIOUS
  <1>1. link'[t].cse = c /\ link'[t].seq = q
    BY DEF LinksStay
  <1>2. Fits(c, q)'
    BY FitsKept DEF LinkFits
  <1> QED BY <1>1, <1>2 DEF LinkFits, Fits

LEMMA OpFitsKept ==
    ASSUME TypeInv, NEW i \in Attaches, OpFits(i), LinksStay, got' = got,
           spilt \subseteq spilt',
           op'[i] = op[i] \/ op'[i].phase \notin {"auth", "connect"}
    PROVE  OpFits(i)'
  <1>1. CASE op'[i].phase \notin {"auth", "connect"}
    BY <1>1 DEF OpFits
  <1>2. CASE op'[i] = op[i] /\ op[i].phase = "auth"
    <2> PICK c : c = op[i].cse
      OBVIOUS
    <2> PICK q : q = op[i].seq
      OBVIOUS
    <2>1. IF c = None THEN q = 0 ELSE Fits(c, q)
      BY <1>2 DEF OpFits
    <2>2. c # None => Fits(c, q)'
      BY <2>1, FitsKept
    <2> QED BY <1>2, <2>1, <2>2 DEF OpFits, Fits
  <1>3. CASE op'[i] = op[i] /\ op[i].phase = "connect"
    <2>1. op[i].link \in Links /\ link[op[i].link].state # "none" /\ LinkFits(op[i].link)
      BY <1>3 DEF OpFits, TypeInv, Held, OpHeld, Connecting
    <2>2. LinkFits(op[i].link)'
      <3> PICK t \in Links : t = op[i].link
        BY <2>1
      <3>1. LinkFits(t)' /\ op'[i].link = t
        BY <2>1, <1>3, SameFit
      <3> QED BY <3>1, <1>3 DEF LinkFits
    <2> QED BY <2>2, <1>3 DEF OpFits
  <1> QED BY <1>1, <1>2, <1>3

LEMMA RecFitsKept ==
    ASSUME TypeInv, NEW i \in Attaches, RecFits(i), LinksStay, got' = got,
           spilt \subseteq spilt',
           rec'[i] = rec[i] \/ rec'[i].phase # "reattach"
    PROVE  RecFits(i)'
  <1>1. CASE rec'[i].phase # "reattach"
    BY <1>1 DEF RecFits
  <1>2. CASE rec'[i] = rec[i] /\ rec[i].phase = "reattach"
    <2>1. rec[i].link \in Links /\ link[rec[i].link].state # "none" /\ LinkFits(rec[i].link)
      BY <1>2 DEF RecFits, TypeInv, Held, RecHeld, Connecting
    <2> PICK t \in Links : t = rec[i].link
      BY <2>1
    <2>2. LinkFits(t)' /\ rec'[i].link = t
      BY <2>1, <1>2, SameFit
    <2> QED BY <2>2 DEF RecFits, LinkFits
  <1> QED BY <1>1, <1>2

\* The entry of a transport in its place is in its place, and the other way
\* round unless a reconnect is getting messages past it.
LEMMA LinkFitsEntry ==
    ASSUME NEW i \in Attaches, NEW t \in Links, entry'[i].link = t, LinkFits(t)'
    PROVE  EntryFits(i)'
  <1> PICK c : c = link'[t].cse
    OBVIOUS
  <1> PICK q : q = link'[t].seq
    OBVIOUS
  <1> QED BY DEF EntryFits, LinkFits, Fits

LEMMA EntryFitsLink ==
    ASSUME NEW i \in Attaches, NEW t \in Links, entry[i].link = t, EntryFits(i),
           rec[i].phase # "reattach"
    PROVE  LinkFits(t)
  BY DEF EntryFits, LinkFits, Fits, More

\* What the entry is short of, it is short of still, or it has come to be spilt.
LEMMA EntryFitsKept ==
    ASSUME NEW i \in Attaches, NEW u \in Links, entry[i].link = u, entry'[i].link = u,
           EntryFits(i), link'[u].cse = link[u].cse, link'[u].seq = link[u].seq,
           got'[link[u].cse] = got[link[u].cse],
           \A k \in link[u].seq + 1 .. got[link[u].cse].now :
              <<link[u].cse, k>> \in spilt \/ More(i, k)
                 => <<link[u].cse, k>> \in spilt' \/ More(i, k)'
    PROVE  EntryFits(i)'
  <1> PICK c : c = link[u].cse
    OBVIOUS
  <1> PICK q : q = link[u].seq
    OBVIOUS
  <1> PICK g : g = got[c]
    OBVIOUS
  <1>1. q <= g.ever /\ \A k \in q + 1 .. g.now : <<c, k>> \in spilt \/ More(i, k)
    BY DEF EntryFits
  <1>2. q <= g.ever /\ \A k \in q + 1 .. g.now : <<c, k>> \in spilt' \/ More(i, k)'
    BY <1>1
  <1>3. link'[u].cse = c /\ link'[u].seq = q /\ got'[c] = g
    OBVIOUS
  <1> QED BY <1>2, <1>3 DEF EntryFits

LEMMA MoreKept ==
    ASSUME TypeInv, NEW i \in Attaches, NEW k, More(i, k), LinksStay, rec'[i] = rec[i]
    PROVE  More(i, k)'
  <1>1. rec[i].phase = "reattach" /\ k <= link[rec[i].link].seq
    BY DEF More
  <1>2. rec[i].link \in Links /\ link[rec[i].link].state # "none"
    BY <1>1 DEF TypeInv, Held, RecHeld, Connecting
  <1>3. link'[rec[i].link].seq = link[rec[i].link].seq
    BY <1>2 DEF LinksStay
  <1> QED BY <1>1, <1>3 DEF More

LEMMA MapFitsKept ==
    ASSUME TypeInv, NEW s \in Sessions, MapFits(s), LinksStay, got' = got,
           spilt \subseteq spilt',
           \/ map'[s] = None
           \/ /\ map'[s] = map[s] /\ entry'[map[s]].link = entry[map[s]].link
              /\ rec[map[s]].phase = "reattach" => rec'[map[s]] = rec[map[s]]
    PROVE  MapFits(s)'
  <1>1. CASE map'[s] = None
    BY <1>1 DEF MapFits
  <1>2. CASE map'[s] # None
    <2>1. /\ map'[s] = map[s] /\ map[s] # None /\ entry'[map[s]].link = entry[map[s]].link
          /\ rec[map[s]].phase = "reattach" => rec'[map[s]] = rec[map[s]]
      BY <1>2
    <2>2. /\ map[s] \in Attaches /\ entry[map[s]].link \in Links
          /\ link[entry[map[s]].link].state # "none"
      BY <2>1, MapHeld DEF Connected
    <2> PICK i \in Attaches, u \in Links : i = map[s] /\ u = entry[i].link
      BY <2>2
    <2>3. link'[u].cse = link[u].cse /\ link'[u].seq = link[u].seq
      BY <2>2 DEF LinksStay
    <2>4. EntryFits(i)
      BY <2>1 DEF MapFits
    <2>5. \A k \in link[u].seq + 1 .. got[link[u].cse].now : More(i, k) => More(i, k)'
      BY <2>1, MoreKept DEF More
    <2>6. EntryFits(i)'
      BY <2>1, <2>3, <2>4, <2>5, EntryFitsKept
    <2> QED BY <2>1, <2>6 DEF MapFits, EntryFits, More
  <1> QED BY <1>1, <1>2

LEMMA FileFitsKept ==
    ASSUME NEW s \in Sessions, FileFits(s), FilesEased, got' = got
    PROVE  FileFits(s)'
  BY DEF FileFits, FilesEased

\* A step that takes no transport up and gives no message.
LEMMA InStepKept ==
    ASSUME TypeInv, InStep, LinksStay, FilesEased, got' = got, spilt \subseteq spilt',
           \A i \in Attaches :
              /\ op'[i] = op[i] \/ op'[i].phase \notin {"auth", "connect"}
              /\ rec'[i] = rec[i] \/ rec'[i].phase # "reattach"
              /\ rec[i].phase = "reattach" => rec'[i] = rec[i]
              /\ entry'[i].link = entry[i].link,
           \A s \in Sessions : map'[s] \in {map[s], None}
    PROVE  InStep'
  <1>1. \A i \in Attaches : OpFits(i)' /\ RecFits(i)'
    BY OpFitsKept, RecFitsKept DEF InStep
  <1>2. ASSUME NEW s \in Sessions PROVE MapFits(s)' /\ FileFits(s)'
    <2>1. map[s] # None => map[s] \in Attaches
      BY MapHeld
    <2>2. MapFits(s) /\ FileFits(s)
      BY DEF InStep
    <2>3. MapFits(s)'
      BY <2>1, <2>2, MapFitsKept
    <2> QED BY <2>2, <2>3, FileFitsKept
  <1> QED BY <1>1, <1>2 DEF InStep


LEMMA OneLinkStays ==
    ASSUME NEW t \in Links, \A u \in Links : u # t => link'[u] = link[u],
           link'[t].cse = link[t].cse, link'[t].seq = link[t].seq
    PROVE  LinksStay
  <1>1. ASSUME NEW u \in Links PROVE link'[u].cse = link[u].cse /\ link'[u].seq = link[u].seq
    BY u = t \/ u # t
  <1> QED BY <1>1 DEF LinksStay

LEMMA DetachStays ==
    ASSUME TypeInv, NEW s \in Sessions, Detach(s), map[s] # None PROVE LinksStay
  <1> PICK t : t = entry[map[s]].link
    OBVIOUS
  <1>1. t \in Links /\ link' = Shut(t)
    BY DetachDoes
  <1> QED BY <1>1, ShutDoes, OneLinkStays

LEMMA QuietStays ==
    ASSUME TypeInv, Quiet
    PROVE  LinksStay
  <1>1. ASSUME link' = link PROVE LinksStay
    BY <1>1 DEF LinksStay
  <1>2. ASSUME NEW s \in Sessions, Unbridge(s) \/ BootGone(s) \/ BootFails(s) PROVE LinksStay
    BY <1>1, <1>2, DetachStays DEF Unbridge, Unbridged, BootGone, BootFails
  <1>3. ASSUME NEW i \in Attaches, ProbeGone(i) PROVE LinksStay
    <2>1. entry[i].session \in Sessions
      BY <1>3, RecoveringHeld DEF ProbeGone
    <2> QED BY <1>1, <1>3, <2>1, DetachStays DEF ProbeGone
  <1>4. ASSUME NEW i \in Attaches, SwapOk(i) PROVE LinksStay
    <2> PICK t : t = entry[i].link
      OBVIOUS
    <2>1. t \in Links /\ link' = [link EXCEPT ![t] = Rebuilt(@)]
      BY <1>4, RecoveringHeld DEF SwapOk
    <2> QED BY <2>1, RebuiltDoes, OneLinkStays DEF Relinked, SameLink
  <1>5. ASSUME NEW i \in Attaches,
               \/ Backfill(i) \/ MarkBackfilled(i) \/ BackfillFails(i)
               \/ RefreshDue(i) \/ RetryDue(i) \/ ProbeFails(i) \/ SwapFails(i)
        PROVE  LinksStay
    BY <1>1, <1>5 DEF Backfill, MarkBackfilled, BackfillFails, RefreshDue, RetryDue,
       ProbeFails, SwapFails
  <1>6. ASSUME NEW t \in Links, Die(t) PROVE LinksStay
    BY <1>6, DeadDoes, OneLinkStays DEF Die, Relinked, SameLink
  <1>7. ASSUME NEW t \in Links, CloseFires(t) \/ CleanClose(t) PROVE LinksStay
    <2>1. link[t].closes > 0 /\ link' = [link EXCEPT ![t].closes = @ - 1]
      BY <1>7 DEF CloseFires, CleanClose
    <2> QED BY <2>1, ClosesDoes, OneLinkStays DEF Relinked, SameLink
  <1>10. ASSUME NEW t \in Links, Refuse(t) PROVE LinksStay
    BY <1>10, RefusedDoes, OneLinkStays DEF Relinked, SameLink
  <1>8. ASSUME NEW c \in Clouds, DeleteCloud(c) PROVE LinksStay
    BY <1>8, DeletedDoes DEF LinksStay, SameLink
  <1>9. ASSUME Shutdown PROVE LinksStay
    <2> SUFFICES ASSUME NEW t \in Links
                 PROVE  link'[t].cse = link[t].cse /\ link'[t].seq = link[t].seq
      BY DEF LinksStay
    <2> PICK l \in Transport : l = link[t]
      BY DEF TypeInv, TypeOK
    <2> PICK m : m = [l EXCEPT !.state = "closed"]
      OBVIOUS
    <2>1. m.cse = l.cse /\ m.seq = l.seq
      BY DEF Transport
    <2>2. link'[t] = m \/ link'[t] = l
      BY <1>9 DEF Shutdown
    <2> QED BY <2>1, <2>2
  <1> QED BY <1>2, <1>3, <1>4, <1>5, <1>6, <1>7, <1>8, <1>9, <1>10 DEF Quiet, Swapped

LEMMA QuietInStep ==
    ASSUME TypeInv, InStep, Quiet
    PROVE  InStep'
  <1>1. Eased
    BY EasedSteps DEF Quiet
  <1>2. \A i \in Attaches :
           /\ op'[i] = op[i] \/ op'[i].phase \notin {"auth", "connect"}
           /\ rec'[i] = rec[i] \/ rec'[i].phase # "reattach"
           /\ rec[i].phase = "reattach" => rec'[i] = rec[i]
           /\ entry'[i].link = entry[i].link
    BY <1>1 DEF Eased, OpEased, RecEased, EntriesEased, Retimed, NoRec
  <1>3. \A s \in Sessions : map'[s] \in {map[s], None}
    BY <1>1 DEF Eased
  <1>4. FilesEased /\ got' = got /\ spilt \subseteq spilt'
    BY QuietFiles
  <1> QED BY <1>2, <1>3, <1>4, QuietStays, InStepKept

LEMMA AttachFailsInStep ==
    ASSUME TypeInv, InStep, NEW i \in Attaches, AttachFails(i)
    PROVE  InStep'
  <1>0. /\ op[i].phase \in {"auth", "connect"} /\ op' = [op EXCEPT ![i] = NoOp]
        /\ link' = IF op[i].phase = "auth" THEN link ELSE Dropped(op[i].link)
        /\ UNCHANGED <<map, entry, rec, boot, disk, got, spilt>>
    BY DEF AttachFails, inboundVars
  <1>1. LinksStay
    <2>1. CASE op[i].phase = "auth"
      BY <1>0, <2>1 DEF LinksStay
    <2>2. CASE op[i].phase = "connect"
      <3> PICK t : t = op[i].link
        OBVIOUS
      <3>1. /\ t \in Links /\ link[t].state \in {"connecting", "refused"}
            /\ link' = Dropped(t)
        BY <1>0, <2>2 DEF TypeInv, Held, OpHeld, Connecting
      <3> QED BY <3>1, DroppedDoes, OneLinkStays DEF OnlyLink
    <2> QED BY <1>0, <2>1, <2>2
  <1>2. \A j \in Attaches : op'[j] = op[j] \/ op'[j].phase \notin {"auth", "connect"}
    <2>1. NoOp.phase = "none" /\ op \in [Attaches -> Operation]
      BY DEF NoOp, TypeInv, TypeOK
    <2> QED BY <1>0, <2>1
  <1>3. FilesEased /\ spilt \subseteq spilt'
    BY <1>0, SameFiles
  <1> QED BY <1>0, <1>1, <1>2, <1>3, InStepKept


LEMMA PeaceIsSafe ==
    ASSUME CalmInv, Peace
    PROVE  TypeInv /\ Stamps /\ \A s \in Sessions : Alone(s) /\ Mirrored(s)
  BY DEF CalmInv, Peace, Safe

\* A reconnect fails: what its transport gave past the entry's is spilt.
LEMMA ReattachFailsInStep ==
    ASSUME CalmInv, InStep, Peace, NEW i \in Attaches, ReattachFails(i)
    PROVE  InStep' /\ spilt \subseteq spilt'
  <1> PICK t : t = rec[i].link
    OBVIOUS
  <1> PICK u : u = entry[i].link
    OBVIOUS
  <1>0. /\ rec[i].phase = "reattach" /\ Finished(i) /\ link' = Dropped(t)
        /\ entry' = ScheduleRetry(entry, entry[i].session)
        /\ spilt' = spilt \cup Past(t, u)
        /\ UNCHANGED <<map, op, boot, disk, got>> /\ TypeInv
    BY PeaceIsSafe DEF ReattachFails
  <1>1. /\ entry[i].session \in Sessions /\ t \in Links /\ u \in Links
        /\ link[t].state \in {"connecting", "refused"} /\ link[u].state # "none"
        /\ link[t].cse = link[u].cse
    BY <1>0, RecoveringHeld DEF TypeInv, Held, RecHeld, Connecting, Connected
  <1>2. LinksStay
    BY <1>0, <1>1, DroppedDoes, OneLinkStays DEF OnlyLink
  <1>3. spilt \subseteq spilt'
    BY <1>0
  <1>4. \A j \in Attaches : entry'[j].link = entry[j].link
    BY <1>0, <1>1, RetryEased DEF EntriesEased, Retimed
  <1>5. rec'[i].phase = "none" /\ \A j \in Attaches : j # i => rec'[j] = rec[j]
    BY <1>0, FinishedDoes DEF NoRec
  <1>6. \A j \in Attaches : OpFits(j)' /\ RecFits(j)'
    BY <1>0, <1>2, <1>3, <1>5, OpFitsKept, RecFitsKept DEF InStep
  <1>7. ASSUME NEW r \in Sessions PROVE MapFits(r)'
    <2>1. CASE map[r] = i
      <3>1. EntryFits(i)
        BY <2>1, Constants DEF InStep, MapFits
      <3>2. link'[u].cse = link[u].cse /\ link'[u].seq = link[u].seq
        BY <1>1, <1>2 DEF LinksStay
      <3>3. ASSUME NEW k \in link[u].seq + 1 .. got[link[u].cse].now, More(i, k)
            PROVE  <<link[u].cse, k>> \in spilt'
        <4>1. k <= link[t].seq
          BY <3>3 DEF More
        <4>2. link[t].seq \in Nat /\ link[u].seq \in Nat
          BY <1>0, <1>1, Fields, Constants DEF TypeInv
        <4>3. k \in link[u].seq + 1 .. link[t].seq
          BY <4>1, <4>2
        <4> QED BY <4>3, <1>0, <1>1 DEF Past
      <3>4. EntryFits(i)'
        BY <1>0, <1>1, <1>3, <1>4, <3>1, <3>2, <3>3, EntryFitsKept
      <3>5. map'[r] = i
        BY <2>1, <1>0
      <3> QED BY <3>4, <3>5 DEF MapFits, EntryFits, More
    <2>2. CASE map[r] # i /\ map[r] # None
      <3>1. map[r] \in Attaches /\ map'[r] = map[r]
        BY <2>2, <1>0, MapHeld
      <3>2. entry'[map[r]].link = entry[map[r]].link /\ rec'[map[r]] = rec[map[r]]
        BY <2>2, <3>1, <1>4, <1>5
      <3> QED BY <3>1, <3>2, <1>0, <1>2, <1>3, MapFitsKept DEF InStep
    <2>3. CASE map[r] = None
      BY <2>3, <1>0 DEF MapFits
    <2> QED BY <2>1, <2>2, <2>3
  <1>8. \A r \in Sessions : FileFits(r)'
    BY <1>0, SameFiles, FileFitsKept DEF InStep
  <1> QED BY <1>3, <1>6, <1>7, <1>8 DEF InStep

LEMMA BeginInStep ==
    ASSUME CalmInv, InStep, Peace, NEW s \in Sessions,
           BootAttach(s) \/ \E kind \in {"fresh", "upgrade"} : Attach(s, kind)
    PROVE  InStep'
  <1>0. PICK kind \in {"fresh", "upgrade", "existing"}, from \in Worker :
           /\ Begin(s, kind, from)
           /\ from = Pure \/ (from = boot[s] /\ boot[s] # Pure)
           /\ \A r \in Sessions : boot'[r] \in {boot[r], Pure}
    <2>1. boot \in [Sessions -> Worker] /\ boot[s] \in Worker /\ Pure \in Worker
      BY Blanks DEF CalmInv, TypeInv, TypeOK
    <2>2. CASE BootAttach(s)
      <3>1. Begin(s, "existing", boot[s]) /\ boot' = [boot EXCEPT ![s] = Pure] /\ boot[s] # Pure
        BY <2>2 DEF BootAttach
      <3>2. \A r \in Sessions : boot'[r] \in {boot[r], Pure}
        BY <3>1, <2>1
      <3> QED BY <3>1, <3>2, <2>1
    <2>3. CASE \E k \in {"fresh", "upgrade"} : Attach(s, k)
      <3>1. PICK k \in {"fresh", "upgrade"} : Begin(s, k, Pure) /\ boot' = boot
        BY <2>3 DEF Attach
      <3> QED BY <3>1, <2>1
    <2> QED BY <2>2, <2>3
  <1>1. /\ UNCHANGED <<map, entry, rec, link, disk, got, spilt>> /\ TypeInv /\ Stamped(s) /\ Alone(s)
    BY <1>0, PeaceIsSafe DEF Begin, inboundVars, Stamps
  <1>2. PICK n \in Attaches : Begun(n, s, kind, from)
    BY <1>0, <1>1, BegunDoes
  <1>3. LinksStay /\ FilesEased
    BY <1>0, <1>1 DEF LinksStay, FilesEased
  <1>4. IF from.cse = None THEN from.seq = 0 ELSE Fits(from.cse, from.seq)
    <2>1. CASE from = Pure
      BY <2>1 DEF Pure
    <2>2. CASE from = boot[s] /\ boot[s] # Pure
      <3>1. from.cse # None /\ disk[s] = from
        BY <2>2, <1>1 DEF Stamped, Alone
      <3>2. from.seq <= got[from.cse].ever /\ got[from.cse].now = 0
        BY <2>2, <3>1 DEF InStep, FileFits
      <3>3. from.seq \in Nat
        BY Constants DEF Worker
      <3> QED BY <3>1, <3>2, <3>3 DEF Fits
    <2> QED BY <1>0, <2>1, <2>2
  <1>5. ASSUME NEW i \in Attaches PROVE OpFits(i)'
    <2>1. CASE op'[i] = op[i]
      BY <2>1, <1>1, <1>3, OpFitsKept DEF InStep
    <2>2. CASE op'[i] # op[i]
      <3>1. /\ op'[i].cse = from.cse /\ op'[i].seq = from.seq
            /\ op'[i].phase \in {"auth", "history"}
        BY <2>2, <1>2 DEF Begun
      <3> PICK c : c = from.cse
        OBVIOUS
      <3> PICK q : q = from.seq
        OBVIOUS
      <3>2. c # None => Fits(c, q)'
        BY <1>1, <1>4, FitsKept
      <3> QED BY <3>1, <3>2, <1>4 DEF OpFits, Fits
    <2> QED BY <2>1, <2>2
  <1>6. \A i \in Attaches : RecFits(i)'
    BY <1>1, <1>3, RecFitsKept DEF InStep
  <1>7. \A r \in Sessions : MapFits(r)' /\ FileFits(r)'
    BY <1>1, <1>3, MapFitsKept, FileFitsKept DEF InStep
  <1> QED BY <1>5, <1>6, <1>7 DEF InStep

LEMMA OpensInStep ==
    ASSUME TypeInv, Homes, InStep, NEW i \in Attaches, AttachOpens(i)
    PROVE  InStep'
  <1> PICK c : c = IF op[i].cse = None THEN i ELSE op[i].cse
    OBVIOUS
  <1> PICK q : q = op[i].seq
    OBVIOUS
  <1> PICK s : s = op[i].session
    OBVIOUS
  <1>0. /\ op[i].phase = "auth" /\ Opens(s, c, q)
        /\ op' = [op EXCEPT ![i].phase = "connect", ![i].cse = c, ![i].link = links']
        /\ UNCHANGED <<map, entry, rec, disk, boot, got, spilt>>
    BY DEF AttachOpens, Opens, serviceVars, inboundVars
  <1>1. /\ op[i] \in Operation /\ op \in [Attaches -> Operation]
        /\ s \in Sessions /\ c \in Clouds /\ q \in 0 .. MaxInbound /\ i \in Clouds
    BY <1>0, Fields, Constants DEF TypeInv, TypeOK, Held, OpHeld
  <1>2. /\ links' \in Links /\ link[links'].state = "none" /\ OnlyLink(links')
        /\ link'[links'].cse = c /\ link'[links'].seq = q
    BY <1>0, <1>1, NewLinkIs
  <1>3. LinksStay /\ FilesEased
    <2>1. LinksStay
      BY <1>2 DEF LinksStay, OnlyLink
    <2> QED BY <2>1, <1>0, SameFiles
  <1>4. Fits(c, q)
    <2>1. CASE op[i].cse = None
      <3>1. c = i /\ q = 0 /\ Unnamed(i)
        BY <2>1, <1>0 DEF InStep, OpFits, Unnamed
      <3>2. got[i].ever = 0 /\ got[i].now = 0
        BY <3>1, <1>1 DEF Homes
      <3> QED BY <3>1, <3>2 DEF Fits
    <2>2. CASE op[i].cse # None
      BY <2>2, <1>0 DEF InStep, OpFits
    <2> QED BY <2>1, <2>2
  <1> PICK t : t = links'
    OBVIOUS
  <1>5. LinkFits(t)'
    <2>1. Fits(c, q)'
      BY <1>0, <1>4, FitsKept
    <2> QED BY <1>2, <2>1 DEF LinkFits, Fits
  <1> PICK o : o = [op[i] EXCEPT !.phase = "connect", !.cse = c, !.link = links']
    OBVIOUS
  <1>6. o.phase = "connect" /\ o.link = links'
    BY <1>1 DEF Operation
  <1>7. op'[i] = o /\ \A j \in Attaches : j # i => op'[j] = op[j]
    BY <1>0, <1>1
  <1>8. \A j \in Attaches : j # i => OpFits(j)'
    BY <1>0, <1>3, <1>7, OpFitsKept DEF InStep
  <1>9. OpFits(i)'
    <2>1. op'[i].phase = "connect" /\ op'[i].link = t
      BY <1>6, <1>7
    <2> QED BY <2>1, <1>5 DEF OpFits, LinkFits
  <1>10. \A j \in Attaches : RecFits(j)'
    BY <1>0, <1>3, RecFitsKept DEF InStep
  <1>11. \A r \in Sessions : MapFits(r)' /\ FileFits(r)'
    BY <1>0, <1>3, MapFitsKept, FileFitsKept DEF InStep
  <1> QED BY <1>8, <1>9, <1>10, <1>11 DEF InStep


LEMMA LandsInStep ==
    ASSUME TypeInv, InStep, NEW i \in Attaches, AttachLands(i)
    PROVE  InStep'
  <1> PICK s : s = op[i].session
    OBVIOUS
  <1> PICK t : t = op[i].link
    OBVIOUS
  <1>0. /\ op[i].phase = "connect" /\ link' = [link EXCEPT ![t].state = "up"]
        /\ disk' = Persisted(i) /\ UNCHANGED <<rec, boot, got, spilt>>
    BY DEF AttachLands, inboundVars
  <1>1. s \in Sessions /\ t \in Links /\ link[t].state # "none" /\ LinkFits(t)
    BY <1>0 DEF TypeInv, Held, OpHeld, Connecting, InStep, OpFits
  <1>2. Landed(i)
    BY LandedDoes
  <1>3. LinksStay
    BY <1>0, <1>1, UpDoes, OneLinkStays DEF OnlyLink
  <1>4. LinkFits(t)'
    BY <1>0, <1>1, <1>3, SameFit
  <1>5. \A j \in Attaches : OpFits(j)' /\ RecFits(j)'
    <2>1. \A j \in Attaches : op'[j] = op[j] \/ op'[j].phase \notin {"auth", "connect"}
      BY <1>2 DEF Landed, NoOp
    <2> QED BY <2>1, <1>0, <1>3, OpFitsKept, RecFitsKept DEF InStep
  <1>6. ASSUME NEW r \in Sessions PROVE MapFits(r)'
    <2>1. CASE r = s
      <3>1. map'[r] = i /\ entry'[i].link = t
        BY <2>1, <1>2 DEF Landed
      <3>2. EntryFits(i)'
        BY <3>1, <1>1, <1>4, LinkFitsEntry
      <3> QED BY <3>1, <3>2 DEF MapFits, EntryFits, More
    <2>2. CASE r # s /\ map[r] # None
      <3>1. map[r] \in Attaches /\ entry[map[r]].session = r /\ EntryHeld(map[r])
        BY <2>2, MapHeld
      <3>2. map[r] # i
        BY <3>1, <1>0, <1>1, Constants DEF EntryHeld
      <3>3. map'[r] = map[r] /\ entry'[map[r]] = entry[map[r]]
        BY <2>2, <3>1, <3>2, <1>2 DEF Landed
      <3> QED BY <3>3, <1>0, <1>3, MapFitsKept DEF InStep
    <2>3. CASE r # s /\ map[r] = None
      BY <2>3, <1>2 DEF Landed, MapFits
    <2> QED BY <2>1, <2>2, <2>3
  <1>7. ASSUME NEW r \in Sessions PROVE FileFits(r)'
    <2>1. CASE disk'[r] = disk[r]
      BY <2>1, <1>0 DEF FileFits, InStep
    <2>2. CASE disk'[r] # disk[r]
      <3>1. r = s /\ disk'[r].seq = 0 /\ disk'[r].cse = op[i].cse
        BY <2>2, <1>0, PersistedIs
      <3>2. op[i].cse # None => got[op[i].cse].ever \in Nat
        <4>1. op[i].cse \in Clouds \cup {None}
          BY Fields DEF TypeInv
        <4> PICK c \in Clouds \cup {None} : c = op[i].cse
          BY <4>1
        <4>2. got \in [Clouds -> [ever : 0 .. MaxInbound, now : 0 .. MaxInbound]]
          BY DEF TypeInv, TypeOK
        <4> QED BY <4>2, Constants
      <3>3. disk'[r].cse # None => disk'[r].seq <= got'[disk'[r].cse].ever
        BY <3>1, <3>2, <1>0
      <3>4. boot'[r] # Pure => got'[boot'[r].cse].now = 0
        BY <1>0 DEF FileFits, InStep
      <3> QED BY <3>3, <3>4 DEF FileFits
    <2> QED BY <2>1, <2>2
  <1> QED BY <1>5, <1>6, <1>7 DEF InStep

LEMMA ProbeOkInStep ==
    ASSUME CalmInv, InStep, Peace, NEW i \in Attaches, ProbeOk(i)
    PROVE  InStep'
  <1> PICK e : e = entry[i].link
    OBVIOUS
  <1> PICK s : s = entry[i].session
    OBVIOUS
  <1>0. /\ rec[i].phase = "probe" /\ UNCHANGED <<map, entry, op, disk, boot, got, spilt>>
        /\ TypeInv /\ rec \in [Attaches -> Recovery]
    BY PeaceIsSafe DEF ProbeOk, serviceVars, inboundVars, TypeInv, TypeOK
  <1>1. e \in Links /\ s \in Sessions /\ link[e].state # "none"
    BY <1>0, RecoveringHeld DEF Connected
  <1>2. CASE link[e].state = "up"
    <2>1. link' = link /\ rec' = [rec EXCEPT ![i].phase = "swap"]
      BY <1>2 DEF ProbeOk
    <2>2. LinksStay /\ FilesEased
      BY <2>1, <1>0, SameFiles DEF LinksStay
    <2>3. \A j \in Attaches : /\ rec'[j] = rec[j] \/ rec'[j].phase # "reattach"
                              /\ rec[j].phase = "reattach" => rec'[j] = rec[j]
      <3> PICK x \in Recovery : x = rec[i]
        BY <1>0
      <3> PICK y : y = [x EXCEPT !.phase = "swap"]
        OBVIOUS
      <3>1. y.phase = "swap"
        BY DEF Recovery
      <3> QED BY <2>1, <3>1, <1>0
    <2> QED BY <2>2, <2>3, <1>0, InStepKept
  <1>3. CASE link[e].state # "up"
    <2> PICK c : c = link[e].cse
      OBVIOUS
    <2> PICK q : q = link[e].seq
      OBVIOUS
    <2> PICK t : t = links'
      OBVIOUS
    <2> PICK y : y = [phase |-> "reattach", link |-> t]
      OBVIOUS
    <2>1. Opens(s, c, q) /\ rec' = [rec EXCEPT ![i] = y]
      BY <1>3 DEF ProbeOk, Opens, ResumeFrom
    <2>2. c \in Clouds /\ q \in 0 .. MaxInbound
      <3>1. c # None
        BY <1>0, <1>1 DEF TypeInv, Held, LinkHeld
      <3> QED BY <3>1, <1>0, <1>1, Fields DEF TypeInv
    <2>3. /\ t \in Links /\ link[t].state = "none" /\ OnlyLink(t)
          /\ link'[t].cse = c /\ link'[t].seq = q
      BY <2>1, <2>2, <1>0, <1>1, NewLinkIs
    <2>4. LinksStay /\ FilesEased
      <3>1. LinksStay
        BY <2>3 DEF LinksStay, OnlyLink
      <3> QED BY <3>1, <1>0, SameFiles
    <2>5. map[s] = i
      BY <1>0, <1>1, PeaceIsSafe DEF Alone, Recovering
    <2>6. LinkFits(e)
      <3>1. EntryFits(i)
        BY <2>5, <1>1, Constants DEF InStep, MapFits
      <3> QED BY <3>1, <1>0, <1>1, EntryFitsLink
    <2>7. LinkFits(t)'
      <3>1. Fits(c, q)'
        BY <2>6, <1>0, FitsKept DEF LinkFits
      <3> QED BY <2>3, <3>1 DEF LinkFits, Fits
    <2>8. y.phase = "reattach" /\ y.link = t
      OBVIOUS
    <2>9. rec'[i] = y /\ \A j \in Attaches : j # i => rec'[j] = rec[j]
      BY <2>1, <1>0
    <2>10. RecFits(i)'
      BY <2>7, <2>8, <2>9 DEF RecFits, LinkFits
    <2>11. \A j \in Attaches : j # i => RecFits(j)'
      BY <2>4, <2>9, <1>0, RecFitsKept DEF InStep
    <2>12. \A j \in Attaches : OpFits(j)'
      BY <2>4, <1>0, OpFitsKept DEF InStep
    <2>13. ASSUME NEW r \in Sessions PROVE MapFits(r)' /\ FileFits(r)'
      <3>1. map[r] # None => map[r] \in Attaches
        BY <1>0, MapHeld
      <3>2. map[r] # None /\ rec[map[r]].phase = "reattach" => rec'[map[r]] = rec[map[r]]
        BY <3>1, <2>9, <1>0
      <3>3. MapFits(r)'
        BY <3>2, <2>4, <1>0, MapFitsKept DEF InStep, MapFits
      <3> QED BY <3>3, <2>4, <1>0, FileFitsKept DEF InStep
    <2> QED BY <2>10, <2>11, <2>12, <2>13 DEF InStep
  <1> QED BY <1>2, <1>3


LEMMA ReattachedInStep ==
    ASSUME CalmInv, InStep, Peace, NEW i \in Attaches, ReattachOk(i)
    PROVE  InStep'
  <1> PICK s : s = entry[i].session
    OBVIOUS
  <1> PICK t : t = rec[i].link
    OBVIOUS
  <1>0. /\ rec[i].phase = "reattach" /\ link' = [link EXCEPT ![t].state = "up"] /\ Finished(i)
        /\ UNCHANGED <<map, op, disk, boot, got, spilt>> /\ TypeInv
    BY PeaceIsSafe DEF ReattachOk, inboundVars
  <1>1. s \in Sessions /\ t \in Links /\ link[t].state # "none" /\ LinkFits(t)
    BY <1>0, RecoveringHeld DEF TypeInv, Held, RecHeld, Connecting, InStep, RecFits
  <1>2. LinksStay /\ FilesEased
    BY <1>0, <1>1, UpDoes, OneLinkStays, SameFiles DEF OnlyLink
  <1>3. LinkFits(t)'
    BY <1>0, <1>1, <1>2, SameFit
  <1>4. Replaced(i)
    BY <1>0, ReplacedDoes
  <1>5. \A j \in Attaches : OpFits(j)' /\ RecFits(j)'
    <2>1. \A j \in Attaches : rec'[j] = rec[j] \/ rec'[j].phase # "reattach"
      <3>1. rec' = [rec EXCEPT ![i] = NoRec] /\ rec \in [Attaches -> Recovery] /\ NoRec.phase = "none"
        BY <1>0 DEF Finished, NoRec, TypeInv, TypeOK
      <3> QED BY <3>1
    <2> QED BY <2>1, <1>0, <1>2, OpFitsKept, RecFitsKept DEF InStep
  <1>6. ASSUME NEW r \in Sessions PROVE MapFits(r)'
    <2>1. CASE map[r] = i
      <3>1. map'[r] = i /\ entry'[i].link = t
        BY <2>1, <1>0, <1>4 DEF Replaced
      <3>2. EntryFits(i)'
        BY <3>1, <1>1, <1>3, LinkFitsEntry
      <3> QED BY <3>1, <3>2 DEF MapFits, EntryFits, More
    <2>2. CASE map[r] # i /\ map[r] # None
      <3>1. map[r] \in Attaches /\ map'[r] = map[r]
        BY <2>2, <1>0, MapHeld
      <3>2. entry'[map[r]].link = entry[map[r]].link /\ rec'[map[r]] = rec[map[r]]
        BY <2>2, <3>1, <1>0, <1>4, FinishedDoes DEF Replaced
      <3> QED BY <3>1, <3>2, <1>0, <1>2, MapFitsKept DEF InStep
    <2>3. CASE map[r] = None
      BY <2>3, <1>0 DEF MapFits
    <2> QED BY <2>1, <2>2, <2>3
  <1>7. \A r \in Sessions : FileFits(r)'
    BY <1>0, <1>2, FileFitsKept DEF InStep
  <1> QED BY <1>5, <1>6, <1>7 DEF InStep

LEMMA CheckpointInStep ==
    ASSUME CalmInv, InStep, Peace, NEW s \in Sessions, Checkpoint(s)
    PROVE  InStep'
  <1> PICK n : n = link[bridge[s]].seq
    OBVIOUS
  <1>0. /\ disk' = [disk EXCEPT ![s].seq = n] /\ disk \in [Sessions -> Worker] /\ TypeInv
        /\ UNCHANGED <<map, entry, op, rec, boot, link, got, spilt>>
    BY PeaceIsSafe DEF Checkpoint, serviceVars, waitVars, inboundVars, TypeInv, TypeOK
  <1>1. LinksStay
    BY <1>0 DEF LinksStay
  <1>2. \A j \in Attaches : OpFits(j)' /\ RecFits(j)'
    BY <1>0, <1>1, OpFitsKept, RecFitsKept DEF InStep
  <1>3. \A r \in Sessions : MapFits(r)'
    BY <1>0, <1>1, MapFitsKept DEF InStep
  <1> PICK w \in Worker : w = disk[s]
    BY <1>0
  <1> PICK x : x = [w EXCEPT !.seq = n]
    OBVIOUS
  <1>4. x.cse = w.cse /\ x.seq = n
    BY DEF Worker
  <1>5. disk'[s] = x /\ \A r \in Sessions : r # s => disk'[r] = disk[r]
    BY <1>0
  <1>6. n <= got[w.cse].ever
    <2>1. Mirrored(s)
      BY PeaceIsSafe
    <2>2. bridge[s] # None /\ link[bridge[s]].state # "closed"
      BY DEF Checkpoint
    <2>3. map[s] # None /\ bridge[s] = entry[map[s]].link
      BY <2>1, <2>2 DEF Mirrored
    <2>4. w.cse = link[entry[map[s]].link].cse
      BY <2>1, <2>3 DEF Mirrored
    <2>5. EntryFits(map[s])
      BY <2>3 DEF InStep, MapFits
    <2>6. link[entry[map[s]].link].seq <= got[link[entry[map[s]].link].cse].ever
      BY <2>5 DEF EntryFits
    <2> QED BY <2>3, <2>4, <2>6
  <1>7. ASSUME NEW r \in Sessions PROVE FileFits(r)'
    <2>1. FileFits(r)
      BY DEF InStep
    <2>2. CASE r = s
      BY <2>1, <2>2, <1>0, <1>4, <1>5, <1>6 DEF FileFits
    <2>3. CASE r # s
      BY <2>1, <2>3, <1>0, <1>5 DEF FileFits
    <2> QED BY <2>2, <2>3
  <1> QED BY <1>2, <1>3, <1>7 DEF InStep

LEMMA RestartInStep ==
    ASSUME CalmInv, InStep, Peace, Restart
    PROVE  InStep'
  <1>0. /\ op' = [i \in Attaches |-> NoOp] /\ rec' = [i \in Attaches |-> NoRec]
        /\ map' = [s \in Sessions |-> None] /\ boot' = disk /\ disk' = disk
        /\ got' = [c \in Clouds |-> [ever |-> got[c].ever, now |-> 0]]
        /\ TypeInv /\ Stamps
    BY PeaceIsSafe DEF Restart
  <1>1. \A j \in Attaches : OpFits(j)' /\ RecFits(j)'
    BY <1>0 DEF OpFits, RecFits, NoOp, NoRec
  <1>2. \A r \in Sessions : MapFits(r)'
    BY <1>0 DEF MapFits
  <1>3. ASSUME NEW r \in Sessions PROVE FileFits(r)'
    <2>1. FileFits(r) /\ Stamped(r) /\ disk[r].cse \in Clouds \cup {None}
      BY <1>0, Fields DEF InStep, Stamps, TypeInv
    <2>2. \A c \in Clouds : got'[c].ever = got[c].ever /\ got'[c].now = 0
      BY <1>0
    <2>3. disk'[r].cse # None => disk'[r].seq <= got'[disk'[r].cse].ever
      BY <2>1, <2>2, <1>0 DEF FileFits
    <2>4. boot'[r] # Pure => got'[boot'[r].cse].now = 0
      BY <2>1, <2>2, <1>0 DEF Stamped
    <2> QED BY <2>3, <2>4 DEF FileFits
  <1> QED BY <1>1, <1>2, <1>3 DEF InStep

\* What gives a session its messages is in its place in the stream, and it is
\* all that the session has: an attach's transport, a reconnect's, its entry's.
Foremost(t, s) ==
    /\ link[t].session = s /\ LinkFits(t) /\ boot[s] = Pure
    /\ \A i \in Attaches : Attaching(i, s) => op[i].phase = "connect" /\ op[i].link = t
    /\ \A i \in Attaches : entry[i].session = s /\ rec[i].phase = "reattach" => rec[i].link = t
    /\ map[s] # None => \/ entry[map[s]].link = t
                        \/ rec[map[s]].phase = "reattach" /\ rec[map[s]].link = t

LEMMA InboundIsNext ==
    ASSUME CalmInv, Owned, InStep, Peace, NEW t \in Links,
           link[t].state \in {"connecting", "up"}
    PROVE  link[t].session \in Sessions /\ Foremost(t, link[t].session)
  <1> PICK s : s = link[t].session
    OBVIOUS
  <1>0. /\ TypeInv /\ s \in Sessions /\ Alone(s) /\ Mirrored(s)
    BY PeaceIsSafe DEF TypeInv, Held, LinkHeld
  <1>n. None \notin Attaches /\ s # None
    BY <1>0, Constants
  <1>1. ASSUME NEW i \in Attaches, entry[i].session = s, rec[i].phase = "reattach"
        PROVE  map[s] = i
    BY <1>0, <1>1 DEF Alone, Recovering
  <1>2. CASE link[t].state = "up"
    <2>1. map[s] # None /\ entry[map[s]].link = t
      BY <1>0, <1>2 DEF Mirrored
    <2>2. map[s] \in Attaches /\ entry[map[s]].session = s
      BY <1>0, <2>1, MapHeld
    <2>3. \A i \in Attaches : entry[i].session = s => rec[i].phase # "reattach"
      BY <1>0, <1>1, <1>2, <2>1 DEF Mirrored
    <2>4. LinkFits(t)
      <3> PICK i \in Attaches : i = map[s]
        BY <2>2
      <3>1. EntryFits(i) /\ entry[i].link = t /\ rec[i].phase # "reattach"
        BY <1>0, <2>1, <2>2, <2>3 DEF InStep, MapFits
      <3> QED BY <3>1, EntryFitsLink
    <2> QED BY <1>0, <2>1, <2>3, <2>4 DEF Foremost, Alone
  <1>3. CASE link[t].state = "connecting"
    <2> PICK i \in Attaches : Holds(i, t)
      BY <1>3 DEF Owned
    <2>1. CASE op[i].phase = "connect" /\ op[i].link = t
      <3>1. op[i].session = s
        BY <1>0, <2>1 DEF TypeInv, Held, OpHeld, Connecting
      <3>2. map[s] = None /\ boot[s] = Pure
        BY <1>0, <2>1, <3>1 DEF Alone, Attaching
      <3>3. ASSUME NEW j \in Attaches, Attaching(j, s) PROVE j = i
        BY <1>0, <2>1, <3>1, <3>3 DEF Alone, Attaching
      <3>4. \A j \in Attaches : entry[j].session = s => rec[j].phase # "reattach"
        BY <1>1, <1>n, <3>2
      <3>5. LinkFits(t)
        BY <2>1 DEF InStep, OpFits
      <3> QED BY <1>0, <2>1, <3>2, <3>3, <3>4, <3>5 DEF Foremost
    <2>2. CASE rec[i].phase = "reattach" /\ rec[i].link = t
      <3>1. entry[i].session = s
        BY <1>0, <2>2 DEF TypeInv, Held, RecHeld, Connecting
      <3>2. map[s] = i
        BY <1>1, <2>2, <3>1
      <3>3. boot[s] = Pure /\ \A j \in Attaches : ~Attaching(j, s)
        BY <1>0, <1>n, <3>2 DEF Alone
      <3>4. \A j \in Attaches : entry[j].session = s /\ rec[j].phase = "reattach" => j = i
        BY <1>1, <3>2
      <3>5. LinkFits(t)
        BY <2>2 DEF InStep, RecFits
      <3> QED BY <1>0, <2>2, <3>2, <3>3, <3>4, <3>5 DEF Foremost
    <2> QED BY <2>1, <2>2 DEF Holds
  <1> QED BY <1>0, <1>2, <1>3

\* A message comes where the stream was left: it follows the last one given to
\* any process, and if this process has had it, it had it from a transport
\* whose connect failed.
LEMMA InboundInStep ==
    ASSUME CalmInv, Homes, Owned, InStep, Peace, NEW t \in Links, Inbound(t)
    PROVE  InStep' /\ skipped' = skipped /\ (repeated \subseteq spilt => repeated' \subseteq spilt')
  <1> PICK s : s = link[t].session
    OBVIOUS
  <1> PICK c : c = link[t].cse
    OBVIOUS
  <1> PICK q : q = link[t].seq
    OBVIOUS
  <1> PICK n : n = q + 1
    OBVIOUS
  <1>0. /\ link[t].state \in {"connecting", "up"} /\ TypeInv
        /\ UNCHANGED <<map, entry, op, rec, boot, disk, spilt>>
        /\ skipped' = (skipped \/ n > got[c].ever + 1)
        /\ repeated' = IF n <= got[c].now THEN repeated \cup {<<c, n>>} ELSE repeated
    BY PeaceIsSafe DEF Inbound, serviceVars, waitVars
  <1>1. s \in Sessions /\ Foremost(t, s)
    BY <1>0, InboundIsNext
  <1>2. /\ c \in Clouds /\ Relinked(t) /\ link'[t].seq = n /\ link'[t].cse = c
        /\ link'[t].session = s
        /\ \A d \in Clouds : d # c => got'[d] = got[d]
        /\ got'[c].ever = Larger(got[c].ever, n) /\ got'[c].now = Larger(got[c].now, n)
    BY <1>0, InboundDoes DEF Relinked, SameLink
  <1>3. /\ got[c].ever \in Nat /\ got[c].now \in Nat /\ n \in Nat /\ q \in Nat
        /\ n <= got[c].ever + 1
        /\ \A k \in n .. got[c].now : <<c, k>> \in spilt
    <2>1. got \in [Clouds -> [ever : 0 .. MaxInbound, now : 0 .. MaxInbound]]
      BY <1>0 DEF TypeInv, TypeOK
    <2>2. got[c].ever \in Nat /\ got[c].now \in Nat
      BY <2>1, <1>2, Constants
    <2>3. q \in Nat
      BY <1>0, Fields, Constants DEF TypeInv
    <2>4. q <= got[c].ever /\ \A k \in q + 1 .. got[c].now : <<c, k>> \in spilt
      BY <1>1 DEF Foremost, LinkFits, Fits
    <2> QED BY <2>2, <2>3, <2>4
  <1>4. /\ n <= got'[c].ever /\ got[c].ever <= got'[c].ever /\ got'[c].now \in Nat
        /\ \A k \in Nat : k <= got'[c].now => k <= got[c].now \/ k <= n
    BY <1>2, <1>3 DEF Larger
  <1>5. skipped' = skipped /\ (repeated \subseteq spilt => repeated' \subseteq spilt')
    <2>1. ~(n > got[c].ever + 1) /\ (n <= got[c].now => <<c, n>> \in spilt)
      BY <1>3
    <2>2. skipped \in BOOLEAN
      BY <1>0 DEF TypeInv, TypeOK
    <2>3. skipped' = skipped
      BY <1>0, <2>1, <2>2
    <2>4. ASSUME repeated \subseteq spilt PROVE repeated' \subseteq spilt'
      BY <1>0, <2>1, <2>4
    <2> QED BY <2>3, <2>4
  <1>12. LinkFits(t)'
    <2>1. \A k \in n + 1 .. got'[c].now : <<c, k>> \in spilt'
      <3> SUFFICES ASSUME NEW k \in n + 1 .. got'[c].now PROVE <<c, k>> \in spilt'
        OBVIOUS
      <3>1. k \in Nat /\ k >= n + 1 /\ k <= got'[c].now
        BY <1>3, <1>4
      <3>2. k \in n .. got[c].now
        BY <3>1, <1>3, <1>4
      <3> QED BY <3>2, <1>0, <1>3
    <2>2. n <= got'[c].ever
      BY <1>4
    <2>3. link'[t].cse = c /\ link'[t].seq = n
      BY <1>2
    <2> QED BY <2>1, <2>2, <2>3 DEF LinkFits, Fits
  <1>6. ASSUME NEW r \in Sessions, NEW d \in Clouds, r # s, Uses(r, d) PROVE got'[d] = got[d]
    <2>1. Uses(s, c)
      BY DEF Uses
    <2> QED BY <2>1, <1>1, <1>2, <1>6 DEF Homes
  <1>7. ASSUME NEW u \in Links, link[u].session \in Sessions, link[u].session # s,
               link[u].state # "none"
        PROVE  link'[u] = link[u] /\ got'[link[u].cse] = got[link[u].cse]
    <2>1. link'[u] = link[u]
      BY <1>7, <1>2 DEF Relinked
    <2>2. link[u].cse \in Clouds
      BY <1>0, <1>7, Fields DEF TypeInv, Held, LinkHeld
    <2> QED BY <2>1, <2>2, <1>6, <1>7 DEF Uses
  <1>13. ASSUME NEW u \in Links, link[u].session \in Sessions, link[u].session # s,
                link[u].state # "none", LinkFits(u)
         PROVE  LinkFits(u)'
    <2> PICK d : d = link[u].cse
      OBVIOUS
    <2> PICK p : p = link[u].seq
      OBVIOUS
    <2> PICK g : g = got[d]
      OBVIOUS
    <2>1. p <= g.ever /\ \A k \in p + 1 .. g.now : <<d, k>> \in spilt
      BY <1>13 DEF LinkFits, Fits
    <2>2. link'[u].cse = d /\ link'[u].seq = p /\ got'[d] = g
      BY <1>7, <1>13
    <2> QED BY <2>1, <2>2, <1>0 DEF LinkFits, Fits
  <1>8. ASSUME NEW i \in Attaches PROVE OpFits(i)'
    <2>0. OpFits(i) /\ OpHeld(i)
      BY <1>0 DEF InStep, TypeInv, Held
    <2>1. CASE op[i].phase = "auth"
      <3>1. op[i].session \in Sessions /\ op[i].session # s
        BY <2>0, <2>1, <1>1 DEF OpHeld, Foremost, Attaching
      <3>2. CASE op[i].cse = None
        BY <2>0, <2>1, <3>2, <1>0 DEF OpFits
      <3>3. CASE op[i].cse # None
        <4> PICK d : d = op[i].cse
          OBVIOUS
        <4> PICK p : p = op[i].seq
          OBVIOUS
        <4> PICK g : g = got[d]
          OBVIOUS
        <4>1. d \in Clouds
          BY <3>3, <1>0, Fields DEF TypeInv
        <4>2. got'[d] = g
          BY <2>1, <3>1, <4>1, <1>6 DEF Uses
        <4>3. p <= g.ever /\ \A k \in p + 1 .. g.now : <<d, k>> \in spilt
          BY <2>0, <2>1, <3>3 DEF OpFits, Fits
        <4> QED BY <2>1, <3>3, <4>2, <4>3, <1>0 DEF OpFits, Fits
      <3> QED BY <3>2, <3>3
    <2>2. CASE op[i].phase = "connect"
      <3> PICK u : u = op[i].link
        OBVIOUS
      <3>1. /\ u \in Links /\ link[u].session = op[i].session /\ link[u].state # "none"
            /\ LinkFits(u) /\ op[i].session \in Sessions
        BY <2>0, <2>2 DEF OpHeld, Connecting, OpFits
      <3>2. LinkFits(u)'
        <4>1. CASE op[i].session = s
          <5>1. u = t
            BY <2>2, <4>1, <1>1 DEF Foremost, Attaching
          <5> QED BY <5>1, <1>12
        <4>2. CASE op[i].session # s
          BY <3>1, <4>2, <1>13
        <4> QED BY <4>1, <4>2
      <3> QED BY <2>2, <3>2, <1>0 DEF OpFits, LinkFits
    <2>3. CASE op[i].phase \notin {"auth", "connect"}
      BY <2>3, <1>0 DEF OpFits
    <2> QED BY <2>1, <2>2, <2>3
  <1>9. ASSUME NEW i \in Attaches PROVE RecFits(i)'
    <2>1. CASE rec[i].phase = "reattach"
      <3> PICK u : u = rec[i].link
        OBVIOUS
      <3>1. entry[i].session \in Sessions
        BY <2>1, <1>0, RecoveringHeld
      <3>2. u \in Links /\ link[u].session = entry[i].session /\ link[u].state # "none" /\ LinkFits(u)
        BY <2>1, <1>0 DEF TypeInv, Held, RecHeld, Connecting, InStep, RecFits
      <3>3. LinkFits(u)'
        <4>1. CASE entry[i].session = s
          <5>1. u = t
            BY <2>1, <4>1, <1>1 DEF Foremost
          <5> QED BY <5>1, <1>12
        <4>2. CASE entry[i].session # s
          BY <3>1, <3>2, <4>2, <1>13
        <4> QED BY <4>1, <4>2
      <3> QED BY <2>1, <3>3, <1>0 DEF RecFits, LinkFits
    <2>2. CASE rec[i].phase # "reattach"
      BY <2>2, <1>0 DEF RecFits
    <2> QED BY <2>1, <2>2
  <1>10. ASSUME NEW r \in Sessions PROVE MapFits(r)'
    <2>1. CASE map[r] = None
      BY <2>1, <1>0 DEF MapFits
    <2>2. CASE map[r] # None
      <3>1. /\ map[r] \in Attaches /\ entry[map[r]].session = r /\ entry[map[r]].link \in Links
            /\ Connected(link[entry[map[r]].link], r)
        BY <2>2, <1>0, MapHeld
      <3> PICK i \in Attaches, u \in Links : i = map[r] /\ u = entry[i].link
        BY <3>1
      <3>2. EntryFits(i) /\ link[u].session = r /\ link[u].state \in {"up", "dead", "closed"}
        BY <2>2, <3>1 DEF InStep, MapFits, Connected
      <3>3. EntryFits(i)'
        <4>1. CASE r = s /\ u = t
          BY <4>1, <1>0, <1>12, LinkFitsEntry
        <4>2. CASE r = s /\ u # t
          <5>1. rec[i].phase = "reattach" /\ rec[i].link = t
            BY <2>2, <4>2, <1>1 DEF Foremost
          <5>2. link[u].cse = c /\ link'[u] = link[u]
            BY <5>1, <4>2, <1>0, <1>2 DEF TypeInv, Held, RecHeld, Relinked
          <5> PICK p : p = link[u].seq
            OBVIOUS
          <5>3. p \in Nat /\ p <= got[c].ever
                /\ \A k \in p + 1 .. got[c].now : <<c, k>> \in spilt \/ k <= q
            BY <3>2, <5>1, <5>2, <1>0, Fields, Constants DEF EntryFits, More, TypeInv
          <5>4. ASSUME NEW k \in p + 1 .. got'[c].now PROVE <<c, k>> \in spilt' \/ k <= n
            <6>1. k \in Nat /\ k >= p + 1 /\ k <= got'[c].now
              BY <5>3, <1>4
            <6>2. k <= n \/ k \in p + 1 .. got[c].now
              BY <6>1, <5>3, <1>3, <1>4
            <6> QED BY <6>1, <6>2, <5>3, <1>0, <1>3
          <5>5. p <= got'[c].ever
            <6>1. got'[c].ever \in Nat
              BY <1>2, <1>3 DEF Larger
            <6> QED BY <6>1, <5>3, <1>3, <1>4
          <5>6. \A k \in p + 1 .. got'[c].now : <<c, k>> \in spilt' \/ More(i, k)'
            BY <5>1, <5>4, <1>0, <1>2 DEF More
          <5>7. entry'[i].link = u /\ link'[u].cse = c /\ link'[u].seq = p
            BY <5>2, <1>0
          <5> QED BY <5>5, <5>6, <5>7 DEF EntryFits
        <4>3. CASE r # s
          <5>1. link'[u] = link[u] /\ got'[link[u].cse] = got[link[u].cse]
            BY <4>3, <3>2, <1>7
          <5>2. ASSUME NEW k, More(i, k) PROVE More(i, k)'
            <6> PICK v : v = rec[i].link
              OBVIOUS
            <6>1. rec[i].phase = "reattach" /\ k <= link[v].seq
              BY <5>2 DEF More
            <6>2. v \in Links /\ link[v].session = r
              BY <6>1, <3>1, <1>0 DEF TypeInv, Held, RecHeld, Connecting
            <6>3. link'[v] = link[v]
              BY <6>2, <4>3, <1>2 DEF Relinked
            <6> QED BY <6>1, <6>3, <1>0 DEF More
          <5> QED BY <5>1, <5>2, <3>2, <1>0, EntryFitsKept
        <4> QED BY <4>1, <4>2, <4>3
      <3>4. map'[r] = i
        BY <1>0
      <3> QED BY <3>3, <3>4 DEF MapFits, EntryFits, More
    <2> QED BY <2>1, <2>2
  <1>11. ASSUME NEW r \in Sessions PROVE FileFits(r)'
    <2>0. FileFits(r) /\ disk[r].cse \in Clouds \cup {None} /\ disk[r].seq \in Nat
      BY <1>0, Fields, Constants DEF InStep, TypeInv
    <2>1. disk'[r].cse # None => disk'[r].seq <= got'[disk'[r].cse].ever
      <3>1. CASE disk[r].cse = c
        BY <2>0, <3>1, <1>0, <1>2, <1>3, <1>4 DEF FileFits, Larger
      <3>2. CASE disk[r].cse # c /\ disk[r].cse # None
        BY <2>0, <3>2, <1>0, <1>2 DEF FileFits
      <3> QED BY <3>1, <3>2, <1>0
    <2>2. boot'[r] # Pure => got'[boot'[r].cse].now = 0
      <3>1. CASE r = s
        BY <3>1, <1>0, <1>1 DEF Foremost
      <3>2. CASE r # s /\ boot[r] # Pure
        <4>1. boot[r].cse \in Clouds
          <5>1. boot[r].cse # None
            BY <3>2, PeaceIsSafe DEF Stamps, Stamped
          <5> QED BY <5>1, <1>0, Fields DEF TypeInv
        <4>2. got'[boot[r].cse] = got[boot[r].cse]
          BY <3>2, <4>1, <1>6 DEF Uses
        <4> QED BY <3>2, <4>2, <2>0, <1>0 DEF FileFits
      <3> QED BY <3>1, <3>2, <1>0
    <2> QED BY <2>1, <2>2 DEF FileFits
  <1> QED BY <1>5, <1>8, <1>9, <1>10, <1>11 DEF InStep


LEMMA PeaceBefore ==
    ASSUME TypeInv, [Next]_vars, Peace'
    PROVE  Peace
  <1>0. raced \in [Sessions -> BOOLEAN]
    BY DEF TypeInv, TypeOK
  <1>1. CASE raced' = raced
    BY <1>1 DEF Peace
  <1>2. ASSUME NEW s \in Sessions, NEW b, raced' = [raced EXCEPT ![s] = @ \/ b]
        PROVE  Peace
    <2>1. ASSUME NEW r \in Sessions, raced[r] PROVE raced'[r]
      <3>1. CASE r = s
        <4>1. raced'[s] = (raced[s] \/ b)
          BY <1>0, <1>2
        <4> QED BY <2>1, <3>1, <4>1
      <3>2. CASE r # s
        BY <1>0, <1>2, <2>1, <3>2
      <3> QED BY <3>1, <3>2
    <2> QED BY <2>1 DEF Peace
  <1>3. ASSUME NEW s \in Sessions, Overlap(s) PROVE Peace
    BY <1>2, <1>3 DEF Overlap
  <1>4. ASSUME NEW s \in Sessions,
               \/ \E kind \in {"fresh", "upgrade"} : Attach(s, kind)
               \/ Unbridge(s)
               \/ BootGone(s) \/ BootAttach(s) \/ BootFails(s)
               \/ Checkpoint(s)
        PROVE  Peace
    BY <1>1, <1>3, <1>4 DEF Attach, Unbridge, BootGone, BootAttach, BootFails, Checkpoint
  <1>5. ASSUME NEW i \in Attaches, ProbeGone(i) PROVE Peace
    <2>1. entry[i].session \in Sessions
      BY <1>5, RecoveringHeld DEF ProbeGone
    <2> PICK s \in Sessions : s = entry[i].session
      BY <2>1
    <2>2. raced' = [raced EXCEPT ![s] = @ \/ map[s] # i]
      BY <1>5 DEF ProbeGone
    <2> QED BY <2>2, <1>2
  <1>6. ASSUME NEW i \in Attaches,
               \/ AttachOpens(i) \/ AttachFails(i) \/ AttachLands(i)
               \/ Backfill(i) \/ MarkBackfilled(i) \/ BackfillFails(i)
               \/ RefreshDue(i) \/ RetryDue(i)
               \/ ProbeFails(i) \/ ProbeOk(i) \/ Swapped(i) \/ Reattached(i)
        PROVE  Peace
    <2>1. raced' = raced
      BY <1>6 DEF AttachOpens, AttachFails, AttachLands, Backfill, MarkBackfilled, BackfillFails,
         RefreshDue, RetryDue, ProbeFails, ProbeOk, Swapped, SwapOk, SwapFails,
         Reattached, ReattachOk, ReattachFails
    <2> QED BY <2>1, <1>1
  <1>7. ASSUME NEW t \in Links,
               Die(t) \/ Refuse(t) \/ CloseFires(t) \/ CleanClose(t) \/ Inbound(t)
        PROVE  Peace
    <2>1. CASE raced' = raced
      BY <2>1, <1>1
    <2>2. CASE raced' # raced
      <3> PICK s : s = link[t].session
        OBVIOUS
      <3> PICK b : b = (Busy(s) \/ link[t].state = "refused")
        OBVIOUS
      <3>1. /\ link[t].closes > 0 /\ link' = [link EXCEPT ![t].closes = @ - 1]
            /\ raced' = [raced EXCEPT ![s] = @ \/ b]
        BY <1>7, <2>2 DEF Die, Refuse, CloseFires, CleanClose, Inbound
      <3>2. s \in Sessions
        BY <3>1, ClosesDoes
      <3> QED BY <3>1, <3>2, <1>2
    <2> QED BY <2>1, <2>2
  <1>8. ASSUME \/ \E c \in Clouds : DeleteCloud(c)
               \/ Restart \/ UNCHANGED vars
        PROVE  Peace
    BY <1>1, <1>8 DEF DeleteCloud, Restart, vars
  <1>9. ASSUME Shutdown PROVE Peace
    <2>1. raced' = [s \in Sessions |-> raced[s] \/ Busy(s)]
      BY <1>9 DEF Shutdown
    <2>2. \A s \in Sessions : raced[s] => raced'[s]
      BY <2>1
    <2> QED BY <2>2 DEF Peace
  <1> QED BY <1>4, <1>5, <1>6, <1>7, <1>8, <1>9 DEF Next, Probed

-----------------------------------------------------------------------------
(* A transport that is being connected is some operation's.                *)

LEMMA OwnedKept ==
    ASSUME Owned,
           \A t \in Links : link'[t].state = "connecting" =>
              \/ \E i \in Attaches : Holds(i, t)'
              \/ /\ link[t].state = "connecting"
                 /\ \A i \in Attaches : Holds(i, t) => Holds(i, t)'
    PROVE  Owned'
  BY DEF Owned

LEMMA EasedOwned ==
    ASSUME Owned, Eased PROVE Owned'
  <1> SUFFICES ASSUME NEW t \in Links, link'[t].state = "connecting"
               PROVE  /\ link[t].state = "connecting"
                      /\ \A i \in Attaches : Holds(i, t) => Holds(i, t)'
    BY OwnedKept
  <1>1. link[t].state = "connecting"
    BY DEF Eased, SameLink
  <1>2. ASSUME NEW i \in Attaches, Holds(i, t) PROVE Holds(i, t)'
    <2>1. CASE op[i].phase = "connect" /\ op[i].link = t
      <3>1. op'[i] = op[i]
        BY <2>1 DEF Eased, OpEased
      <3> QED BY <2>1, <3>1 DEF Holds
    <2>2. CASE rec[i].phase = "reattach" /\ rec[i].link = t
      <3>1. rec'[i] = rec[i]
        BY <2>2 DEF Eased, RecEased
      <3> QED BY <2>2, <3>1 DEF Holds
    <2> QED BY <1>2, <2>1, <2>2 DEF Holds
  <1> QED BY <1>1, <1>2

\* One transport has left or begun the wait, and one operation has changed.
LEMMA OneOwned ==
    ASSUME Owned, NEW i \in Attaches, NEW t \in Links, OnlyLink(t),
           \A j \in Attaches : j # i => op'[j] = op[j] /\ rec'[j] = rec[j],
           \A u \in Links : u # t /\ Holds(i, u) => Holds(i, u)',
           link'[t].state = "connecting" => Holds(i, t)'
    PROVE  Owned'
  <1> SUFFICES ASSUME NEW u \in Links, link'[u].state = "connecting"
               PROVE  \/ \E j \in Attaches : Holds(j, u)'
                      \/ /\ link[u].state = "connecting"
                         /\ \A j \in Attaches : Holds(j, u) => Holds(j, u)'
    BY OwnedKept
  <1>1. CASE u = t
    BY <1>1
  <1>2. CASE u # t
    <2>1. link[u].state = "connecting"
      BY <1>2 DEF OnlyLink
    <2>2. ASSUME NEW j \in Attaches, Holds(j, u) PROVE Holds(j, u)'
      BY <1>2, <2>2 DEF Holds
    <2> QED BY <2>1, <2>2
  <1> QED BY <1>1, <1>2

LEMMA AttachOwned ==
    ASSUME TypeInv, Owned, NEW i \in Attaches, AttachOpens(i) \/ AttachFails(i) \/ AttachLands(i)
    PROVE  Owned'
  <1>1. op \in [Attaches -> Operation] /\ op[i] \in Operation /\ entry[i].session = None
    BY DEF TypeInv, TypeOK, Held, EntryHeld, AttachOpens, AttachFails, AttachLands
  <1>2. rec[i].phase = "none" /\ rec' = rec
    BY <1>1 DEF TypeInv, Held, EntryHeld, NoRec, AttachOpens, AttachFails, AttachLands, waitVars
  <1>3. CASE AttachOpens(i)
    <2> PICK c : c = IF op[i].cse = None THEN i ELSE op[i].cse
      OBVIOUS
    <2> PICK q : q = op[i].seq
      OBVIOUS
    <2> PICK s : s = op[i].session
      OBVIOUS
    <2>1. /\ op[i].phase = "auth" /\ Opens(s, c, q)
          /\ op' = [op EXCEPT ![i].phase = "connect", ![i].cse = c, ![i].link = links']
      BY <1>3 DEF AttachOpens, Opens
    <2>2. s \in Sessions /\ c \in Clouds /\ q \in 0 .. MaxInbound
      BY <2>1, Fields, Constants DEF TypeInv, Held, OpHeld
    <2>3. links' \in Links /\ OnlyLink(links')
      BY <2>1, <2>2, NewLinkIs
    <2> PICK o : o = [op[i] EXCEPT !.phase = "connect", !.cse = c, !.link = links']
      OBVIOUS
    <2>4. o.phase = "connect" /\ o.link = links'
      BY <1>1 DEF Operation
    <2>5. op'[i] = o /\ \A j \in Attaches : j # i => op'[j] = op[j]
      BY <1>1, <2>1
    <2> PICK t \in Links : t = links'
      BY <2>3
    <2>6. Holds(i, t)'
      BY <2>4, <2>5 DEF Holds
    <2>7. \A u \in Links : ~Holds(i, u)
      BY <1>2, <2>1 DEF Holds
    <2> QED BY <1>2, <2>3, <2>5, <2>6, <2>7, OneOwned
  <1>4. CASE (AttachFails(i) /\ op[i].phase = "connect") \/ AttachLands(i)
    <2> PICK t : t = op[i].link
      OBVIOUS
    <2>1. op[i].phase = "connect" /\ t \in Links /\ link[t].state \in {"connecting", "refused"}
      BY <1>4 DEF AttachLands, TypeInv, Held, OpHeld, Connecting
    <2>2. OnlyLink(t) /\ link'[t].state # "connecting"
      <3>1. CASE AttachFails(i)
        BY <2>1, <3>1, DroppedDoes DEF AttachFails
      <3>2. CASE AttachLands(i)
        BY <2>1, <3>2, UpDoes DEF AttachLands
      <3> QED BY <1>4, <3>1, <3>2
    <2>3. \A j \in Attaches : j # i => op'[j] = op[j]
      BY <1>1, <1>4 DEF AttachFails, AttachLands
    <2>4. \A u \in Links : u # t => ~Holds(i, u)
      BY <1>2, <2>1 DEF Holds
    <2> QED BY <1>2, <2>1, <2>2, <2>3, <2>4, OneOwned
  <1>5. CASE AttachFails(i) /\ op[i].phase = "auth"
    <2>1. link' = link /\ op' = [op EXCEPT ![i] = NoOp]
      BY <1>5 DEF AttachFails
    <2>2. \A j \in Attaches : j # i => op'[j] = op[j]
      BY <1>1, <2>1
    <2>3. \A t \in Links, j \in Attaches : Holds(j, t) => Holds(j, t)'
      BY <1>2, <1>5, <2>2 DEF Holds
    <2> QED BY <2>1, <2>3, OwnedKept
  <1> QED BY <1>3, <1>4, <1>5 DEF AttachFails

LEMMA RecOwned ==
    ASSUME TypeInv, Owned, NEW i \in Attaches,
           Reattached(i) \/ (ProbeOk(i) /\ link[entry[i].link].state # "up")
    PROVE  Owned'
  <1>1. /\ rec[i].phase \in {"probe", "reattach"} /\ op' = op /\ rec \in [Attaches -> Recovery]
        /\ op[i].phase # "connect"
    <2>1. rec[i].phase \in {"probe", "reattach"} /\ op' = op
      BY DEF Reattached, ReattachOk, ReattachFails, ProbeOk
    <2>2. entry[i].session # None
      BY <2>1, RecoveringHeld, Constants
    <2> QED BY <2>1, <2>2 DEF TypeInv, TypeOK, Held, EntryHeld
  <1>2. CASE Reattached(i)
    <2> PICK t : t = rec[i].link
      OBVIOUS
    <2>1. /\ rec[i].phase = "reattach" /\ t \in Links /\ link[t].state \in {"connecting", "refused"}
          /\ Finished(i)
      BY <1>2 DEF Reattached, ReattachOk, ReattachFails, TypeInv, Held, RecHeld, Connecting
    <2>2. OnlyLink(t) /\ link'[t].state # "connecting"
      <3>1. CASE ReattachFails(i)
        BY <2>1, <3>1, DroppedDoes DEF ReattachFails
      <3>2. CASE ReattachOk(i)
        BY <2>1, <3>2, UpDoes DEF ReattachOk
      <3> QED BY <1>2, <3>1, <3>2 DEF Reattached
    <2>3. \A j \in Attaches : j # i => rec'[j] = rec[j]
      BY <2>1, FinishedDoes
    <2>4. \A u \in Links : u # t => ~Holds(i, u)
      BY <1>1 DEF Holds
    <2> QED BY <1>1, <2>1, <2>2, <2>3, <2>4, OneOwned
  <1>3. CASE ProbeOk(i) /\ link[entry[i].link].state # "up"
    <2> PICK e : e = entry[i].link
      OBVIOUS
    <2> PICK s : s = entry[i].session
      OBVIOUS
    <2> PICK c : c = link[e].cse
      OBVIOUS
    <2> PICK q : q = link[e].seq
      OBVIOUS
    <2> PICK t : t = links'
      OBVIOUS
    <2> PICK y : y = [phase |-> "reattach", link |-> t]
      OBVIOUS
    <2>1. rec[i].phase = "probe" /\ Opens(s, c, q) /\ rec' = [rec EXCEPT ![i] = y]
      BY <1>3 DEF ProbeOk, Opens, ResumeFrom
    <2>2. s \in Sessions /\ e \in Links /\ link[e].state # "none"
      BY <2>1, RecoveringHeld DEF Connected
    <2>3. c \in Clouds /\ q \in 0 .. MaxInbound
      <3>1. c # None
        BY <2>2 DEF TypeInv, Held, LinkHeld
      <3> QED BY <3>1, <2>2, Fields DEF TypeInv
    <2>4. t \in Links /\ OnlyLink(t)
      BY <2>1, <2>2, <2>3, NewLinkIs
    <2>5. rec'[i] = y /\ \A j \in Attaches : j # i => rec'[j] = rec[j]
      BY <1>1, <2>1
    <2>6. Holds(i, t)'
      BY <2>5 DEF Holds
    <2>7. \A u \in Links : ~Holds(i, u)
      BY <1>1, <2>1 DEF Holds
    <2> QED BY <1>1, <2>4, <2>5, <2>6, <2>7, OneOwned
  <1> QED BY <1>2, <1>3

LEMMA OwnedStep ==
    ASSUME TypeInv, Owned, [Next]_vars
    PROVE  Owned'
  <1>1. ASSUME NEW s \in Sessions,
               BootAttach(s) \/ \E kind \in {"fresh", "upgrade"} : Attach(s, kind)
        PROVE  Owned'
    <2>1. PICK kind \in {"fresh", "upgrade", "existing"}, from \in Worker : Begin(s, kind, from)
      BY <1>1, Blanks DEF BootAttach, Attach, TypeInv, TypeOK
    <2> PICK n \in Attaches : Begun(n, s, kind, from)
      BY <2>1, BegunDoes
    <2>2. link' = link /\ rec' = rec
      BY <2>1 DEF Begin
    <2>3. \A t \in Links, j \in Attaches : Holds(j, t) => Holds(j, t)'
      BY <2>2 DEF Begun, Holds
    <2> QED BY <2>2, <2>3, OwnedKept
  <1>2. ASSUME NEW i \in Attaches,
               \/ AttachOpens(i) \/ AttachFails(i) \/ AttachLands(i)
               \/ ProbeOk(i) \/ Reattached(i)
        PROVE  Owned'
    <2>1. CASE ProbeOk(i) /\ link[entry[i].link].state = "up"
      BY <2>1, SwapBegins, EasedOwned
    <2> QED BY <1>2, <2>1, AttachOwned, RecOwned
  <1>3. CASE \/ Quiet
             \/ \E s \in Sessions : Checkpoint(s)
             \/ \E t \in Links : Inbound(t)
    BY <1>3, EasedSteps, EasedOwned DEF Quiet
  <1>4. CASE Restart
    <2>1. \A t \in Links : link'[t].state = "none"
      BY <1>4 DEF Restart, NoLink
    <2> QED BY <2>1, OwnedKept
  <1>5. CASE UNCHANGED vars
    <2>1. UNCHANGED <<link, op, rec>>
      BY <1>5 DEF vars, waitVars
    <2> QED BY <2>1, OwnedKept DEF Holds
  <1> QED BY <1>1, <1>2, <1>3, <1>4, <1>5 DEF Next, Quiet, Probed

LEMMA OwnedInit == Init => Owned
  BY DEF Init, NoLink, Owned

-----------------------------------------------------------------------------
(* The streams while no operations of a session have overlapped.           *)

LEMMA StreamedInit == Init => Streamed
  <1> SUFFICES ASSUME Init PROVE InStep /\ ~skipped /\ repeated \subseteq spilt
    BY DEF Streamed
  <1>1. /\ \A i \in Attaches : op[i].phase = "none" /\ rec[i].phase = "none"
        /\ \A s \in Sessions : map[s] = None /\ disk[s].cse = None /\ boot[s] = Pure
        /\ ~skipped /\ repeated = {}
    BY DEF Init, NoOp, NoRec, Pure
  <1> QED BY <1>1 DEF InStep, OpFits, RecFits, MapFits, FileFits

LEMMA StreamedStep ==
    ASSUME CalmInv, Homes, Owned, Streamed, [Next]_vars
    PROVE  Streamed'
  <1> SUFFICES ASSUME Peace' PROVE InStep' /\ ~skipped' /\ repeated' \subseteq spilt'
    BY DEF Streamed
  <1>0. TypeInv
    BY DEF CalmInv
  <1>1. Peace /\ InStep /\ ~skipped /\ repeated \subseteq spilt
    BY <1>0, PeaceBefore DEF Streamed
  <1>2. ASSUME NEW s \in Sessions,
               \/ \E kind \in {"fresh", "upgrade"} : Attach(s, kind)
               \/ BootAttach(s) \/ Checkpoint(s)
        PROVE  InStep' /\ ~skipped' /\ repeated' \subseteq spilt'
    <2>1. InStep'
      BY <1>1, <1>2, BeginInStep, CheckpointInStep
    <2>2. UNCHANGED <<skipped, repeated, spilt>>
      BY <1>2 DEF Attach, BootAttach, Begin, Checkpoint, inboundVars
    <2> QED BY <2>1, <2>2, <1>1
  <1>3. ASSUME NEW i \in Attaches,
               \/ AttachOpens(i) \/ AttachFails(i) \/ AttachLands(i)
               \/ ProbeOk(i) \/ Reattached(i)
        PROVE  InStep' /\ ~skipped' /\ repeated' \subseteq spilt'
    <2>1. InStep'
      BY <1>0, <1>1, <1>3, OpensInStep, AttachFailsInStep, ReattachFailsInStep, LandsInStep,
         ProbeOkInStep, ReattachedInStep DEF Reattached
    <2>2. UNCHANGED <<skipped, repeated>> /\ spilt \subseteq spilt'
      <3>1. CASE ReattachFails(i)
        BY <1>1, <3>1, ReattachFailsInStep DEF ReattachFails
      <3>2. CASE AttachOpens(i) \/ AttachFails(i) \/ AttachLands(i) \/ ProbeOk(i) \/ ReattachOk(i)
        BY <3>2 DEF AttachOpens, AttachFails, AttachLands, ProbeOk, ReattachOk, inboundVars
      <3> QED BY <1>3, <3>1, <3>2 DEF Reattached
    <2> QED BY <2>1, <2>2, <1>1
  <1>4. CASE Quiet
    BY <1>0, <1>1, <1>4, QuietInStep, QuietFiles
  <1>5. ASSUME NEW t \in Links, Inbound(t) PROVE InStep' /\ ~skipped' /\ repeated' \subseteq spilt'
    BY <1>1, <1>5, InboundInStep
  <1>6. CASE Restart
    BY <1>1, <1>6, RestartInStep DEF Restart
  <1>7. CASE UNCHANGED vars
    <2>1. UNCHANGED <<map, entry, op, rec, boot, link, disk, got, skipped, repeated, spilt>>
      BY <1>7 DEF vars, serviceVars, waitVars, inboundVars
    <2>2. LinksStay /\ FilesEased /\ spilt \subseteq spilt'
      BY <2>1, SameFiles DEF LinksStay
    <2> QED BY <2>1, <2>2, <1>0, <1>1, InStepKept
  <1> QED BY <1>2, <1>3, <1>4, <1>5, <1>6, <1>7 DEF Next, Quiet, Probed

\* Across dead transports, retries and restarts no message of the cloud is
\* resumed past before it was given to the session, and none is given twice to
\* one process but those a transport gave whose connect then failed, while no
\* two lifecycle operations of a session have overlapped (bridge-service.ts
\* reconnectInternal, lastSeq; bridge-transport.ts attach, checkpoint;
\* startup-reattach.ts).
THEOREM GivenOnce == Spec => []InboundOnce
  <1>1. Init => CalmInv /\ Homes /\ Owned /\ Streamed
    BY CalmInit, HomesInit, OwnedInit, StreamedInit
  <1>2. (CalmInv /\ Homes /\ Owned /\ Streamed) /\ [Next]_vars
           => (CalmInv /\ Homes /\ Owned /\ Streamed)'
    <2>1. CalmInv => TypeInv
      BY DEF CalmInv
    <2> QED BY <2>1, CalmStep, HomesStep, OwnedStep, StreamedStep
  <1>3. CalmInv /\ Homes /\ Owned /\ Streamed => InboundOnce
    BY DEF Streamed, Peace, InboundOnce
  <1> QED BY <1>1, <1>2, <1>3, PTL DEF Spec

=============================================================================
