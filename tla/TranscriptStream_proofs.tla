----------------------- MODULE TranscriptStream_proofs -----------------------
(***************************************************************************)
(* Theorems about the live transcript, for every set of devices, every     *)
(* ring capacity and every bound; first what the methods of one            *)
(* SessionRuntime preserve and return.                                     *)
(***************************************************************************)
EXTENDS TranscriptStream, SequenceTheorems, FiniteSetTheorems, WellFoundedInduction, TLAPS

(* A runtime in a state its methods leave it in.                           *)
GoodRuntime(r) == r \in Runtime /\ RingIsLogSuffix(r) /\ SettledIsCurrent(r)

(* Folding one delta into a timeline gives a timeline (messages/fold.ts).  *)
LEMMA FoldDeltaType ==
    ASSUME NEW timeline \in Seq(Delta), NEW d \in Delta
    PROVE  FoldDelta(timeline, d) \in Seq(Delta)
  BY DEF FoldDelta

(* A runtime starts out good.                                              *)
LEMMA NewRuntimeGood == GoodRuntime(NewRuntime)
  <1>1. NewRuntime \in Runtime
    BY DEF NewRuntime, Runtime
  <1>2. RingIsLogSuffix(NewRuntime)
    BY BufferCapAssumption DEF NewRuntime, RingIsLogSuffix, HoldsNewest
  <1>3. SettledIsCurrent(NewRuntime)
    BY DEF NewRuntime, SettledIsCurrent
  <1> QED BY <1>1, <1>2, <1>3 DEF GoodRuntime

(* Pushing the next event and evicting the oldest over capacity leaves the *)
(* ring with the newest events of the longer log.                          *)
LEMMA EvictHoldsNewest ==
    ASSUME NEW log \in Seq(Delta), NEW buffer \in Seq(Event),
           HoldsNewest(buffer, log), NEW d \in Delta
    PROVE  LET event == [cursor |-> Len(log) + 1, delta |-> d]
               ring  == Evict(Append(buffer, event))
           IN ring \in Seq(Event) /\ HoldsNewest(ring, Append(log, d))
  <1> DEFINE event == [cursor |-> Len(log) + 1, delta |-> d]
             push  == Append(buffer, event)
             more  == Append(log, d)
  <1>1. event \in Event
    BY DEF Event
  <1>2. /\ push \in Seq(Event) /\ Len(push) = Len(buffer) + 1
        /\ \A i \in 1 .. Len(buffer) : push[i] = buffer[i]
        /\ push[Len(buffer) + 1] = event
    BY <1>1
  <1>3. /\ more \in Seq(Delta) /\ Len(more) = Len(log) + 1
        /\ \A k \in 1 .. Len(log) : more[k] = log[k]
        /\ more[Len(log) + 1] = d
    OBVIOUS
  <1>4. /\ Len(log) \in Nat /\ Len(buffer) \in Nat /\ Len(buffer) <= Len(log)
        /\ Len(buffer) = IF Len(log) < BufferCap THEN Len(log) ELSE BufferCap
    <2>1. Len(buffer) = IF Len(log) < BufferCap THEN Len(log) ELSE BufferCap
      BY DEF HoldsNewest
    <2>2. Len(log) \in Nat /\ Len(buffer) \in Nat
      OBVIOUS
    <2> QED BY <2>1, <2>2, BufferCapAssumption
  <1> HIDE DEF push, more
  <1>5. ASSUME NEW i \in 1 .. Len(push)
        PROVE  LET k == (Len(log) - Len(buffer)) + i
               IN push[i] = [cursor |-> k, delta |-> more[k]]
    <2> DEFINE k == (Len(log) - Len(buffer)) + i
    <2>1. CASE i \in 1 .. Len(buffer)
      <3>1. k \in 1 .. Len(log)
        BY <2>1, <1>4
      <3>2. buffer[i] = [cursor |-> k, delta |-> log[k]]
        BY <2>1 DEF HoldsNewest
      <3> QED BY <2>1, <3>1, <3>2, <1>2, <1>3
    <2>2. CASE i = Len(buffer) + 1
      <3>1. k = Len(log) + 1
        BY <2>2, <1>4
      <3> QED BY <2>2, <3>1, <1>2, <1>3
    <2> QED BY <2>1, <2>2, <1>2, <1>4
  <1>6. CASE Len(push) <= BufferCap
    <2>1. Evict(push) = push
      BY <1>6, <1>2, <1>4, BufferCapAssumption DEF Evict
    <2>2. HoldsNewest(push, more)
      <3>1. Len(push) = IF Len(more) < BufferCap THEN Len(more) ELSE BufferCap
        <4>1. /\ Len(push) = Len(buffer) + 1 /\ Len(more) = Len(log) + 1
          BY <1>2, <1>3
        <4> QED BY <4>1, <1>4, <1>6, BufferCapAssumption
      <3>2. Len(more) - Len(push) = Len(log) - Len(buffer)
        BY <1>2, <1>3, <1>4
      <3> QED BY <3>1, <3>2, <1>5 DEF HoldsNewest
    <2> QED BY <2>1, <2>2, <1>2 DEF push, more
  <1>7. CASE Len(push) > BufferCap
    <2> DEFINE rest == Tail(push)
    <2>1. Evict(push) = rest
      BY <1>7 DEF Evict
    <2>2. /\ rest \in Seq(Event) /\ Len(rest) = Len(push) - 1
          /\ \A i \in 1 .. Len(rest) : rest[i] = push[i + 1]
      BY <1>2, <1>4
    <2> HIDE DEF rest
    <2>3. /\ Len(rest) = BufferCap /\ Len(buffer) = BufferCap
          /\ Len(more) >= BufferCap
      BY <2>2, <1>2, <1>3, <1>4, <1>7, BufferCapAssumption
    <2>4. ASSUME NEW i \in 1 .. Len(rest)
          PROVE  LET k == (Len(more) - Len(rest)) + i
                 IN rest[i] = [cursor |-> k, delta |-> more[k]]
      <3>1. i + 1 \in 1 .. Len(push)
        BY <2>2, <1>2, <1>4
      <3>2. (Len(log) - Len(buffer)) + (i + 1) = (Len(more) - Len(rest)) + i
        BY <2>3, <1>3, <1>4, BufferCapAssumption
      <3> QED BY <2>2, <3>1, <3>2, <1>5
    <2>5. HoldsNewest(rest, more)
      <3>1. Len(more) \in Nat
        BY <1>3
      <3>2. Len(rest) = IF Len(more) < BufferCap THEN Len(more) ELSE BufferCap
        BY <2>3, <3>1, BufferCapAssumption
      <3> QED BY <2>4, <3>2 DEF HoldsNewest
    <2> QED BY <2>1, <2>2, <2>5 DEF push, more
  <1> QED BY <1>6, <1>7, <1>2, <1>4, BufferCapAssumption

(* Whatever the event, addEvent keeps the ring the newest BufferCap events *)
(* of the log under their own cursors and brings the snapshot level with   *)
(* the log, even one that was only just seeded.                            *)
LEMMA AddEventGood ==
    ASSUME NEW r \in Runtime, RingIsLogSuffix(r), NEW d \in Delta
    PROVE  GoodRuntime(AddEvent(r, d))
  <1> DEFINE after == AddEvent(r, d)
  <1>1. /\ r \in Runtime /\ r.log \in Seq(Delta) /\ r.buffer \in Seq(Event)
        /\ HoldsNewest(r.buffer, r.log) /\ r.nextCursor = Len(r.log) + 1
    BY DEF Runtime, RingIsLogSuffix
  <1>2. after.buffer \in Seq(Event) /\ HoldsNewest(after.buffer, after.log)
    BY <1>1, EvictHoldsNewest DEF AddEvent
  <1>3. after.log \in Seq(Delta) /\ after.nextCursor = Len(after.log) + 1
    BY <1>1 DEF AddEvent
  <1>4. after.settled \in Seq(Delta) \cup {NoSettled}
    BY <1>1, FoldDeltaType DEF AddEvent, Runtime
  <1>5. after.settledCursor \in Nat /\ after.nextCursor \in Nat \ {0}
    BY <1>1 DEF AddEvent, Runtime
  <1>6. after \in Runtime
    BY <1>2, <1>3, <1>4, <1>5 DEF AddEvent, Runtime
  <1>7. RingIsLogSuffix(after)
    BY <1>2, <1>3 DEF RingIsLogSuffix
  <1>8. SettledIsCurrent(after)
    BY <1>1 DEF AddEvent, SettledIsCurrent, CurrentCursor, Runtime
  <1> QED BY <1>6, <1>7, <1>8 DEF GoodRuntime

(* Dropping the snapshot and memoizing one read from disk keep a runtime   *)
(* good; seeding one leaves the ring as it was.                            *)
LEMMA SnapshotGood ==
    ASSUME NEW r, GoodRuntime(r), NEW timeline \in Seq(Delta), NEW held \in Nat
    PROVE  /\ GoodRuntime(ClearSettled(r)) /\ GoodRuntime(Memoize(r, timeline, held))
           /\ SeedSettled(r) \in Runtime /\ RingIsLogSuffix(SeedSettled(r))
  <1> DEFINE clear == ClearSettled(r)
             memo  == Memoize(r, timeline, held)
             seed  == SeedSettled(r)
  <1>1. /\ r \in Runtime /\ RingIsLogSuffix(r)
        /\ CurrentCursor(r) \in Nat
    BY DEF GoodRuntime, Runtime, CurrentCursor
  <1>2. clear \in Runtime /\ SettledIsCurrent(clear)
    BY <1>1 DEF ClearSettled, Runtime, SettledIsCurrent
  <1>3. memo \in Runtime /\ SettledIsCurrent(memo)
    BY <1>1 DEF Memoize, Install, Runtime, SettledIsCurrent, CurrentCursor
  <1>4. /\ clear.log = r.log /\ clear.buffer = r.buffer
        /\ clear.nextCursor = r.nextCursor
        /\ memo.log = r.log /\ memo.buffer = r.buffer
        /\ memo.nextCursor = r.nextCursor
        /\ seed.log = r.log /\ seed.buffer = r.buffer
        /\ seed.nextCursor = r.nextCursor
    BY <1>1 DEF ClearSettled, Memoize, SeedSettled, Install, Runtime
  <1>5. seed \in Runtime
    BY <1>1, <<>> \in Seq(Delta) DEF SeedSettled, Install, Runtime
  <1> HIDE DEF clear, memo, seed
  <1>6. RingIsLogSuffix(clear) /\ RingIsLogSuffix(memo) /\ RingIsLogSuffix(seed)
    BY <1>1, <1>4 DEF RingIsLogSuffix
  <1> QED BY <1>2, <1>3, <1>5, <1>6 DEF GoodRuntime, clear, memo, seed

(* A warm resume misses nothing: when bufferOk holds, the replay is every  *)
(* event past the resume cursor, each once, in order, with its own cursor  *)
(* (router.ts bufferOk, session-runtime.ts subscribe).                     *)
THEOREM ReplayComplete ==
    ASSUME NEW r, GoodRuntime(r),
           NEW since \in 0 .. CurrentCursor(r), BufferOk(r, since)
    PROVE  LET replay == Replay(r, since) IN
           /\ replay \in Seq(Event)
           /\ Len(replay) = CurrentCursor(r) - since
           /\ \A k \in 1 .. Len(replay) :
                 replay[k] = [cursor |-> since + k, delta |-> r.log[since + k]]
  <1> DEFINE ring == r.buffer
             log  == r.log
             past == {i \in DOMAIN ring : ring[i].cursor > since}
  <1>1. /\ ring \in Seq(Event) /\ log \in Seq(Delta) /\ HoldsNewest(ring, log)
        /\ r.nextCursor = Len(log) + 1
    BY DEF GoodRuntime, Runtime, RingIsLogSuffix
  <1>2. BufferOk(r, since) /\ CurrentCursor(r) = r.nextCursor - 1
    BY DEF CurrentCursor
  <1>3. IF ring = <<>> THEN since >= r.nextCursor - 1
                       ELSE since + 1 >= ring[1].cursor
    BY <1>2 DEF BufferOk
  <1>4. Replay(r, since)
        = IF past = {} THEN <<>>
          ELSE SubSeq(ring, CHOOSE i \in past : \A j \in past : i <= j, Len(ring))
    BY DEF Replay
  <1> HIDE DEF ring, log
  <1> DEFINE gap == Len(log) - Len(ring)
  <1>5. Len(log) \in Nat /\ Len(ring) \in Nat /\ DOMAIN ring = 1 .. Len(ring)
    BY <1>1
  <1>6. CurrentCursor(r) = Len(log) /\ since \in 0 .. Len(log)
    BY <1>1, <1>2, <1>5
  <1>7. \A i \in 1 .. Len(ring) :
           ring[i] = [cursor |-> gap + i, delta |-> log[gap + i]]
    BY <1>1 DEF HoldsNewest
  <1>8. gap \in Nat
    <2>1. Len(ring) = IF Len(log) < BufferCap THEN Len(log) ELSE BufferCap
      BY <1>1 DEF HoldsNewest
    <2> QED BY <2>1, <1>5, BufferCapAssumption
  <1>gap. Len(log) = gap + Len(ring)
    BY <1>5
  <1> HIDE DEF gap
  <1>9. since >= gap
    <2>1. CASE ring = <<>>
      BY <2>1, <1>1, <1>3, <1>5, <1>6, <1>8, <1>gap
    <2>2. CASE ring # <<>>
      <3>1. 1 \in 1 .. Len(ring)
        BY <2>2, <1>1, <1>5
      <3>2. ring[1] = [cursor |-> gap + 1, delta |-> log[gap + 1]]
        BY <3>1, <1>7
      <3> QED BY <2>2, <3>2, <1>3, <1>6, <1>8
    <2> QED BY <2>1, <2>2
  <1>10. past = {i \in 1 .. Len(ring) : gap + i > since}
    BY <1>5, <1>7
  <1> HIDE DEF past
  <1>11. CASE since = Len(log)
    <2>1. past = {}
      BY <1>10, <1>11, <1>5, <1>8, <1>gap
    <2>2. Replay(r, since) = <<>>
      BY <2>1, <1>4
    <2> QED BY <2>2, <1>6, <1>11
  <1>12. CASE since < Len(log)
    <2> DEFINE start == (since - gap) + 1
    <2>1. start \in 1 .. Len(ring) /\ gap + start = since + 1
      BY <1>12, <1>5, <1>6, <1>8, <1>9, <1>gap
    <2>2. start \in past /\ \A j \in past : start <= j
      BY <2>1, <1>10, <1>5, <1>6, <1>8
    <2>3. \A i \in past : (\A j \in past : i <= j) => i = start
      <3> SUFFICES ASSUME NEW i \in past, \A j \in past : i <= j
                   PROVE  i = start
        OBVIOUS
      <3>1. i \in Nat /\ start \in Nat
        BY <2>1, <1>10, <1>5
      <3>2. i <= start /\ start <= i
        BY <2>2
      <3> QED BY <3>1, <3>2
    <2>4. (CHOOSE i \in past : \A j \in past : i <= j) = start
      BY <2>2, <2>3
    <2>5. Replay(r, since) = SubSeq(ring, start, Len(ring))
      BY <2>2, <2>4, <1>4
    <2>6. \A i \in start .. Len(ring) : ring[i] \in Event
      BY <2>1, <1>1, <1>5
    <2> DEFINE replay == SubSeq(ring, start, Len(ring))
    <2>7. /\ replay \in Seq(Event)
          /\ Len(replay) = (Len(ring) - start) + 1
          /\ \A k \in 1 .. Len(replay) : replay[k] = ring[(start + k) - 1]
      BY <2>1, <2>6, <1>5, SubSeqProperties
    <2>8. Len(replay) = Len(log) - since
      BY <2>1, <2>7, <1>5, <1>6, <1>8, <1>gap
    <2>rest. start \in Nat /\ Len(replay) = (Len(ring) - start) + 1
      BY <2>1, <2>7, <1>5
    <2> HIDE DEF start, replay
    <2>9. ASSUME NEW k \in 1 .. Len(replay)
          PROVE  replay[k] = [cursor |-> since + k, delta |-> log[since + k]]
      <3>1. /\ (start + k) - 1 \in 1 .. Len(ring)
            /\ gap + ((start + k) - 1) = since + k
        BY <2>1, <2>rest, <1>5, <1>6, <1>8
      <3> QED BY <3>1, <2>7, <1>7
    <2> QED BY <2>5, <2>7, <2>8, <2>9, <1>6 DEF log, start, replay
  <1> QED BY <1>11, <1>12, <1>5, <1>6

(* Whatever cursor it starts after, a replay is the tail of the log from   *)
(* some event m on; m is the next one when the ring still holds it.        *)
LEMMA ReplayIsTail ==
    ASSUME NEW r, GoodRuntime(r), NEW since \in 0 .. CurrentCursor(r)
    PROVE  \E m \in since + 1 .. CurrentCursor(r) + 1 :
              /\ BufferOk(r, since) => m = since + 1
              /\ Replay(r, since) \in Seq(Event)
              /\ Len(Replay(r, since)) = (CurrentCursor(r) + 1) - m
              /\ \A k \in 1 .. Len(Replay(r, since)) :
                    /\ Replay(r, since)[k].cursor = (m - 1) + k
                    /\ Replay(r, since)[k].delta = r.log[(m - 1) + k]
  <1> DEFINE ring == r.buffer
             log  == r.log
             gap  == Len(log) - Len(ring)
             past == {i \in DOMAIN ring : ring[i].cursor > since}
  <1>0. CurrentCursor(r) \in Nat
    BY DEF GoodRuntime, Runtime, CurrentCursor
  <1>1. CASE BufferOk(r, since)
    <2>1. since + 1 \in since + 1 .. CurrentCursor(r) + 1 /\ (since + 1) - 1 = since
          /\ (CurrentCursor(r) + 1) - (since + 1) = CurrentCursor(r) - since
      BY <1>0
    <2>2. \A k \in 1 .. Len(Replay(r, since)) :
             /\ Replay(r, since)[k].cursor = since + k
             /\ Replay(r, since)[k].delta = r.log[since + k]
      <3> TAKE k \in 1 .. Len(Replay(r, since))
      <3>1. Replay(r, since)[k] = [cursor |-> since + k, delta |-> r.log[since + k]]
        BY <1>1, ReplayComplete
      <3> QED BY <3>1
    <2> QED BY <1>1, <2>1, <2>2, ReplayComplete
  <1>2. CASE ~BufferOk(r, since)
    <2>1. /\ ring \in Seq(Event) /\ log \in Seq(Delta) /\ HoldsNewest(ring, log)
          /\ r.nextCursor = Len(log) + 1
      BY DEF GoodRuntime, Runtime, RingIsLogSuffix
    <2>2. ring # <<>> /\ since + 1 < ring[1].cursor
      <3>1. ring = <<>> => since >= CurrentCursor(r)
        BY <2>1, <1>0, BufferCapAssumption DEF HoldsNewest, CurrentCursor
      <3>2. ring # <<>>
        BY <3>1, <1>2, Zenon DEF BufferOk
      <3>3. ring[1].cursor \in Nat
        <4>1. 1 \in DOMAIN ring
          BY <3>2, <2>1
        <4>2. ring[1] \in Event
          BY <4>1, <2>1
        <4> QED BY <4>2 DEF Event
      <3>4. ~(since + 1 >= ring[1].cursor)
        BY <1>2, <3>2 DEF BufferOk
      <3> QED BY <3>2, <3>3, <3>4, <1>0
    <2>3. Replay(r, since)
          = IF past = {} THEN <<>>
            ELSE SubSeq(ring, CHOOSE i \in past : \A j \in past : i <= j, Len(ring))
      BY DEF Replay
    <2>cur. CurrentCursor(r) = Len(log)
      BY <2>1 DEF CurrentCursor
    <2> HIDE DEF ring, log
    <2>4. Len(log) \in Nat /\ Len(ring) \in Nat \ {0} /\ DOMAIN ring = 1 .. Len(ring)
      BY <2>1, <2>2
    <2>5. \A i \in 1 .. Len(ring) :
             ring[i] = [cursor |-> gap + i, delta |-> log[gap + i]]
      BY <2>1 DEF HoldsNewest
    <2>6. gap \in Nat /\ Len(log) = gap + Len(ring)
      <3>1. Len(ring) = IF Len(log) < BufferCap THEN Len(log) ELSE BufferCap
        BY <2>1 DEF HoldsNewest
      <3> QED BY <3>1, <2>4, BufferCapAssumption
    <2> HIDE DEF gap
    <2>7. ring[1].cursor = gap + 1 /\ since < gap
      BY <2>2, <2>4, <2>5, <2>6
    <2>8. past = 1 .. Len(ring)
      BY <2>4, <2>5, <2>6, <2>7
    <2> HIDE DEF past
    <2>9. (CHOOSE i \in past : \A j \in past : i <= j) = 1
      <3>1. 1 \in past /\ \A j \in past : 1 <= j
        BY <2>4, <2>8
      <3>2. \A i \in past : (\A j \in past : i <= j) => i = 1
        BY <3>1, <2>4, <2>8
      <3> QED BY <3>1, <3>2
    <2>10. Replay(r, since) = ring
      <3>1. SubSeq(ring, 1, Len(ring)) = ring
        BY <2>1
      <3>2. past # {}
        BY <2>4, <2>8
      <3> QED BY <3>1, <3>2, <2>3, <2>9
    <2>11. gap + 1 \in since + 1 .. CurrentCursor(r) + 1 /\ (gap + 1) - 1 = gap
           /\ Len(ring) = (CurrentCursor(r) + 1) - (gap + 1)
      BY <2>4, <2>6, <2>7, <2>cur
    <2>12. \A k \in 1 .. Len(ring) :
              ring[k].cursor = gap + k /\ ring[k].delta = log[gap + k]
      <3> TAKE k \in 1 .. Len(ring)
      <3>1. ring[k] = [cursor |-> gap + k, delta |-> log[gap + k]]
        BY <2>5
      <3> QED BY <3>1
    <2> QED BY <2>1, <2>10, <2>11, <2>12, <1>2 DEF log
  <1> QED BY <1>1, <1>2

-----------------------------------------------------------------------------
(* What FoldDeltas computes.  It is recursive, and a fact about every      *)
(* sequence is obtained from the least prefix that would refute it.        *)
(* Every non-empty set of numbers has a least one.                         *)
LEMMA LeastNumber ==
    ASSUME NEW T, T \subseteq Nat, T # {}
    PROVE  \E n \in T : \A k \in T : n <= k
  <1> DEFINE less == {pair \in Nat \X Nat : pair[1] < pair[2]}
  <1>1. IsWellFoundedOn(less, Nat)
    BY NatLessThanWellFounded, Zenon DEF OpToRel
  <1> HIDE DEF less
  <1>2. PICK n \in T : \A k \in T : <<k, n>> \notin less
    BY <1>1, WFMin, Zenon
  <1>3. \A k \in T : ~(k < n)
    BY <1>2 DEF less
  <1> QED BY <1>3

(* g holds the fold of every prefix of ds up to the n-th delta.            *)
Folds(g, timeline, ds, n) ==
    /\ g \in [0 .. n -> Seq(Delta)]
    /\ g[0] = timeline
    /\ \A i \in 1 .. n : g[i] = FoldDelta(g[i - 1], ds[i])

LEMMA FoldExists ==
    ASSUME NEW timeline \in Seq(Delta), NEW ds \in Seq(Delta)
    PROVE  \A n \in 0 .. Len(ds) : \E g : Folds(g, timeline, ds, n)
  <1> DEFINE T == {n \in 0 .. Len(ds) : ~ \E g : Folds(g, timeline, ds, n)}
  <1> SUFFICES ASSUME T # {} PROVE FALSE
    OBVIOUS
  <1>1. PICK n \in T : \A k \in T : n <= k
    <2>1. T \subseteq Nat
      OBVIOUS
    <2> HIDE DEF T
    <2> QED BY <2>1, LeastNumber
  <1>2. n \in 0 .. Len(ds) /\ ~ \E g : Folds(g, timeline, ds, n)
    OBVIOUS
  <1>3. CASE n = 0
    <2>1. Folds([i \in 0 .. 0 |-> timeline], timeline, ds, 0)
      BY DEF Folds
    <2> QED BY <2>1, <1>2, <1>3
  <1>4. CASE n # 0
    <2>1. n - 1 \in 0 .. Len(ds) /\ n - 1 \notin T /\ n \in 1 .. Len(ds)
      BY <1>1, <1>2, <1>4
    <2>2. PICK g : Folds(g, timeline, ds, n - 1)
      BY <2>1
    <2> DEFINE h == [i \in 0 .. n |-> IF i = n THEN FoldDelta(g[n - 1], ds[n]) ELSE g[i]]
    <2>3. /\ g \in [0 .. n - 1 -> Seq(Delta)] /\ g[0] = timeline
          /\ \A i \in 1 .. n - 1 : g[i] = FoldDelta(g[i - 1], ds[i])
      BY <2>2 DEF Folds
    <2>4. ds[n] \in Delta /\ g[n - 1] \in Seq(Delta)
      BY <2>1, <2>3
    <2>5. FoldDelta(g[n - 1], ds[n]) \in Seq(Delta)
      BY <2>4, FoldDeltaType
    <2>6. h \in [0 .. n -> Seq(Delta)] /\ h[0] = timeline
      BY <2>1, <2>3, <2>5
    <2>7. \A i \in 1 .. n : h[i] = FoldDelta(h[i - 1], ds[i])
      BY <2>1, <2>3
    <2> QED BY <2>6, <2>7, <1>2 DEF Folds
  <1> QED BY <1>3, <1>4

(* Folds of two sequences agree as long as the sequences do.               *)
LEMMA FoldsAgree ==
    ASSUME NEW timeline, NEW ds, NEW es, NEW g, NEW h, NEW n \in Nat, NEW m \in Nat,
           n <= m, Folds(g, timeline, ds, n), Folds(h, timeline, es, m),
           \A i \in 1 .. n : ds[i] = es[i]
    PROVE  \A i \in 0 .. n : g[i] = h[i]
  <1> DEFINE T == {i \in 0 .. n : g[i] # h[i]}
  <1> SUFFICES ASSUME T # {} PROVE FALSE
    OBVIOUS
  <1>1. PICK i \in T : \A k \in T : i <= k
    <2>1. T \subseteq Nat
      OBVIOUS
    <2> HIDE DEF T
    <2> QED BY <2>1, LeastNumber
  <1>2. i # 0
    BY <1>1 DEF Folds
  <1>3. i \in 1 .. n /\ i - 1 \in 0 .. n /\ i - 1 \notin T
    BY <1>1, <1>2
  <1>4. g[i] = FoldDelta(g[i - 1], ds[i]) /\ h[i] = FoldDelta(h[i - 1], es[i])
    BY <1>3 DEF Folds
  <1>5. g[i] = h[i]
    BY <1>3, <1>4
  <1> QED BY <1>5

(* FoldDeltas is the last of the folds.                                    *)
LEMMA FoldDeltasIsLast ==
    ASSUME NEW timeline \in Seq(Delta), NEW ds \in Seq(Delta)
    PROVE  \E g : Folds(g, timeline, ds, Len(ds)) /\ FoldDeltas(timeline, ds) = g[Len(ds)]
  <1>1. Len(ds) \in Nat
    OBVIOUS
  <1>2. PICK g : Folds(g, timeline, ds, Len(ds))
    BY <1>1, FoldExists
  <1>3. g = [i \in 0 .. Len(ds) |->
               IF i = 0 THEN timeline ELSE FoldDelta(g[i - 1], ds[i])]
    BY <1>1, <1>2 DEF Folds
  <1>4. PICK fold :
          /\ fold = [i \in 0 .. Len(ds) |->
                       IF i = 0 THEN timeline ELSE FoldDelta(fold[i - 1], ds[i])]
          /\ FoldDeltas(timeline, ds) = fold[Len(ds)]
    BY <1>3, Zenon DEF FoldDeltas
  <1> DEFINE T == {i \in 0 .. Len(ds) : g[i] # fold[i]}
  <1>5. ASSUME T # {} PROVE FALSE
    <2>1. PICK i \in T : \A k \in T : i <= k
      <3>1. T \subseteq Nat
        OBVIOUS
      <3> HIDE DEF T
      <3> QED BY <3>1, <1>5, LeastNumber
    <2>2. fold[0] = timeline /\ g[0] = timeline /\ 0 \in 0 .. Len(ds)
      BY <1>1, <1>3, <1>4
    <2>3. i \in 1 .. Len(ds) /\ i - 1 \in 0 .. Len(ds)
      BY <2>1, <2>2
    <2>4. i - 1 \notin T
      BY <2>1, <2>3
    <2>5. g[i] = FoldDelta(g[i - 1], ds[i]) /\ fold[i] = FoldDelta(fold[i - 1], ds[i])
      BY <2>3, <1>3, <1>4
    <2> QED BY <2>1, <2>3, <2>4, <2>5
  <1>6. g[Len(ds)] = fold[Len(ds)]
    BY <1>1, <1>5
  <1> QED BY <1>2, <1>4, <1>6

(* One more delta is one more fold: a snapshot that follows the events one *)
(* by one is the fold of all of them (messages/fold.ts, addEvent).         *)
THEOREM FoldDeltasAppend ==
    ASSUME NEW timeline \in Seq(Delta), NEW ds \in Seq(Delta), NEW d \in Delta
    PROVE  /\ FoldDeltas(timeline, <<>>) = timeline
           /\ FoldDeltas(timeline, ds) \in Seq(Delta)
           /\ FoldDeltas(timeline, Append(ds, d)) = FoldDelta(FoldDeltas(timeline, ds), d)
  <1>1. FoldDeltas(timeline, <<>>) = timeline
    <2>1. <<>> \in Seq(Delta) /\ Len(<<>>) = 0
      OBVIOUS
    <2>2. PICK g : Folds(g, timeline, <<>>, 0) /\ FoldDeltas(timeline, <<>>) = g[0]
      BY <2>1, FoldDeltasIsLast
    <2> QED BY <2>2 DEF Folds
  <1> DEFINE n == Len(ds)
  <1>2. /\ n \in Nat /\ Append(ds, d) \in Seq(Delta)
        /\ Len(Append(ds, d)) = n + 1 /\ Append(ds, d)[n + 1] = d
        /\ \A i \in 1 .. n : ds[i] = Append(ds, d)[i]
    OBVIOUS
  <1>3. PICK g : Folds(g, timeline, ds, n) /\ FoldDeltas(timeline, ds) = g[n]
    BY FoldDeltasIsLast
  <1>4. PICK h : /\ Folds(h, timeline, Append(ds, d), n + 1)
                 /\ FoldDeltas(timeline, Append(ds, d)) = h[n + 1]
    BY <1>2, FoldDeltasIsLast
  <1>5. g[n] = h[n]
    <2>1. n <= n + 1 /\ n + 1 \in Nat /\ n \in 0 .. n
      BY <1>2
    <2>2. \A es, m : /\ m \in Nat /\ n <= m /\ Folds(h, timeline, es, m)
                     /\ \A i \in 1 .. n : ds[i] = es[i]
                     => \A i \in 0 .. n : g[i] = h[i]
      <3> HIDE DEF n
      <3> QED BY <1>2, <1>3, FoldsAgree
    <2> QED BY <2>1, <2>2, <1>2, <1>4
  <1>6. h[n + 1] = FoldDelta(h[n], d)
    BY <1>2, <1>4 DEF Folds
  <1>7. g[n] \in Seq(Delta)
    BY <1>2, <1>3 DEF Folds
  <1> QED BY <1>1, <1>3, <1>4, <1>5, <1>6, <1>7

(* A view that takes up the next event of the log is the view of a log     *)
(* one event longer; before its first event it is its base.                *)
LEMMA ViewGrows ==
    ASSUME NEW base \in Seq(Delta), NEW log \in Seq(Delta), NEW floor \in Nat
    PROVE  /\ FoldDeltas(base, SubSeq(log, floor + 1, floor)) = base
           /\ \A n \in floor .. Len(log) - 1 :
                 FoldDeltas(base, SubSeq(log, floor + 1, n + 1))
                 = FoldDelta(FoldDeltas(base, SubSeq(log, floor + 1, n)), log[n + 1])
  <1>1. SubSeq(log, floor + 1, floor) = <<>> /\ Marker \in Delta /\ <<>> \in Seq(Delta)
    BY DEF Marker, Delta
  <1>2. FoldDeltas(base, <<>>) = base
    BY <1>1, FoldDeltasAppend
  <1>3. ASSUME NEW n \in floor .. Len(log) - 1
        PROVE  FoldDeltas(base, SubSeq(log, floor + 1, n + 1))
               = FoldDelta(FoldDeltas(base, SubSeq(log, floor + 1, n)), log[n + 1])
    <2> DEFINE ds == SubSeq(log, floor + 1, n)
               d  == log[n + 1]
    <2>1. d \in Delta /\ ds \in Seq(Delta)
      OBVIOUS
    <2>2. SubSeq(log, floor + 1, n + 1) = Append(ds, d)
      OBVIOUS
    <2> HIDE DEF ds, d
    <2>3. FoldDeltas(base, Append(ds, d)) = FoldDelta(FoldDeltas(base, ds), d)
      BY <2>1, FoldDeltasAppend
    <2> QED BY <2>2, <2>3 DEF ds, d
  <1> QED BY <1>1, <1>2, <1>3

(* What the log held stays where it was.                                   *)
LEMMA LogPrefix ==
    ASSUME NEW log \in Seq(Delta), NEW d \in Delta, NEW floor \in Nat,
           NEW n \in floor .. Len(log)
    PROVE  SubSeq(Append(log, d), floor + 1, n) = SubSeq(log, floor + 1, n)
  OBVIOUS

(* The deltas the steps emit are deltas.                                   *)
LEMMA DeltasTyped ==
    /\ Marker \in Delta
    /\ \A n \in Nat : AppendItem(n) \in Delta /\ PatchItem(n) \in Delta
  BY DEF Marker, AppendItem, PatchItem, Delta

(* A snapshot that lacks certain events lacks the same ones after the next *)
(* event: the continuous fold adds it and nothing else (addEvent).         *)
LEMMA AddEventHolds ==
    ASSUME NEW r \in Runtime, RingIsLogSuffix(r), NEW d \in Delta,
           NEW found \in Seq(Delta), SettledHolds(r, found)
    PROVE  SettledHolds(AddEvent(r, d), found)
  <1> DEFINE after == AddEvent(r, d)
             base  == FoldDeltas(found, SubSeq(r.log, 1, r.held))
             n     == Len(r.log)
  <1>1. /\ after.log = Append(r.log, d) /\ after.nextCursor = r.nextCursor + 1
        /\ after.held = r.held /\ after.start = r.start
        /\ after.settled = IF r.settled = NoSettled THEN NoSettled
                           ELSE FoldDelta(r.settled, d)
    BY DEF AddEvent
  <1>2. SUFFICES ASSUME after.settled # NoSettled
                 PROVE  SettledHolds(after, found)
    BY DEF SettledHolds
  <1>3. /\ r.settled # NoSettled /\ after.settled = FoldDelta(r.settled, d)
        /\ r.held <= r.start /\ r.start <= CurrentCursor(r)
        /\ r.settled = FoldDeltas(base, SubSeq(r.log, r.start + 1, n))
    BY <1>1, <1>2 DEF SettledHolds
  <1>4. /\ r.log \in Seq(Delta) /\ r.held \in Nat /\ r.start \in Nat /\ n \in Nat
        /\ r.nextCursor = n + 1 /\ r.held <= n /\ r.start <= n
    BY <1>3 DEF Runtime, RingIsLogSuffix, CurrentCursor
  <1>5. after.log \in Seq(Delta) /\ Len(after.log) = n + 1 /\ after.log[n + 1] = d
    BY <1>1, <1>4
  <1>6. /\ SubSeq(after.log, 1, r.held) = SubSeq(r.log, 1, r.held)
        /\ SubSeq(after.log, r.start + 1, n) = SubSeq(r.log, r.start + 1, n)
    <2>1. PICK log \in Seq(Delta) : log = r.log
      BY <1>4
    <2>2. PICK held \in Nat : held = r.held
      BY <1>4
    <2>3. PICK start \in Nat : start = r.start
      BY <1>4
    <2>4. /\ held \in 0 .. Len(log) /\ n \in start .. Len(log) /\ 0 \in Nat
      BY <1>4, <2>1, <2>2, <2>3
    <2>5. SubSeq(Append(log, d), 0 + 1, held) = SubSeq(log, 0 + 1, held)
      BY <2>4, LogPrefix
    <2>6. SubSeq(Append(log, d), start + 1, n) = SubSeq(log, start + 1, n)
      <3> HIDE DEF n
      <3> QED BY <2>4, LogPrefix
    <2>7. 0 + 1 = 1
      OBVIOUS
    <2> HIDE DEF after, n
    <2> QED BY <1>1, <2>1, <2>2, <2>3, <2>5, <2>6, <2>7
  <1>7. base \in Seq(Delta)
    <2>1. SubSeq(r.log, 1, r.held) \in Seq(Delta)
      BY <1>4
    <2> QED BY <2>1, FoldDeltasAppend, DeltasTyped
  <1> HIDE DEF base, after, n
  <1>8. FoldDeltas(base, SubSeq(after.log, r.start + 1, n + 1))
        = FoldDelta(FoldDeltas(base, SubSeq(after.log, r.start + 1, n)), after.log[n + 1])
    <2>1. PICK k \in Nat : k = r.start
      BY <1>4
    <2>2. PICK log \in Seq(Delta) : log = after.log
      BY <1>5
    <2>3. n \in k .. Len(log) - 1
      BY <1>4, <1>5, <2>1, <2>2
    <2>4. FoldDeltas(base, SubSeq(log, k + 1, n + 1))
          = FoldDelta(FoldDeltas(base, SubSeq(log, k + 1, n)), log[n + 1])
      BY <2>3, <1>7, ViewGrows
    <2> QED BY <2>1, <2>2, <2>4
  <1>9. after.settled = FoldDeltas(FoldDeltas(found, SubSeq(after.log, 1, after.held)),
                                   SubSeq(after.log, after.start + 1, Len(after.log)))
    BY <1>1, <1>3, <1>5, <1>6, <1>8 DEF base
  <1>10. after.held <= after.start /\ after.start <= CurrentCursor(after)
    BY <1>1, <1>3, <1>4 DEF CurrentCursor
  <1> QED BY <1>9, <1>10 DEF SettledHolds, after

(* A memoized read lacks exactly the events that came before it returned   *)
(* and were not on disk when it read; one that lacks none is the whole.    *)
LEMMA InstallHolds ==
    ASSUME NEW r \in Runtime, RingIsLogSuffix(r), NEW found \in Seq(Delta),
           NEW held \in Nat, held <= Len(r.log), NEW cursor \in Nat
    PROVE  SettledHolds(Install(r, FoldDeltas(found, SubSeq(r.log, 1, held)),
                                cursor, held), found)
  <1> DEFINE base  == FoldDeltas(found, SubSeq(r.log, 1, held))
             after == Install(r, base, cursor, held)
             n     == Len(r.log)
  <1>1. /\ r.log \in Seq(Delta) /\ n \in Nat /\ CurrentCursor(r) = n
    BY DEF Runtime, RingIsLogSuffix, CurrentCursor
  <1>2. /\ after.log = r.log /\ after.settled = base /\ after.nextCursor = r.nextCursor
        /\ after.held = IF held = n THEN 0 ELSE held
        /\ after.start = IF held = n THEN 0 ELSE n
    BY <1>1 DEF Install, Runtime
  <1>3. base \in Seq(Delta) /\ FoldDeltas(base, <<>>) = base /\ FoldDeltas(found, <<>>) = found
    <2>1. SubSeq(r.log, 1, held) \in Seq(Delta) /\ <<>> \in Seq(Delta)
      BY <1>1
    <2>2. base \in Seq(Delta)
      BY <2>1, FoldDeltasAppend, DeltasTyped
    <2> HIDE DEF base
    <2> QED BY <2>1, <2>2, FoldDeltasAppend, DeltasTyped
  <1>4. CASE held = n
    <2>1. /\ SubSeq(r.log, 1, 0) = <<>> /\ SubSeq(r.log, 0 + 1, n) = SubSeq(r.log, 1, held)
      BY <1>1, <1>4
    <2>2. after.held = 0 /\ after.start = 0
      BY <1>2, <1>4
    <2> HIDE DEF after
    <2>3. FoldDeltas(FoldDeltas(found, SubSeq(after.log, 1, after.held)),
                     SubSeq(after.log, after.start + 1, Len(after.log))) = base
      BY <2>1, <2>2, <1>2, <1>3
    <2>4. after.start <= CurrentCursor(after)
      BY <2>2, <1>1, <1>2 DEF CurrentCursor
    <2> QED BY <2>2, <2>3, <2>4, <1>2 DEF SettledHolds, after, base
  <1>5. CASE held # n
    <2>1. SubSeq(r.log, n + 1, n) = <<>>
      BY <1>1
    <2>2. after.held = held /\ after.start = n
      BY <1>2, <1>5
    <2>3. after.start <= CurrentCursor(after) /\ after.held <= after.start
      BY <2>2, <1>1, <1>2 DEF CurrentCursor
    <2> HIDE DEF after
    <2>4. FoldDeltas(FoldDeltas(found, SubSeq(after.log, 1, after.held)),
                     SubSeq(after.log, after.start + 1, Len(after.log))) = base
      BY <2>1, <2>2, <1>2, <1>3
    <2> QED BY <2>3, <2>4, <1>2 DEF SettledHolds, after, base
  <1> QED BY <1>4, <1>5

-----------------------------------------------------------------------------
(* The session and its devices.                                            *)

(* What the JSONL has held under this process: each time the timeline the  *)
(* process found and the first events of its log.                          *)
DisksAreLog(log, ds) ==
    /\ Len(ds) <= Len(log) + 1
    /\ \A n \in DOMAIN ds : ds[n] = FoldDeltas(ds[1], SubSeq(log, 1, n - 1))

(* The daemon's own part of the state is enough to carry the runtime's     *)
(* invariant: no device can disturb it but by having it memoize a timeline *)
(* the JSONL really held.                                                  *)
SessionInv ==
    /\ GoodRuntime(rt)
    /\ items \in Nat
    /\ disks \in Seq(Seq(Delta)) /\ disks # <<>>
    /\ DisksAreLog(rt.log, disks)
    /\ SettledHolds(rt, disks[1])

(* A longer log leaves what the file has held as it was.                   *)
LEMMA LogGrows ==
    ASSUME NEW log \in Seq(Delta), NEW d \in Delta, NEW ds \in Seq(Seq(Delta)),
           DisksAreLog(log, ds)
    PROVE  DisksAreLog(Append(log, d), ds)
  <1>1. ASSUME NEW n \in DOMAIN ds
        PROVE  SubSeq(Append(log, d), 1, n - 1) = SubSeq(log, 1, n - 1)
    BY DEF DisksAreLog
  <1>2. Len(ds) <= Len(Append(log, d)) + 1
    BY DEF DisksAreLog
  <1>3. \A n \in DOMAIN ds : ds[n] = FoldDeltas(ds[1], SubSeq(log, 1, n - 1))
    BY DEF DisksAreLog
  <1>4. ASSUME NEW n \in DOMAIN ds
        PROVE  ds[n] = FoldDeltas(ds[1], SubSeq(Append(log, d), 1, n - 1))
    BY <1>1, <1>3, <1>4
  <1> QED BY <1>2, <1>4 DEF DisksAreLog

(* A process that starts has read the file as it is and logged nothing.    *)
LEMMA FirstDisk ==
    ASSUME NEW timeline \in Seq(Delta)
    PROVE  DisksAreLog(<<>>, <<timeline>>)
  <1>1. SubSeq(<<>>, 1, 0) = <<>> /\ <<>> \in Seq(Delta)
    OBVIOUS
  <1>2. FoldDeltas(timeline, <<>>) = timeline
    BY <1>1, FoldDeltasAppend, DeltasTyped
  <1>3. /\ Len(<<timeline>>) = 1 /\ Len(<<>>) = 0 /\ DOMAIN <<timeline>> = {1}
        /\ <<timeline>>[1] = timeline
    OBVIOUS
  <1>4. ASSUME NEW n \in {1}
        PROVE  <<timeline>>[n] = FoldDeltas(<<timeline>>[1], SubSeq(<<>>, 1, n - 1))
    <2>1. n = 1 /\ n - 1 = 0
      OBVIOUS
    <2> QED BY <2>1, <1>1, <1>2, <1>3
  <1>5. 1 <= 0 + 1
    OBVIOUS
  <1> QED BY <1>3, <1>4, <1>5 DEF DisksAreLog

(* One more event keeps the session's part of the invariant.               *)
LEMMA EventInv ==
    ASSUME NEW r \in Runtime, RingIsLogSuffix(r), NEW ds \in Seq(Seq(Delta)),
           ds # <<>>, DisksAreLog(r.log, ds), SettledHolds(r, ds[1]), NEW d \in Delta
    PROVE  /\ GoodRuntime(AddEvent(r, d))
           /\ DisksAreLog(AddEvent(r, d).log, ds)
           /\ SettledHolds(AddEvent(r, d), ds[1])
  <1>1. GoodRuntime(AddEvent(r, d))
    BY AddEventGood
  <1>2. AddEvent(r, d).log = Append(r.log, d) /\ r.log \in Seq(Delta)
    BY DEF AddEvent, Runtime
  <1>3. DisksAreLog(AddEvent(r, d).log, ds)
    <2>1. PICK log \in Seq(Delta) : log = r.log
      BY <1>2
    <2> QED BY <2>1, <1>2, LogGrows
  <1>4. SettledHolds(AddEvent(r, d), ds[1])
    <2>1. PICK found \in Seq(Delta) : found = ds[1]
      OBVIOUS
    <2> QED BY <2>1, AddEventHolds
  <1> QED BY <1>1, <1>3, <1>4

LEMMA SessionInvInit == Init => SessionInv
  <1> SUFFICES ASSUME Init PROVE SessionInv
    OBVIOUS
  <1>1. <<(<<>>)>> \in Seq(Seq(Delta)) /\ <<>> \in Seq(Delta)
    OBVIOUS
  <1>2. /\ NewRuntime.log = <<>> /\ NewRuntime.settled = NoSettled
    BY DEF NewRuntime
  <1>3. DisksAreLog(<<>>, <<(<<>>)>>)
    BY <1>1, FirstDisk
  <1> QED BY <1>1, <1>2, <1>3, NewRuntimeGood DEF Init, SessionInv, SettledHolds

LEMMA SessionInvStep == SessionInv /\ [Next]_vars => SessionInv'
  <1> SUFFICES ASSUME SessionInv, [Next]_vars PROVE SessionInv'
    OBVIOUS
  <1> USE DEF SessionInv
  <1>0. /\ rt \in Runtime /\ RingIsLogSuffix(rt) /\ GoodRuntime(rt)
        /\ items \in Nat /\ items + 1 \in Nat
        /\ disks \in Seq(Seq(Delta)) /\ disks # <<>> /\ disks[1] \in Seq(Delta)
        /\ Len(disks) \in Nat \ {0} /\ Disk \in Seq(Delta)
        /\ DisksAreLog(rt.log, disks) /\ SettledHolds(rt, disks[1])
        /\ rt.log \in Seq(Delta) /\ CurrentCursor(rt) = Len(rt.log)
    BY DEF GoodRuntime, Disk, Runtime, RingIsLogSuffix, CurrentCursor
  <1>e. ASSUME NEW r \in Runtime, NEW d \in Delta,
               /\ RingIsLogSuffix(r) /\ DisksAreLog(r.log, disks)
               /\ SettledHolds(r, disks[1])
        PROVE  /\ GoodRuntime(AddEvent(r, d)) /\ AddEvent(r, d) \in Runtime
               /\ RingIsLogSuffix(AddEvent(r, d))
               /\ DisksAreLog(AddEvent(r, d).log, disks)
               /\ SettledHolds(AddEvent(r, d), disks[1])
    BY <1>e, <1>0, EventInv DEF GoodRuntime
  <1>f. ASSUME NEW r \in Runtime, RingIsLogSuffix(r), DisksAreLog(r.log, disks),
               SettledIsCurrent(r)
        PROVE  /\ GoodRuntime(ClearSettled(r))
               /\ DisksAreLog(ClearSettled(r).log, disks)
               /\ SettledHolds(ClearSettled(r), disks[1])
    <2>1. GoodRuntime(ClearSettled(r))
      BY <1>f, SnapshotGood, <<>> \in Seq(Delta), 0 \in Nat DEF GoodRuntime
    <2>2. ClearSettled(r).log = r.log /\ ClearSettled(r).settled = NoSettled
      BY DEF ClearSettled, Runtime
    <2> QED BY <1>f, <2>1, <2>2 DEF SettledHolds
  <1>1. ASSUME NEW mode \in {"create", "resume"}, SendPrompt(mode)
        PROVE  SessionInv'
    <2> DEFINE spawned  == IF ~loop /\ mode = "create" THEN SeedSettled(rt) ELSE rt
               prompted == AddEvent(spawned, AppendItem(items + 1))
    <2>1. /\ rt' = AddEvent(prompted, Marker)
          /\ items' = items + 1 /\ disks' = disks
          /\ mode = "create" => disks[1] = <<>>
      BY <1>1 DEF SendPrompt
    <2>2. /\ spawned \in Runtime /\ RingIsLogSuffix(spawned)
          /\ DisksAreLog(spawned.log, disks) /\ SettledHolds(spawned, disks[1])
      <3>1. CASE ~loop /\ mode = "create"
        <4>1. spawned = SeedSettled(rt)
          BY <3>1
        <4>2. SeedSettled(rt) \in Runtime /\ RingIsLogSuffix(SeedSettled(rt))
          BY <1>0, SnapshotGood, <<>> \in Seq(Delta), 0 \in Nat
        <4>3. SeedSettled(rt).log = rt.log
          BY <1>0 DEF SeedSettled, Install, Runtime
        <4>4. SettledHolds(SeedSettled(rt), <<>>)
          <5>1. SubSeq(rt.log, 1, 0) = <<>> /\ <<>> \in Seq(Delta)
            BY <1>0
          <5>2. FoldDeltas(<<>>, SubSeq(rt.log, 1, 0)) = <<>>
            BY <5>1, FoldDeltasAppend, DeltasTyped
          <5>3. SettledHolds(Install(rt, FoldDeltas(<<>>, SubSeq(rt.log, 1, 0)), 0, 0), <<>>)
            <6>1. 0 \in Nat /\ 0 <= Len(rt.log)
              BY <1>0
            <6> QED BY <6>1, <5>1, <1>0, InstallHolds
          <5> QED BY <5>2, <5>3 DEF SeedSettled
        <4> QED BY <4>1, <4>2, <4>3, <4>4, <2>1, <3>1, <1>0
      <3>2. CASE ~(~loop /\ mode = "create")
        BY <3>2, <1>0
      <3> QED BY <3>1, <3>2
    <2> HIDE DEF spawned
    <2>3. /\ prompted \in Runtime /\ RingIsLogSuffix(prompted)
          /\ DisksAreLog(prompted.log, disks) /\ SettledHolds(prompted, disks[1])
      BY <2>2, <1>0, <1>e, DeltasTyped
    <2> HIDE DEF prompted
    <2>4. /\ GoodRuntime(AddEvent(prompted, Marker))
          /\ DisksAreLog(AddEvent(prompted, Marker).log, disks)
          /\ SettledHolds(AddEvent(prompted, Marker), disks[1])
      BY <2>3, <1>e, DeltasTyped
    <2> QED BY <2>1, <2>4, <1>0
  <1>2. CASE RefusePrompt
    <2>1. rt' = AddEvent(rt, Marker) /\ items' = items /\ disks' = disks
      BY <1>2 DEF RefusePrompt, Emit
    <2>2. /\ GoodRuntime(AddEvent(rt, Marker))
          /\ DisksAreLog(AddEvent(rt, Marker).log, disks)
          /\ SettledHolds(AddEvent(rt, Marker), disks[1])
      BY <1>0, <1>e, DeltasTyped
    <2> QED BY <2>1, <2>2, <1>0
  <1>3. CASE SdkMessage
    <2>1. /\ items' \in Nat /\ disks' = disks
          /\ \E d \in Delta : rt' = AddEvent(rt, d)
      BY <1>3, <1>0, DeltasTyped DEF SdkMessage, Emit
    <2>2. PICK d \in Delta : rt' = AddEvent(rt, d)
      BY <2>1
    <2>3. /\ GoodRuntime(AddEvent(rt, d)) /\ DisksAreLog(AddEvent(rt, d).log, disks)
          /\ SettledHolds(AddEvent(rt, d), disks[1])
      BY <1>0, <1>e
    <2> QED BY <2>1, <2>2, <2>3, <1>0
  <1>4. CASE LoopEnd
    <2>1. /\ GoodRuntime(ClearSettled(rt)) /\ DisksAreLog(ClearSettled(rt).log, disks)
          /\ SettledHolds(ClearSettled(rt), disks[1])
      BY <1>0, <1>f DEF GoodRuntime
    <2>2. /\ AddEvent(rt, Marker) \in Runtime /\ RingIsLogSuffix(AddEvent(rt, Marker))
          /\ SettledIsCurrent(AddEvent(rt, Marker))
          /\ DisksAreLog(AddEvent(rt, Marker).log, disks)
      BY <1>0, <1>e, DeltasTyped DEF GoodRuntime
    <2>3. /\ GoodRuntime(ClearSettled(AddEvent(rt, Marker)))
          /\ DisksAreLog(ClearSettled(AddEvent(rt, Marker)).log, disks)
          /\ SettledHolds(ClearSettled(AddEvent(rt, Marker)), disks[1])
      BY <2>2, <1>f
    <2>4. /\ rt' = ClearSettled(rt) \/ rt' = ClearSettled(AddEvent(rt, Marker))
          /\ items' = items /\ disks' = disks
      BY <1>4 DEF LoopEnd
    <2> QED BY <2>1, <2>3, <2>4, <1>0
  <1>5. CASE DisposeQuery
    BY <1>5, <1>0 DEF DisposeQuery
  <1>6. CASE Flush
    <2> DEFINE n == Len(disks)
    <2>1. /\ rt' = rt /\ items' = items
          /\ disks' = Append(disks, FoldDelta(disks[n], rt.log[n]))
          /\ n <= Len(rt.log) /\ n \in Nat \ {0}
      BY <1>6, <1>0 DEF Flush, Disk
    <2>2. rt.log[n] \in Delta /\ disks[n] \in Seq(Delta)
      BY <2>1, <1>0
    <2>3. FoldDelta(disks[n], rt.log[n]) \in Seq(Delta)
      BY <2>2, FoldDeltaType
    <2>4. /\ disks' \in Seq(Seq(Delta)) /\ disks' # <<>> /\ Len(disks') = n + 1
          /\ disks'[n + 1] = FoldDelta(disks[n], rt.log[n])
          /\ \A i \in 1 .. n : disks'[i] = disks[i]
      BY <2>1, <2>3, <1>0
    <2>5. FoldDelta(disks[n], rt.log[n]) = FoldDeltas(disks[1], SubSeq(rt.log, 1, n))
      <3>1. disks[n] = FoldDeltas(disks[1], SubSeq(rt.log, 1, n - 1))
        BY <2>1, <1>0 DEF DisksAreLog
      <3>2. PICK m \in Nat : m = n - 1
        <4>1. n - 1 \in Nat
          BY <2>1
        <4> HIDE DEF n
        <4> QED BY <4>1
      <3>3. PICK log \in Seq(Delta) : log = rt.log
        BY <1>0
      <3>4. PICK found \in Seq(Delta) : found = disks[1]
        BY <1>0
      <3>5. m \in 0 .. Len(log) - 1
        BY <3>2, <3>3, <2>1
      <3>6. FoldDeltas(found, SubSeq(log, 0 + 1, m + 1))
            = FoldDelta(FoldDeltas(found, SubSeq(log, 0 + 1, m)), log[m + 1])
        BY <3>5, ViewGrows, 0 \in Nat
      <3>7. m + 1 = n /\ 0 + 1 = 1
        BY <3>2, <2>1
      <3> HIDE DEF n
      <3> QED BY <3>1, <3>2, <3>3, <3>4, <3>6, <3>7
    <2>6. DisksAreLog(rt.log, disks')
      <3>1. ASSUME NEW i \in DOMAIN disks'
            PROVE  disks'[i] = FoldDeltas(disks'[1], SubSeq(rt.log, 1, i - 1))
        <4>1. i \in 1 .. n \/ i = n + 1
          BY <2>1, <2>4
        <4>2. disks'[1] = disks[1] /\ (n + 1) - 1 = n
          BY <2>1, <2>4
        <4>3. i \in 1 .. n => disks[i] = FoldDeltas(disks[1], SubSeq(rt.log, 1, i - 1))
          BY <1>0 DEF DisksAreLog
        <4> HIDE DEF n
        <4> QED BY <4>1, <4>2, <4>3, <2>4, <2>5
      <3>2. Len(disks') <= Len(rt.log) + 1
        BY <2>1, <2>4, <1>0
      <3> QED BY <3>1, <3>2 DEF DisksAreLog
    <2> QED BY <2>1, <2>4, <2>6, <1>0
  <1>7. CASE Restart
    <2>1. rt' = NewRuntime /\ items' = items /\ disks' = <<Disk>>
      BY <1>7 DEF Restart
    <2>2. disks' \in Seq(Seq(Delta)) /\ disks' # <<>>
      BY <2>1, <1>0
    <2>3. NewRuntime.log = <<>> /\ NewRuntime.settled = NoSettled
      BY DEF NewRuntime
    <2>4. DisksAreLog(<<>>, <<Disk>>)
      <3>1. PICK timeline \in Seq(Delta) : timeline = Disk
        BY <1>0
      <3> QED BY <3>1, FirstDisk
    <2> QED BY <2>1, <2>2, <2>3, <2>4, <1>0, NewRuntimeGood DEF SettledHolds
  <1>8. ASSUME NEW rd \in reads, NEW n \in DOMAIN disks, ResumeSubscribe(rd, n)
        PROVE  SessionInv'
    <2>1. /\ disks[n] \in Seq(Delta) /\ n \in Nat \ {0} /\ n - 1 \in Nat
          /\ disks[n] = FoldDeltas(disks[1], SubSeq(rt.log, 1, n - 1))
          /\ n - 1 <= Len(rt.log)
      BY <1>0 DEF DisksAreLog
    <2>2. /\ rt' = Memoize(rt, disks[n], n - 1) \/ rt' = rt
          /\ items' = items /\ disks' = disks
      BY <1>8 DEF ResumeSubscribe
    <2>3. /\ GoodRuntime(Memoize(rt, disks[n], n - 1))
          /\ Memoize(rt, disks[n], n - 1).log = rt.log
          /\ SettledHolds(Memoize(rt, disks[n], n - 1), disks[1])
      <3>1. PICK m \in Nat : m = n - 1
        BY <2>1
      <3>2. PICK found \in Seq(Delta) : found = disks[1]
        BY <1>0
      <3>3. PICK got \in Seq(Delta) : got = disks[n]
        BY <2>1
      <3>4. GoodRuntime(Memoize(rt, got, m))
        BY <1>0, SnapshotGood
      <3>5. Memoize(rt, got, m).log = rt.log
        BY <1>0 DEF Memoize, Install, Runtime
      <3>6. CurrentCursor(rt) \in Nat /\ m <= Len(rt.log)
        BY <1>0, <2>1, <3>1
      <3>7. PICK k \in Nat : k = CurrentCursor(rt)
        BY <3>6
      <3>8. SettledHolds(Install(rt, FoldDeltas(found, SubSeq(rt.log, 1, m)), k, m), found)
        BY <1>0, <3>6, InstallHolds
      <3>9. got = FoldDeltas(found, SubSeq(rt.log, 1, m))
        BY <2>1, <3>1, <3>2, <3>3
      <3>10. SettledHolds(Memoize(rt, got, m), found)
        BY <3>7, <3>8, <3>9 DEF Memoize
      <3> QED BY <3>1, <3>2, <3>3, <3>4, <3>5, <3>10
    <2> QED BY <2>2, <2>3, <1>0
  <1>9. CASE UNCHANGED daemonVars
    BY <1>9, <1>0 DEF daemonVars
  <1>10. CASE UNCHANGED vars
    BY <1>10, <1>9 DEF vars
  <1>11. ASSUME NEW rd \in reads, FailSubscribe(rd)
         PROVE  UNCHANGED daemonVars
    BY <1>11 DEF FailSubscribe
  <1>12. ASSUME NEW c \in Devices,
                \/ Connect(c) \/ Disconnect(c)
                \/ \E isNew \in BOOLEAN : Subscribe(c, isNew)
                \/ Unsubscribe(c) \/ Deliver(c)
         PROVE  UNCHANGED daemonVars
    BY <1>12 DEF Connect, Disconnect, Subscribe, Unsubscribe, Deliver
  <1> QED
    BY <1>1, <1>2, <1>3, <1>4, <1>5, <1>6, <1>7, <1>8, <1>9, <1>10, <1>11, <1>12
       DEF Next

(* In every reachable state the ring holds the newest events of the log,   *)
(* and the snapshot, served without a replay, holds what the process found *)
(* on disk and every event since, but those its read of the JSONL came too *)
(* early for: however prompts, loop exits, teardowns, flushes, restarts    *)
(* and memoizing subscribers interleave.                                   *)
THEOREM RuntimeCorrect == Spec => []RuntimeOK
  <1>1. SessionInv => RuntimeOK
    BY DEF SessionInv, GoodRuntime, RuntimeOK
  <1> QED BY <1>1, SessionInvInit, SessionInvStep, PTL DEF Spec

-----------------------------------------------------------------------------
(* Type correctness.  Two facts have to be carried along: the callbacks    *)
(* can be counted, and a mounted Subscription has been numbered.           *)
TypeInv ==
    /\ SessionInv
    /\ TypeOK
    /\ IsFiniteSet(regs)
    /\ \A c \in Devices : sub[c].state # "none" => sub[c].serial # 0

LEMMA FrameTypes ==
    /\ \A e \in Event : EventFrame(e) \in Frame
    /\ \A serial \in Nat \ {0} : ErrorFrame(serial) \in Frame
    /\ \A serial \in Nat \ {0}, settled \in Seq(Delta), cursor, floor \in Nat,
          recovered \in BOOLEAN :
          epoch \in Nat \ {0} => Response(serial, settled, cursor, floor, recovered) \in Frame
  BY DEF Frame, EventFrame, ErrorFrame, Response, Event

(* The fanout of one event adds whole frames to the queues.                *)
LEMMA BroadcastType ==
    ASSUME IsFiniteSet(regs), NEW queues \in [Devices -> Seq(Frame)], NEW e \in Event
    PROVE  Broadcast(queues, e) \in [Devices -> Seq(Frame)]
  <1> SUFFICES ASSUME NEW c \in Devices
               PROVE  LET n == Cardinality(RegsOn(regs, c, conn[c]))
                      IN queues[c] \o [i \in 1 .. n |-> EventFrame(e)] \in Seq(Frame)
    BY DEF Broadcast
  <1> DEFINE n == Cardinality(RegsOn(regs, c, conn[c]))
  <1>1. RegsOn(regs, c, conn[c]) \in SUBSET regs
    BY DEF RegsOn
  <1>2. n \in Nat
    BY <1>1, FS_Subset, FS_CardinalityType
  <1> HIDE DEF n
  <1>3. EventFrame(e) \in Frame
    BY FrameTypes
  <1>4. [i \in 1 .. n |-> EventFrame(e)] \in Seq(Frame)
    BY <1>2, <1>3
  <1> QED BY <1>4 DEF n

(* A replay is a sequence of events, whatever the cursor it starts after   *)
(* and whether or not the ring still holds the event next to it.           *)
LEMMA ReplayType ==
    ASSUME NEW r, GoodRuntime(r), NEW since \in Nat
    PROVE  EventFrames(Replay(r, since)) \in Seq(Frame)
  <1> DEFINE ring == r.buffer
             gap  == Len(r.log) - Len(ring)
             past == {i \in DOMAIN ring : ring[i].cursor > since}
             start == CHOOSE i \in past : \A j \in past : i <= j
  <1>1. ring \in Seq(Event) /\ r.log \in Seq(Delta) /\ HoldsNewest(ring, r.log)
    BY DEF GoodRuntime, Runtime, RingIsLogSuffix
  <1>2. Replay(r, since) = IF past = {} THEN <<>> ELSE SubSeq(ring, start, Len(ring))
    BY DEF Replay
  <1> HIDE DEF ring
  <1>3. Len(ring) \in Nat /\ DOMAIN ring = 1 .. Len(ring)
        /\ \A i \in 1 .. Len(ring) : ring[i] \in Event
    BY <1>1
  <1>4. gap \in Int
    BY <1>1, <1>3
  <1>5. \A i \in 1 .. Len(ring) : ring[i] = [cursor |-> gap + i, delta |-> r.log[gap + i]]
    BY <1>1 DEF HoldsNewest
  <1> HIDE DEF gap
  <1>6. past = {i \in 1 .. Len(ring) : gap + i > since}
    BY <1>3, <1>5
  <1> HIDE DEF past
  <1>7. CASE past = {}
    BY <1>2, <1>7 DEF EventFrames
  <1>8. CASE past # {}
    <2> DEFINE least == IF since >= gap THEN (since - gap) + 1 ELSE 1
    <2>1. PICK p \in past : TRUE
      BY <1>8
    <2>2. least \in past /\ \A j \in past : least <= j
      BY <2>1, <1>3, <1>4, <1>6
    <2>3. start \in past
      BY <2>2
    <2>4. start \in 1 .. Len(ring)
      BY <2>3, <1>6
    <2> HIDE DEF start
    <2>5. SubSeq(ring, start, Len(ring)) \in Seq(Event)
      BY <2>4, <1>3, SubSeqProperties
    <2>6. Replay(r, since) \in Seq(Event)
      BY <2>5, <1>2, <1>8
    <2>7. \A i \in DOMAIN Replay(r, since) : EventFrame(Replay(r, since)[i]) \in Frame
      BY <2>6, FrameTypes
    <2> QED BY <2>6, <2>7 DEF EventFrames
  <1> QED BY <1>7, <1>8

(* The subscribe handler, answering at once or going to read the JSONL,    *)
(* leaves well-typed router state and queues behind.                       *)
LEMMA HandleSubscribeTypes ==
    ASSUME TypeInv, NEW c \in Devices, NEW k \in Nat \ {0},
           NEW s \in Subscription, s.serial # 0,
           NEW queued \in Seq(Frame), HandleSubscribe(c, k, s, queued)
    PROVE  /\ RouterTypes' /\ IsFiniteSet(regs')
           /\ down' \in [Devices -> Seq(Frame)]
  <1> USE DEF TypeInv, TypeOK
  <1> DEFINE rs == regs \ {[device |-> c, conn |-> k, serial |-> subsMap[c]]}
             current == CurrentCursor(rt)
             Answered(settled, floor, recovered) ==
                Attach(c, k, s.serial, rs, queued,
                       Response(s.serial, settled, current, floor, recovered), floor)
  <1>1. rs \subseteq Registration /\ IsFiniteSet(rs)
    BY FS_RemoveElement DEF RouterTypes
  <1>2. GoodRuntime(rt) /\ rt \in Runtime /\ current \in Nat
    BY DEF SessionInv, GoodRuntime, Runtime, CurrentCursor
  <1>3. s.serial \in Nat \ {0} /\ epoch \in Nat \ {0}
    BY DEF Subscription, DaemonTypes
  <1>4. [device |-> c, conn |-> k, serial |-> s.serial] \in Registration
    BY <1>3 DEF Registration
  <1>5. ASSUME NEW settled \in Seq(Delta), NEW floor \in Nat, NEW recovered \in BOOLEAN,
               Answered(settled, floor, recovered), UNCHANGED reads
        PROVE  /\ RouterTypes' /\ IsFiniteSet(regs')
               /\ down' \in [Devices -> Seq(Frame)]
    <2> DEFINE response == Response(s.serial, settled, current, floor, recovered)
               replay == EventFrames(Replay(rt, floor))
    <2>1. response \in Frame /\ replay \in Seq(Frame)
      BY <1>2, <1>3, FrameTypes, ReplayType
    <2>2. /\ down' = [down EXCEPT ![c] = queued \o <<response>> \o replay]
          /\ regs' = rs \cup {[device |-> c, conn |-> k, serial |-> s.serial]}
          /\ subsMap' = [subsMap EXCEPT ![c] = s.serial]
          /\ doubled' = [doubled EXCEPT ![c] = @ \/ RegsOn(rs, c, k) # {}]
      BY <1>5 DEF Attach
    <2> HIDE DEF response, replay, rs
    <2>3. queued \o <<response>> \o replay \in Seq(Frame)
      BY <2>1
    <2>4. down' \in [Devices -> Seq(Frame)]
      BY <2>2, <2>3 DEF ClientTypes
    <2>5. regs' \subseteq Registration /\ IsFiniteSet(regs')
      BY <2>2, <1>1, <1>4, FS_AddElement
    <2>6. subsMap' \in [Devices -> Nat]
      BY <2>2, <1>3 DEF RouterTypes
    <2>7. doubled' \in [Devices -> BOOLEAN]
      BY <2>2 DEF RouterTypes
    <2> QED BY <2>4, <2>5, <2>6, <2>7, <1>5 DEF RouterTypes
  <1>6. CASE /\ rt.settled = NoSettled
             /\ reads' = reads \cup {[device |-> c, conn |-> k, serial |-> s.serial,
                                      from |-> Len(disks)]}
             /\ regs' = rs
             /\ down' = [down EXCEPT ![c] = queued]
             /\ UNCHANGED <<subsMap, doubled>>
    <2>1. [device |-> c, conn |-> k, serial |-> s.serial, from |-> Len(disks)]
             \in PendingRead
      BY <1>3 DEF PendingRead, DaemonTypes
    <2>2. reads' \subseteq PendingRead
      BY <2>1, <1>6 DEF RouterTypes
    <2>3. down' \in [Devices -> Seq(Frame)]
      BY <1>6 DEF ClientTypes
    <2> QED BY <2>2, <2>3, <1>1, <1>6 DEF RouterTypes
  <1>7. rt.settled # NoSettled => rt.settled \in Seq(Delta) /\ rt.settledCursor \in Nat
    BY <1>2 DEF Runtime
  <1>8. CanRecover(s) => s.cursor \in Nat
    BY DEF CanRecover, HasHint, Subscription
  <1>9. <<>> \in Seq(Delta) /\ 0 \in Nat
    OBVIOUS
  <1> HIDE DEF Answered
  <1>10. \/ Answered(<<>>, 0, FALSE) /\ UNCHANGED reads
         \/ rt.settled # NoSettled /\ Answered(rt.settled, rt.settledCursor, FALSE)
            /\ UNCHANGED reads
         \/ CanRecover(s) /\ Answered(<<>>, s.cursor, TRUE) /\ UNCHANGED reads
         \/ /\ rt.settled = NoSettled
            /\ reads' = reads \cup {[device |-> c, conn |-> k, serial |-> s.serial,
                                     from |-> Len(disks)]}
            /\ regs' = rs
            /\ down' = [down EXCEPT ![c] = queued]
            /\ UNCHANGED <<subsMap, doubled>>
    BY DEF HandleSubscribe, Answered
  <1> QED BY <1>5, <1>6, <1>7, <1>8, <1>9, <1>10

LEMMA HandleUnsubscribeTypes ==
    ASSUME TypeInv, NEW c \in Devices, HandleUnsubscribe(c)
    PROVE  RouterTypes' /\ IsFiniteSet(regs')
  <1>1. regs' \subseteq regs /\ IsFiniteSet(regs')
    BY FS_RemoveElement DEF TypeInv, HandleUnsubscribe
  <1> QED BY <1>1 DEF TypeInv, TypeOK, RouterTypes, HandleUnsubscribe

(* Frames put on the queue of a connection that still stands.              *)
LEMMA QueueType ==
    ASSUME TypeInv, NEW c \in Devices, NEW k, NEW frame \in Frame
    PROVE  Queue(c, k, <<frame>>) \in [Devices -> Seq(Frame)]
  <1>1. down \in [Devices -> Seq(Frame)] /\ down[c] \o <<frame>> \in Seq(Frame)
    BY DEF TypeInv, TypeOK, ClientTypes
  <1> QED BY <1>1 DEF Queue

LEMMA DetachedType ==
    ASSUME NEW s \in Subscription
    PROVE  /\ Detached(s) \in Subscription /\ Detached(s).serial = s.serial
           /\ Detached(s).state # "none" <=> s.state # "none"
  BY DEF Detached, Subscription

LEMMA SubscribedType ==
    ASSUME NEW s \in Subscription, NEW frame,
           frame.epoch \in Nat, frame.cursor \in Nat
    PROVE  Subscribed(s, frame) \in Subscription /\ Subscribed(s, frame).serial = s.serial
  <1> DEFINE one == [s EXCEPT !.state = "subscribed"]
             two == [one EXCEPT !.epoch = frame.epoch]
             cursor == IF frame.recovered THEN two.cursor ELSE frame.cursor
  <1>1. one \in Subscription /\ one.serial = s.serial
    BY DEF Subscription
  <1> HIDE DEF one
  <1>2. two \in Subscription /\ two.serial = s.serial
    BY <1>1 DEF Subscription
  <1> HIDE DEF two
  <1>3. cursor \in Nat \cup {NoCursor}
    BY <1>2 DEF Subscription
  <1>4. Subscribed(s, frame) = [two EXCEPT !.cursor = cursor]
    BY DEF Subscribed, one, two
  <1> HIDE DEF cursor
  <1> QED BY <1>2, <1>3, <1>4 DEF Subscription

LEMMA TypeInvInit == Init => TypeInv
  <1> SUFFICES ASSUME Init PROVE TypeInv
    OBVIOUS
  <1>1. SessionInv
    BY SessionInvInit
  <1>2. NoSubscription \in Subscription /\ NoSubscription.state = "none"
    BY DEF NoSubscription, Subscription
  <1>3. NoCollection \in Collection
    BY DEF NoCollection, Collection
  <1>4. ClientTypes
    BY <1>2, <1>3 DEF Init, ClientTypes
  <1>5. RouterTypes /\ IsFiniteSet(regs)
    BY FS_EmptySet DEF Init, RouterTypes
  <1>6. DaemonTypes
    <2>1. rt \in Runtime /\ items \in Nat /\ disks \in Seq(Seq(Delta)) /\ disks # <<>>
      BY <1>1 DEF SessionInv, GoodRuntime
    <2>2. epoch \in Nat \ {0}
      BY DEF Init
    <2>3. loop \in BOOLEAN
      BY DEF Init
    <2> QED BY <2>1, <2>2, <2>3 DEF DaemonTypes
  <1> QED BY <1>1, <1>2, <1>4, <1>5, <1>6 DEF TypeInv, TypeOK, Init

(* What a step has to keep besides SessionInv.                             *)
Rest ==
    /\ epoch \in Nat \ {0} /\ loop \in BOOLEAN
    /\ RouterTypes /\ ClientTypes /\ IsFiniteSet(regs)
    /\ \A c \in Devices : sub[c].state # "none" => sub[c].serial # 0

LEMMA RestSuffices == SessionInv' /\ Rest' => TypeInv'
  BY DEF SessionInv, GoodRuntime, Rest, TypeInv, TypeOK, DaemonTypes

(* The session's own steps: they only write frames to the queues.          *)
LEMMA SessionStepTypes ==
    ASSUME TypeInv,
           \/ \E mode \in {"create", "resume"} : SendPrompt(mode)
           \/ RefusePrompt \/ SdkMessage \/ LoopEnd \/ DisposeQuery \/ Flush
    PROVE  Rest'
  <1> USE DEF TypeInv, TypeOK
  <1>1. /\ rt \in Runtime /\ items \in Nat /\ items + 1 \in Nat
        /\ rt.nextCursor \in Nat /\ down \in [Devices -> Seq(Frame)]
    BY DEF DaemonTypes, Runtime, ClientTypes
  <1>2. \A d \in Delta, n \in Nat : [cursor |-> n, delta |-> d] \in Event
    BY DEF Event
  <1>3. \A d \in Delta : Broadcast(down, NextEvent(rt, d)) \in [Devices -> Seq(Frame)]
    BY <1>1, <1>2, BroadcastType DEF NextEvent
  <1>4. down' \in [Devices -> Seq(Frame)]
    <2>1. ASSUME NEW mode \in {"create", "resume"}, SendPrompt(mode)
          PROVE  down' \in [Devices -> Seq(Frame)]
      <3> DEFINE spawned  == IF ~loop /\ mode = "create" THEN SeedSettled(rt) ELSE rt
                 prompt   == AppendItem(items + 1)
                 prompted == AddEvent(spawned, prompt)
                 one == Broadcast(down, NextEvent(spawned, prompt))
      <3>1. down' = Broadcast(one, NextEvent(prompted, Marker))
        BY <2>1 DEF SendPrompt
      <3>2. spawned.nextCursor \in Nat
        BY <1>1 DEF SeedSettled, Install, Runtime
      <3>3. prompted.nextCursor \in Nat
        BY <3>2 DEF AddEvent
      <3> HIDE DEF spawned, prompted
      <3>4. one \in [Devices -> Seq(Frame)]
        BY <3>2, <1>1, <1>2, BroadcastType, DeltasTyped DEF NextEvent
      <3> HIDE DEF one
      <3> QED BY <3>1, <3>3, <3>4, <1>2, BroadcastType, DeltasTyped DEF NextEvent
    <2>2. CASE RefusePrompt
      BY <2>2, <1>3, DeltasTyped DEF RefusePrompt, Emit
    <2>3. CASE SdkMessage
      BY <2>3, <1>1, <1>3, DeltasTyped DEF SdkMessage, Emit
    <2>4. CASE LoopEnd
      BY <2>4, <1>1, <1>3, DeltasTyped DEF LoopEnd
    <2>5. CASE DisposeQuery \/ Flush
      BY <2>5, <1>1 DEF DisposeQuery, Flush, clientVars
    <2> QED BY <2>1, <2>2, <2>3, <2>4, <2>5
  <1>5. /\ UNCHANGED <<epoch, routerVars, conn, conns, sub, owner, coll>>
        /\ loop' \in BOOLEAN
    BY DEF SendPrompt, RefusePrompt, SdkMessage, LoopEnd, DisposeQuery, Flush,
           clientVars, DaemonTypes
  <1> QED BY <1>4, <1>5 DEF Rest, routerVars, RouterTypes, ClientTypes, DaemonTypes

LEMMA RestartTypes ==
    ASSUME TypeInv, Restart
    PROVE  Rest'
  <1> USE DEF TypeInv, TypeOK
  <1>1. RouterTypes' /\ IsFiniteSet(regs')
    BY FS_EmptySet DEF Restart, RouterTypes
  <1>2. sub' \in [Devices -> Subscription]
    BY DetachedType DEF Restart, ClientTypes
  <1>3. \A c \in Devices : sub'[c].state # "none" => sub'[c].serial # 0
    BY DetachedType DEF Restart, ClientTypes
  <1>4. ClientTypes'
    BY <1>2 DEF Restart, ClientTypes
  <1>5. epoch' \in Nat \ {0}
    <2>1. epoch' = epoch + 1 /\ epoch \in Nat
      BY DEF Restart, DaemonTypes
    <2> QED BY <2>1
  <1>6. loop' \in BOOLEAN
    BY DEF Restart
  <1> QED BY <1>1, <1>3, <1>4, <1>5, <1>6 DEF Rest

(* The two ways the pending read of a subscribe handler ends.              *)
LEMMA ReadStepTypes ==
    ASSUME TypeInv, NEW rd \in reads,
           \/ \E n \in DOMAIN disks : ResumeSubscribe(rd, n)
           \/ FailSubscribe(rd)
    PROVE  Rest'
  <1> USE DEF TypeInv, TypeOK
  <1>1. /\ rd.device \in Devices /\ rd.conn \in Nat \ {0} /\ rd.serial \in Nat \ {0}
        /\ epoch \in Nat \ {0} /\ CurrentCursor(rt) \in Nat
    BY DEF RouterTypes, PendingRead, DaemonTypes, Runtime, CurrentCursor
  <1>2. ASSUME NEW n \in DOMAIN disks, ResumeSubscribe(rd, n)
        PROVE  Rest'
    <2> DEFINE now == CurrentCursor(rt)
               answer == Response(rd.serial, disks[n], now, now, FALSE)
    <2>1. disks[n] \in Seq(Delta)
      BY DEF DaemonTypes
    <2>2. answer \in Frame
      BY <1>1, <2>1, FrameTypes
    <2>3. down' = Queue(rd.device, rd.conn, <<answer>>)
      BY <1>2 DEF ResumeSubscribe
    <2>4. down' \in [Devices -> Seq(Frame)]
      BY <1>1, <2>2, <2>3, QueueType
    <2>5. [device |-> rd.device, conn |-> rd.conn, serial |-> rd.serial] \in Registration
      BY <1>1 DEF Registration
    <2>6. regs' \subseteq Registration /\ IsFiniteSet(regs')
      BY <1>2, <2>5, FS_AddElement DEF ResumeSubscribe, RouterTypes
    <2>7. subsMap' \in [Devices -> Nat] /\ doubled' \in [Devices -> BOOLEAN]
      BY <1>1, <1>2 DEF ResumeSubscribe, RouterTypes
    <2>8. reads' \subseteq PendingRead
      BY <1>2 DEF ResumeSubscribe, RouterTypes
    <2>9. UNCHANGED <<epoch, loop, conn, conns, sub, owner, coll>>
      BY <1>2 DEF ResumeSubscribe
    <2> QED BY <2>4, <2>6, <2>7, <2>8, <2>9
            DEF Rest, RouterTypes, ClientTypes, DaemonTypes
  <1>3. CASE FailSubscribe(rd)
    <2>1. down' \in [Devices -> Seq(Frame)]
      BY <1>1, <1>3, FrameTypes, QueueType DEF FailSubscribe
    <2> QED BY <1>3, <2>1 DEF FailSubscribe, daemonVars, Rest, RouterTypes,
               ClientTypes, DaemonTypes
  <1> QED BY <1>2, <1>3

(* The devices' steps.                                                     *)
LEMMA ConnectTypes ==
    ASSUME TypeInv, NEW c \in Devices, Connect(c)
    PROVE  Rest'
  <1> USE DEF TypeInv, TypeOK
  <1> DEFINE k == conns[c] + 1
  <1>1. /\ k \in Nat \ {0} /\ sub[c] \in Subscription
        /\ sub[c].serial \in Nat /\ <<>> \in Seq(Frame)
    BY DEF ClientTypes, Subscription
  <1>2. /\ conn' = [conn EXCEPT ![c] = k] /\ conns' = [conns EXCEPT ![c] = k]
        /\ UNCHANGED <<daemonVars, sub, coll>>
    BY DEF Connect
  <1>3. conn' \in [Devices -> Nat] /\ conns' \in [Devices -> Nat]
    BY <1>1, <1>2 DEF ClientTypes
  <1>4. /\ RouterTypes' /\ IsFiniteSet(regs')
        /\ down' \in [Devices -> Seq(Frame)] /\ owner' \in [Devices -> Nat]
    <2>1. CASE sub[c].state = "none"
      BY <2>1 DEF Connect, routerVars, RouterTypes, ClientTypes
    <2>2. CASE sub[c].state # "none"
      <3>1. HandleSubscribe(c, k, sub[c], <<>>)
            /\ owner' = [owner EXCEPT ![c] = sub[c].serial]
        BY <2>2 DEF Connect
      <3>2. sub[c].serial # 0
        BY <2>2
      <3> HIDE DEF k
      <3> QED BY <3>1, <3>2, <1>1, HandleSubscribeTypes DEF ClientTypes
    <2> QED BY <2>1, <2>2
  <1> QED BY <1>2, <1>3, <1>4 DEF Rest, daemonVars, DaemonTypes, ClientTypes

LEMMA DisconnectTypes ==
    ASSUME TypeInv, NEW c \in Devices, Disconnect(c)
    PROVE  Rest'
  <1> USE DEF TypeInv, TypeOK
  <1>1. regs' \subseteq regs
    BY DEF Disconnect
  <1>2. RouterTypes' /\ IsFiniteSet(regs')
    BY <1>1, FS_Subset DEF Disconnect, RouterTypes
  <1>3. Detached(sub[c]) \in Subscription
    BY DetachedType DEF ClientTypes
  <1>4. ClientTypes'
    BY <1>3 DEF Disconnect, ClientTypes
  <1>5. \A d \in Devices : sub'[d].state # "none" => sub'[d].serial # 0
    BY DetachedType DEF Disconnect, ClientTypes
  <1> QED BY <1>2, <1>4, <1>5 DEF Disconnect, Rest, daemonVars, DaemonTypes

LEMMA SubscribeTypes ==
    ASSUME TypeInv, NEW c \in Devices, NEW isNew \in BOOLEAN, Subscribe(c, isNew)
    PROVE  Rest'
  <1> USE DEF TypeInv, TypeOK
  <1> DEFINE s == NewSubscription(sub[c].serial + 1, isNew)
  <1>1. sub[c].serial \in Nat
    BY DEF ClientTypes, Subscription
  <1>2. s \in Subscription /\ s.serial # 0 /\ s.serial \in Nat
    BY <1>1 DEF NewSubscription, Subscription
  <1>3. sub' = [sub EXCEPT ![c] = s] /\ UNCHANGED <<daemonVars, conn, conns, coll>>
    BY DEF Subscribe
  <1>4. CASE conn[c] = 0
    <2>1. UNCHANGED <<down, owner, routerVars>>
      BY <1>4 DEF Subscribe
    <2> HIDE DEF s
    <2> QED BY <2>1, <1>2, <1>3 DEF Rest, routerVars, daemonVars, RouterTypes,
               ClientTypes, DaemonTypes
  <1>5. CASE conn[c] # 0
    <2>1. HandleSubscribe(c, conn[c], s, down[c])
          /\ owner' = [owner EXCEPT ![c] = s.serial]
      BY <1>5 DEF Subscribe
    <2> HIDE DEF s
    <2>2. conn[c] \in Nat \ {0} /\ down[c] \in Seq(Frame)
      BY <1>5 DEF ClientTypes
    <2>3. RouterTypes' /\ IsFiniteSet(regs') /\ down' \in [Devices -> Seq(Frame)]
      BY <2>1, <2>2, <1>2, HandleSubscribeTypes
    <2> QED BY <2>1, <2>3, <1>2, <1>3 DEF Rest, daemonVars, ClientTypes, DaemonTypes
  <1> QED BY <1>4, <1>5

LEMMA UnsubscribeTypes ==
    ASSUME TypeInv, NEW c \in Devices, Unsubscribe(c)
    PROVE  Rest'
  <1> USE DEF TypeInv, TypeOK
  <1>1. NoCollection \in Collection
    BY DEF NoCollection, Collection
  <1>2. /\ sub' = [sub EXCEPT ![c] = [NoSubscription EXCEPT !.serial = sub[c].serial]]
        /\ coll' = [coll EXCEPT ![c] = NoCollection]
        /\ UNCHANGED <<daemonVars, conn, conns, down>>
    BY DEF Unsubscribe
  <1>3. RouterTypes' /\ IsFiniteSet(regs') /\ owner' \in [Devices -> Nat]
    <2>1. CASE HandleUnsubscribe(c) /\ owner' = [owner EXCEPT ![c] = 0]
      BY <2>1, HandleUnsubscribeTypes DEF ClientTypes
    <2>2. CASE UNCHANGED <<routerVars, owner>>
      BY <2>2 DEF routerVars, RouterTypes, ClientTypes
    <2> QED BY <2>1, <2>2 DEF Unsubscribe
  <1>4. [NoSubscription EXCEPT !.serial = sub[c].serial] \in Subscription
    BY DEF NoSubscription, ClientTypes, Subscription
  <1>5. sub' \in [Devices -> Subscription]
    BY <1>2, <1>4 DEF ClientTypes
  <1>6. \A d \in Devices : sub'[d].state # "none" => sub'[d].serial # 0
    BY <1>2 DEF NoSubscription, ClientTypes
  <1> QED BY <1>1, <1>2, <1>3, <1>5, <1>6 DEF Rest, daemonVars, ClientTypes, DaemonTypes

LEMMA DeliverTypes ==
    ASSUME TypeInv, NEW c \in Devices, Deliver(c)
    PROVE  Rest'
  <1> USE DEF TypeInv, TypeOK
  <1> DEFINE frame == Head(down[c])
  <1>1. down[c] \in Seq(Frame) /\ down[c] # <<>>
    BY DEF Deliver, ClientTypes
  <1>2. frame \in Frame /\ Tail(down[c]) \in Seq(Frame)
    BY <1>1, HeadTailProperties
  <1>3. /\ down' = [down EXCEPT ![c] = Tail(@)]
        /\ UNCHANGED <<daemonVars, conn, conns>>
    BY DEF Deliver
  <1>4. down' \in [Devices -> Seq(Frame)]
    BY <1>2, <1>3 DEF ClientTypes
  <1>5. \/ frame.type = "event" /\ OnEvent(c, frame)
        \/ frame.type = "response" /\ OnResponse(c, frame)
        \/ frame.type = "error" /\ OnError(c, frame)
    BY <1>2 DEF Deliver, Frame
  <1> HIDE DEF frame
  <1>6. sub[c] \in Subscription /\ coll[c] \in Collection
    BY DEF ClientTypes
  <1>7. /\ RouterTypes' /\ IsFiniteSet(regs') /\ owner' \in [Devices -> Nat]
        /\ sub' \in [Devices -> Subscription] /\ coll' \in [Devices -> Collection]
        /\ \A d \in Devices : sub'[d].state # "none" => sub'[d].serial # 0
    <2>1. CASE frame.type = "event" /\ OnEvent(c, frame)
      <3>1. frame.cursor \in Nat /\ frame.delta \in Delta
        BY <2>1, <1>2 DEF Frame
      <3>2. UNCHANGED <<routerVars, owner>>
        BY <2>1 DEF OnEvent
      <3>3. RouterTypes' /\ IsFiniteSet(regs') /\ owner' \in [Devices -> Nat]
        BY <3>2 DEF routerVars, RouterTypes, ClientTypes
      <3>4. CASE UNCHANGED <<sub, coll>>
        BY <3>3, <3>4 DEF ClientTypes
      <3>5. CASE /\ sub' = [sub EXCEPT ![c].cursor = frame.cursor]
                 /\ coll' = [coll EXCEPT
                       ![c].view  = FoldDelta(@, frame.delta),
                       ![c].sound = (@ \/ frame.cursor = coll[c].floor + 1)
                                    /\ ~doubled[c]]
        <4>1. FoldDelta(coll[c].view, frame.delta) \in Seq(Delta)
          BY <3>1, <1>6, FoldDeltaType DEF Collection
        <4> DEFINE ok == (coll[c].sound \/ frame.cursor = coll[c].floor + 1)
                         /\ ~doubled[c]
                   view == FoldDelta(coll[c].view, frame.delta)
        <4>2. ok \in BOOLEAN
          OBVIOUS
        <4>3. coll' = [coll EXCEPT ![c].view = view, ![c].sound = ok]
          BY <3>5
        <4> HIDE DEF ok, view
        <4>4. coll' \in [Devices -> Collection]
          BY <4>1, <4>2, <4>3, <1>6 DEF ClientTypes, Collection, view
        <4>5. /\ sub' \in [Devices -> Subscription]
              /\ \A d \in Devices : sub'[d].state # "none" => sub'[d].serial # 0
          BY <3>1, <3>5, <1>6 DEF ClientTypes, Subscription
        <4> QED BY <4>4, <4>5, <3>3
      <3> QED BY <2>1, <3>4, <3>5 DEF OnEvent
    <2>2. CASE frame.type = "response" /\ OnResponse(c, frame)
      <3>1. /\ frame.serial \in Nat \ {0} /\ frame.settled \in Seq(Delta)
            /\ frame.cursor \in Nat /\ frame.floor \in Nat
            /\ frame.epoch \in Nat \ {0} /\ frame.recovered \in BOOLEAN
        BY <2>2, <1>2 DEF Frame
      <3>2. CASE frame.serial = sub[c].serial /\ sub[c].state # "none"
        <4> DEFINE ok == frame.floor = frame.cursor /\ ~doubled[c]
                   rebuilt == [view |-> frame.settled, base |-> frame.settled,
                               floor |-> frame.floor, sound |-> ok]
                   now == Subscribed(sub[c], frame)
        <4>1. /\ sub' = [sub EXCEPT ![c] = now]
              /\ coll' = IF frame.recovered THEN coll
                         ELSE [coll EXCEPT ![c] = rebuilt]
              /\ UNCHANGED <<routerVars, owner>>
          BY <2>2, <3>2 DEF OnResponse
        <4>2. now \in Subscription /\ now.serial = sub[c].serial
          BY <1>6, <3>1, SubscribedType
        <4>8. ok \in BOOLEAN
          OBVIOUS
        <4> HIDE DEF now, ok
        <4>3. rebuilt \in Collection
          BY <3>1, <4>8 DEF Collection
        <4> HIDE DEF rebuilt
        <4>4. coll' \in [Devices -> Collection]
          BY <4>1, <4>3 DEF ClientTypes
        <4>5. sub' \in [Devices -> Subscription]
          BY <4>1, <4>2 DEF ClientTypes
        <4>6. \A d \in Devices : sub'[d].state # "none" => sub'[d].serial # 0
          BY <4>1, <4>2, <3>1, <3>2 DEF ClientTypes
        <4>7. RouterTypes' /\ IsFiniteSet(regs') /\ owner' \in [Devices -> Nat]
          BY <4>1 DEF routerVars, RouterTypes, ClientTypes
        <4> HIDE DEF TypeInv, TypeOK
        <4> QED BY <4>4, <4>5, <4>6, <4>7, Zenon
      <3>3. CASE ~(frame.serial = sub[c].serial /\ sub[c].state # "none")
        <4>1. /\ UNCHANGED <<sub, coll>>
              /\ \/ HandleUnsubscribe(c) /\ owner' = [owner EXCEPT ![c] = 0]
                 \/ UNCHANGED <<routerVars, owner>>
          BY <2>2, <3>3 DEF OnResponse
        <4>2. RouterTypes' /\ IsFiniteSet(regs') /\ owner' \in [Devices -> Nat]
          <5>1. CASE HandleUnsubscribe(c) /\ owner' = [owner EXCEPT ![c] = 0]
            BY <5>1, HandleUnsubscribeTypes DEF ClientTypes
          <5>2. CASE UNCHANGED <<routerVars, owner>>
            BY <5>2 DEF routerVars, RouterTypes, ClientTypes
          <5> QED BY <4>1, <5>1, <5>2
        <4> QED BY <4>1, <4>2 DEF ClientTypes
      <3> QED BY <3>2, <3>3
    <2>3. CASE frame.type = "error" /\ OnError(c, frame)
      BY <2>3 DEF OnError, routerVars, RouterTypes, ClientTypes
    <2> QED BY <1>5, <2>1, <2>2, <2>3
  <1> QED BY <1>3, <1>4, <1>7 DEF Rest, daemonVars, ClientTypes, DaemonTypes

LEMMA TypeInvStep == TypeInv /\ [Next]_vars => TypeInv'
  <1> SUFFICES ASSUME TypeInv, [Next]_vars PROVE TypeInv'
    OBVIOUS
  <1>1. SessionInv'
    BY SessionInvStep DEF TypeInv
  <1>2. Rest'
    <2>1. CASE UNCHANGED vars
      BY <2>1 DEF vars, daemonVars, routerVars, clientVars, Rest, TypeInv, TypeOK,
         DaemonTypes, RouterTypes, ClientTypes
    <2>2. CASE Next
      BY <2>2, SessionStepTypes, RestartTypes, ReadStepTypes, ConnectTypes,
         DisconnectTypes, SubscribeTypes, UnsubscribeTypes, DeliverTypes DEF Next
    <2> QED BY <2>1, <2>2
  <1> QED BY <1>1, <1>2, RestSuffices

(* Every variable keeps its type in every reachable state, for every set   *)
(* of devices and without any bound: every frame put on a connection is    *)
(* one the protocol knows and every cursor a device resumes from is a      *)
(* number some daemon process has handed out.                              *)
THEOREM TypeCorrect == Spec => []TypeOK
  <1>1. TypeInv => TypeOK
    BY DEF TypeInv
  <1> QED BY <1>1, TypeInvInit, TypeInvStep, PTL DEF Spec

-----------------------------------------------------------------------------
(* The stream itself.  A link is all of the state that concerns one        *)
(* device; the daemon's event log is part of it.  What follows is said of  *)
(* links, so that a step is a relation between two of them and whatever it *)
(* leaves alone is the same link.                                          *)
Link(c) ==
    [device |-> c, conn |-> conn[c], conns |-> conns[c], down |-> down[c],
     sub |-> sub[c], owner |-> owner[c], coll |-> coll[c],
     doubled |-> doubled[c], regs |-> {r \in regs : r.device = c},
     reads |-> {rd \in reads : rd.device = c}, epoch |-> epoch, log |-> rt.log]

LinkType(L) ==
    /\ L.device \in Devices
    /\ L.conn \in Nat /\ L.conns \in Nat /\ L.owner \in Nat
    /\ L.down \in Seq(Frame)
    /\ L.sub \in Subscription /\ L.coll \in Collection
    /\ L.doubled \in BOOLEAN
    /\ L.regs \subseteq Registration /\ IsFiniteSet(L.regs)
    /\ L.reads \subseteq PendingRead
    /\ \A r \in L.regs \cup L.reads : r.device = L.device
    /\ L.epoch \in Nat \ {0} /\ L.log \in Seq(Delta)
    /\ L.sub.state # "none" => L.sub.serial # 0

Mounted(L) == L.sub.state # "none"

(* The callbacks on the present connection, and the one of the present     *)
(* Subscription.                                                           *)
Callbacks(L) == {r \in L.regs : r.conn = L.conn}
Mine(L) == [device |-> L.device, conn |-> L.conn, serial |-> L.sub.serial]

(* The reads whose answer the present Subscription waits for.              *)
Pending(L) == {rd \in L.reads : rd.conn = L.conn /\ rd.serial = L.sub.serial}

(* The i-th frame on its way answers the present Subscription.             *)
Answers(L, i)  == i \in DOMAIN L.down /\ L.down[i].type # "event"
                  /\ L.down[i].serial = L.sub.serial
Responds(L, i) == Answers(L, i) /\ L.down[i].type = "response"

(* Connections and Subscriptions are numbered upwards, and nothing is      *)
(* routed to or on its way to a device that is offline.                    *)
Numbered(L) ==
    /\ L.conn <= L.conns
    /\ L.conn = 0 => L.owner = 0 /\ L.down = <<>> /\ L.sub.state # "subscribed"
    /\ \A r \in L.regs \cup L.reads : r.conn <= L.conns /\ r.serial <= L.sub.serial
    /\ \A i \in DOMAIN L.down : L.down[i].type # "event" =>
          L.down[i].serial <= L.sub.serial

(* A connection that was never doubled carries one callback at most.       *)
Solo(L) == ~L.doubled => \A r, q \in Callbacks(L) : r = q

(* What the frames in flight say is true of this daemon process.           *)
FrameTrue(L, i) ==
    /\ L.down[i].type = "event" =>
          /\ L.down[i].cursor \in 1 .. Len(L.log)
          /\ L.down[i].delta = L.log[L.down[i].cursor]
    /\ L.down[i].type = "response" =>
          /\ L.down[i].epoch = L.epoch
          /\ L.down[i].floor <= L.down[i].cursor
          /\ L.down[i].cursor <= Len(L.log)
          /\ L.down[i].recovered => i = 1

FramesTrue(L) == \A i \in DOMAIN L.down : FrameTrue(L, i)

(* A hint given in this process names one of its events, and a collection  *)
(* built in this process starts no later than the hint.                    *)
Current(L) == Mounted(L) /\ L.sub.epoch = L.epoch

HintTrue(L) ==
    /\ L.sub.epoch <= L.epoch
    /\ L.sub.state = "subscribed" => L.sub.epoch = L.epoch
    /\ Current(L) =>
          /\ L.sub.cursor \in 0 .. Len(L.log)
          /\ L.coll.floor <= L.sub.cursor
          /\ L.coll.sound \/ L.coll.view = L.coll.base
             \/ L.coll.floor < L.sub.cursor

(* A sound collection is its base with the events up to the hint.          *)
ViewTrue(L) ==
    Current(L) /\ L.coll.sound =>
       L.coll.view = FoldDeltas(L.coll.base,
                                SubSeq(L.log, L.coll.floor + 1, L.sub.cursor))

(* A Subscription is answered once: it waits for its read, or its answer   *)
(* is under way, or it has it; and whoever was answered with success is    *)
(* registered and owns the callback slot.                                  *)
AnsweredOnce(L) ==
    /\ L.owner \in {0, L.sub.serial}
    /\ L.sub.state = "subscribed" =>
          /\ L.owner = L.sub.serial /\ Mine(L) \in L.regs
          /\ Pending(L) = {} /\ \A i \in DOMAIN L.down : ~Answers(L, i)
    /\ Pending(L) # {} =>
          L.owner = L.sub.serial /\ \A i \in DOMAIN L.down : ~Answers(L, i)
    /\ \A rd, other \in Pending(L) : rd = other
    /\ \A i \in DOMAIN L.down : Responds(L, i) =>
          L.owner = L.sub.serial /\ Mine(L) \in L.regs
    /\ \A i, j \in DOMAIN L.down : Answers(L, i) /\ Answers(L, j) => i = j

(* A device that resumes in this process hears its answer before anything  *)
(* else: nothing was on the connection before the subscribe it re-issued.  *)
Resuming(L) ==
    L.sub.state = "subscribing" /\ L.sub.epoch = L.epoch /\ L.conn # 0

AnswerComesFirst(L) ==
    Resuming(L) =>
       /\ \A rd \in L.reads : rd.conn = L.conn => rd \in Pending(L)
       /\ \A i \in DOMAIN L.down : L.down[i].type # "event" => Answers(L, i)
       /\ Callbacks(L) # {} => Responds(L, 1)
       /\ \A i \in DOMAIN L.down : L.down[i].type = "event" => Responds(L, 1)

(* The frames behind an answer continue the view the answer leaves.        *)
ContinuesAnswer(L, i) ==
    /\ \A j \in EventsPast(L.down, i) : L.down[i].floor < L.down[j].cursor
    /\ L.down[i].recovered =>
          L.down[i].floor = L.sub.cursor /\ L.sub.epoch = L.epoch
    /\ ~L.doubled =>
          \E m \in L.down[i].floor + 1 .. Len(L.log) + 1 :
             /\ Carries(L.down, i, m, Len(L.log))
             /\ L.down[i].recovered \/ L.down[i].floor = L.down[i].cursor
                   => m = L.down[i].floor + 1

AnswerContinues(L) ==
    \A i \in DOMAIN L.down : Responds(L, i) => ContinuesAnswer(L, i)

(* The frames behind an answered device continue the view it has.          *)
StreamContinues(L) ==
    L.sub.state = "subscribed" =>
       /\ \A j \in EventsPast(L.down, 0) : L.coll.floor < L.down[j].cursor
       /\ ~L.doubled =>
             \E m \in L.coll.floor + 1 .. Len(L.log) + 1 :
                /\ Carries(L.down, 0, m, Len(L.log))
                /\ L.coll.sound => m = L.sub.cursor + 1
                /\ L.coll.sound \/ L.coll.view = L.coll.base
                   \/ L.coll.floor + 1 < m

(* The invariant of a link: what holds always, and what holds while a      *)
(* Subscription is mounted.                                                *)
Sane(L) == Numbered(L) /\ Solo(L) /\ FramesTrue(L) /\ HintTrue(L) /\ ViewTrue(L)

Attended(L) == /\ AnsweredOnce(L) /\ AnswerComesFirst(L)
               /\ AnswerContinues(L) /\ StreamContinues(L)

Wired(L) == Sane(L) /\ (Mounted(L) => Attended(L))

-----------------------------------------------------------------------------
(* What queueing and delivering a frame does to the events of a queue.     *)
LEMMA FrameKinds ==
    ASSUME NEW f \in Frame
    PROVE  /\ f.type \in {"event", "response", "error"}
           /\ f.type = "event" => f.cursor \in Nat /\ f.delta \in Delta
           /\ f.type # "event" => f.serial \in Nat \ {0}
           /\ f.type = "response" =>
                 /\ f.settled \in Seq(Delta) /\ f.cursor \in Nat /\ f.floor \in Nat
                 /\ f.epoch \in Nat \ {0} /\ f.recovered \in BOOLEAN
  BY DEF Frame

LEMMA Appended ==
    ASSUME NEW q \in Seq(Frame), NEW f \in Frame
    PROVE  /\ q \o <<f>> \in Seq(Frame) /\ Len(q) \in Nat
           /\ Len(q \o <<f>>) = Len(q) + 1
           /\ DOMAIN (q \o <<f>>) = 1 .. Len(q) + 1 /\ DOMAIN q = 1 .. Len(q)
           /\ (q \o <<f>>)[Len(q) + 1] = f
           /\ \A i \in 1 .. Len(q) : (q \o <<f>>)[i] = q[i]
  <1>1. <<f>> \in Seq(Frame) /\ Len(<<f>>) = 1 /\ <<f>>[1] = f
    OBVIOUS
  <1> QED BY <1>1

LEMMA Concatenated ==
    ASSUME NEW p \in Seq(Frame), NEW q \in Seq(Frame)
    PROVE  /\ p \o q \in Seq(Frame) /\ DOMAIN (p \o q) = 1 .. Len(p) + Len(q)
           /\ \A i \in 1 .. Len(p) : (p \o q)[i] = p[i]
           /\ \A i \in 1 .. Len(q) : (p \o q)[Len(p) + i] = q[i]
  OBVIOUS

LEMMA Dequeued ==
    ASSUME NEW q \in Seq(Frame), q # <<>>
    PROVE  /\ Tail(q) \in Seq(Frame) /\ Head(q) = q[1] /\ q[1] \in Frame
           /\ Len(q) \in Nat \ {0} /\ Len(Tail(q)) = Len(q) - 1
           /\ DOMAIN q = 1 .. Len(q) /\ DOMAIN Tail(q) = 1 .. Len(q) - 1
           /\ \A i \in 1 .. Len(q) - 1 : Tail(q)[i] = q[i + 1]
  OBVIOUS

LEMMA CarriesEvent ==
    ASSUME NEW q \in Seq(Frame), NEW i \in 0 .. Len(q), NEW m \in Nat, NEW n \in Nat,
           Carries(q, i, m, n), NEW f \in Frame, f.type = "event", f.cursor = n + 1
    PROVE  Carries(q \o <<f>>, i, m, n + 1)
  <1> DEFINE p == q \o <<f>>
             last == Len(q) + 1
  <1>1. /\ Len(q) \in Nat /\ DOMAIN p = 1 .. last /\ DOMAIN q = 1 .. Len(q)
        /\ p[last] = f /\ \A j \in 1 .. Len(q) : p[j] = q[j]
    BY Appended
  <1> HIDE DEF p
  <1>2. EventsPast(p, i) = EventsPast(q, i) \cup {last}
    BY <1>1 DEF EventsPast
  <1>3. \A j \in EventsPast(q, i) : j \in 1 .. Len(q) /\ p[j] = q[j]
    BY <1>1 DEF EventsPast
  <1>4. /\ m <= n + 1 /\ {q[j].cursor : j \in EventsPast(q, i)} = m .. n
        /\ \A j, l \in EventsPast(q, i) : j < l => q[j].cursor < q[l].cursor
    BY DEF Carries
  <1>5. \A j \in EventsPast(q, i) : q[j].cursor \in m .. n
    BY <1>4
  <1>6. {p[j].cursor : j \in EventsPast(p, i)} = m .. n + 1
    <2>1. {p[j].cursor : j \in EventsPast(p, i)}
          = {q[j].cursor : j \in EventsPast(q, i)} \cup {n + 1}
      BY <1>1, <1>2, <1>3
    <2>2. (m .. n) \cup {n + 1} = m .. n + 1
      BY <1>4
    <2> QED BY <2>1, <2>2, <1>4
  <1>7. ASSUME NEW j \in EventsPast(p, i), NEW l \in EventsPast(p, i), j < l
        PROVE  p[j].cursor < p[l].cursor
    <2>1. j \in EventsPast(q, i)
      BY <1>1, <1>2, <1>3, <1>7 DEF EventsPast
    <2>2. CASE l = last
      BY <2>1, <2>2, <1>1, <1>3, <1>5
    <2>3. CASE l \in EventsPast(q, i)
      BY <2>1, <2>3, <1>3, <1>4, <1>7
    <2> QED BY <2>2, <2>3, <1>2
  <1>8. m <= (n + 1) + 1
    BY <1>4
  <1> QED BY <1>6, <1>7, <1>8 DEF Carries, p

LEMMA CarriesOther ==
    ASSUME NEW q \in Seq(Frame), NEW i, NEW f \in Frame, f.type # "event"
    PROVE  /\ EventsPast(q \o <<f>>, i) = EventsPast(q, i)
           /\ \A m, n : Carries(q, i, m, n) => Carries(q \o <<f>>, i, m, n)
  <1> DEFINE p == q \o <<f>>
  <1>1. /\ Len(q) \in Nat /\ DOMAIN p = 1 .. Len(q) + 1 /\ DOMAIN q = 1 .. Len(q)
        /\ p[Len(q) + 1] = f /\ \A j \in 1 .. Len(q) : p[j] = q[j]
    BY Appended
  <1> HIDE DEF p
  <1>2. EventsPast(p, i) = EventsPast(q, i)
    BY <1>1 DEF EventsPast
  <1>3. \A j \in EventsPast(q, i) : p[j] = q[j]
    BY <1>1 DEF EventsPast
  <1>4. \A m, n : Carries(q, i, m, n) => Carries(p, i, m, n)
    <2> SUFFICES ASSUME NEW m, NEW n, Carries(q, i, m, n) PROVE Carries(p, i, m, n)
      OBVIOUS
    <2>1. {p[j].cursor : j \in EventsPast(p, i)} = {q[j].cursor : j \in EventsPast(q, i)}
      BY <1>2, <1>3
    <2>2. \A j, l \in EventsPast(p, i) : j < l => p[j].cursor < p[l].cursor
      BY <1>2, <1>3 DEF Carries
    <2> QED BY <2>1, <2>2 DEF Carries
  <1> QED BY <1>2, <1>4 DEF p

LEMMA CarriesTail ==
    ASSUME NEW q \in Seq(Frame), q # <<>>, NEW i \in Nat
    PROVE  /\ \A j : j \in EventsPast(Tail(q), i) <=>
                        j \in Nat /\ j + 1 \in EventsPast(q, i + 1)
           /\ \A m, n : Carries(q, i + 1, m, n) => Carries(Tail(q), i, m, n)
  <1> DEFINE p == Tail(q)
  <1>1. /\ Len(q) \in Nat \ {0} /\ DOMAIN q = 1 .. Len(q)
        /\ DOMAIN p = 1 .. Len(q) - 1 /\ \A j \in 1 .. Len(q) - 1 : p[j] = q[j + 1]
    BY Dequeued
  <1> HIDE DEF p
  <1>2. \A j : j \in EventsPast(p, i) <=> j \in Nat /\ j + 1 \in EventsPast(q, i + 1)
    BY <1>1 DEF EventsPast
  <1>3. \A j \in EventsPast(p, i) : p[j] = q[j + 1] /\ j \in Nat
    BY <1>1 DEF EventsPast
  <1>4. \A j \in EventsPast(q, i + 1) : j - 1 \in Nat /\ (j - 1) + 1 = j
                                       /\ j - 1 \in EventsPast(p, i)
    BY <1>1 DEF EventsPast
  <1>5. ASSUME NEW m, NEW n, Carries(q, i + 1, m, n) PROVE Carries(p, i, m, n)
    <2>1. {p[j].cursor : j \in EventsPast(p, i)} = {q[j].cursor : j \in EventsPast(q, i + 1)}
      BY <1>2, <1>3, <1>4
    <2>2. ASSUME NEW j \in EventsPast(p, i), NEW l \in EventsPast(p, i), j < l
          PROVE  p[j].cursor < p[l].cursor
      <3>1. j + 1 \in EventsPast(q, i + 1) /\ l + 1 \in EventsPast(q, i + 1) /\ j + 1 < l + 1
        BY <1>2, <1>3, <2>2
      <3> QED BY <3>1, <1>3, <1>5 DEF Carries
    <2> QED BY <2>1, <2>2, <1>5 DEF Carries
  <1> QED BY <1>2, <1>5 DEF p

(* The head of a queue that carries m .. n is the m-th event, or none.     *)
LEMMA CarriesHead ==
    ASSUME NEW q \in Seq(Frame), q # <<>>, NEW m \in Nat, NEW n \in Nat,
           Carries(q, 0, m, n)
    PROVE  /\ q[1].type # "event" => Carries(q, 1, m, n)
           /\ q[1].type = "event" => q[1].cursor = m /\ m <= n /\ Carries(q, 1, m + 1, n)
  <1>1. Len(q) \in Nat \ {0} /\ DOMAIN q = 1 .. Len(q)
    BY Dequeued
  <1>2. /\ m <= n + 1 /\ {q[j].cursor : j \in EventsPast(q, 0)} = m .. n
        /\ \A j, l \in EventsPast(q, 0) : j < l => q[j].cursor < q[l].cursor
    BY DEF Carries
  <1>3. CASE q[1].type # "event"
    <2>1. EventsPast(q, 1) = EventsPast(q, 0)
      BY <1>1, <1>3 DEF EventsPast
    <2> QED BY <2>1, <1>3 DEF Carries
  <1>4. CASE q[1].type = "event"
    <2>1. 1 \in EventsPast(q, 0) /\ EventsPast(q, 0) = EventsPast(q, 1) \cup {1}
          /\ \A j \in EventsPast(q, 1) : j \in Nat /\ j > 1
      BY <1>1, <1>4 DEF EventsPast
    <2>in. \A j \in EventsPast(q, 0) : q[j].cursor \in m .. n
      BY <1>2
    <2>2. q[1].cursor \in m .. n /\ m \in m .. n
      BY <2>1, <2>in
    <2>3. PICK k \in EventsPast(q, 0) : q[k].cursor = m
      BY <2>2, <1>2
    <2>4. k = 1
      <3> SUFFICES ASSUME k # 1 PROVE FALSE
        OBVIOUS
      <3>1. k \in EventsPast(q, 1) /\ 1 < k
        BY <2>1, <2>3
      <3>2. q[1].cursor < q[k].cursor
        BY <3>1, <2>1, <2>3, <1>2
      <3> QED BY <3>2, <2>2, <2>3
    <2>5. q[1].cursor = m
      BY <2>3, <2>4
    <2>6. \A j \in EventsPast(q, 1) : q[j].cursor \in m + 1 .. n
      <3> TAKE j \in EventsPast(q, 1)
      <3>1. q[1].cursor < q[j].cursor /\ q[j].cursor \in m .. n
        BY <2>1, <1>2
      <3> QED BY <3>1, <2>5
    <2>7. \A v \in m + 1 .. n : \E j \in EventsPast(q, 1) : q[j].cursor = v
      <3> TAKE v \in m + 1 .. n
      <3>1. v \in m .. n /\ v # m
        OBVIOUS
      <3>2. PICK j \in EventsPast(q, 0) : q[j].cursor = v
        BY <3>1, <1>2
      <3> QED BY <3>1, <3>2, <2>1, <2>5
    <2>8. {q[j].cursor : j \in EventsPast(q, 1)} = m + 1 .. n
      BY <2>6, <2>7
    <2>9. m + 1 <= n + 1
      BY <2>2
    <2> QED BY <2>1, <2>2, <2>5, <2>8, <2>9, <1>2, <1>4 DEF Carries
  <1> QED BY <1>3, <1>4

(* An answer followed by a replay of the log's tail from m on.             *)
Answering(q, f, replay) == q \o <<f>> \o EventFrames(replay)

TailFrom(replay, m, n) ==
    /\ replay \in Seq(Event) /\ m \in Nat \ {0} /\ n \in Nat /\ m <= n + 1
    /\ Len(replay) = (n + 1) - m
    /\ \A k \in 1 .. Len(replay) : replay[k].cursor = (m - 1) + k

Laid(p, q, f, replay) ==
    /\ p \in Seq(Frame) /\ DOMAIN q = 1 .. Len(q) /\ Len(q) \in Nat
    /\ DOMAIN p = 1 .. Len(q) + 1 + Len(replay)
    /\ \A i \in 1 .. Len(q) : p[i] = q[i]
    /\ p[Len(q) + 1] = f
    /\ \A k \in 1 .. Len(replay) : p[Len(q) + 1 + k] = EventFrame(replay[k])

LEMMA CarriesReplay ==
    ASSUME NEW q \in Seq(Frame), NEW f \in Frame, f.type # "event",
           NEW replay, NEW m, NEW n, TailFrom(replay, m, n)
    PROVE  /\ Laid(Answering(q, f, replay), q, f, replay)
           /\ Carries(Answering(q, f, replay), Len(q) + 1, m, n)
  <1> PICK p : p = Answering(q, f, replay)
    OBVIOUS
  <1>0. /\ replay \in Seq(Event) /\ m \in Nat \ {0} /\ n \in Nat /\ m <= n + 1
        /\ Len(replay) = (n + 1) - m
        /\ \A k \in 1 .. Len(replay) : replay[k].cursor = (m - 1) + k
    BY DEF TailFrom
  <1> USE <1>0
  <1> DEFINE frames == EventFrames(replay)
             a == Len(q) + 1
             front == q \o <<f>>
  <1>1. frames \in Seq(Frame) /\ Len(frames) = Len(replay) /\ Len(replay) \in Nat
        /\ \A k \in 1 .. Len(replay) : frames[k] = EventFrame(replay[k])
    <2>1. \A k \in DOMAIN replay : EventFrame(replay[k]) \in Frame
      BY FrameTypes
    <2>2. DOMAIN replay = 1 .. Len(replay) /\ Len(replay) \in Nat
      OBVIOUS
    <2>3. frames = [k \in 1 .. Len(replay) |-> EventFrame(replay[k])]
      BY <2>2 DEF EventFrames
    <2> HIDE DEF frames
    <2>4. \A k \in 1 .. Len(replay) : EventFrame(replay[k]) \in Frame
      BY <2>1, <2>2
    <2>5. \A k \in 1 .. Len(replay) : frames[k] = EventFrame(replay[k])
      BY <2>3
    <2>7. DOMAIN frames = 1 .. Len(replay) /\ \A k \in 1 .. Len(replay) : frames[k] \in Frame
      BY <2>3, <2>4, <2>5
    <2>8. frames = [k \in 1 .. Len(replay) |-> frames[k]]
      BY <2>3, <2>7
    <2>9. frames \in [1 .. Len(replay) -> Frame]
      BY <2>7, <2>8
    <2>6. frames \in Seq(Frame) /\ Len(frames) = Len(replay)
      BY <2>2, <2>9
    <2> QED BY <2>2, <2>5, <2>6
  <1> HIDE DEF frames
  <1>2. /\ front \in Seq(Frame) /\ Len(front) = a /\ Len(q) \in Nat
        /\ DOMAIN q = 1 .. Len(q) /\ front[a] = f
        /\ \A i \in 1 .. Len(q) : front[i] = q[i]
    BY Appended
  <1>p. p = front \o frames
    BY DEF Answering, frames
  <1> HIDE DEF front
  <1>3. /\ p \in Seq(Frame) /\ DOMAIN p = 1 .. a + Len(replay)
        /\ \A i \in 1 .. a : p[i] = front[i]
        /\ \A k \in 1 .. Len(replay) : p[a + k] = frames[k]
    <2>3. a \in Nat
      BY <1>2
    <2> HIDE DEF a
    <2>4. /\ front \o frames \in Seq(Frame)
          /\ DOMAIN (front \o frames) = 1 .. Len(front) + Len(frames)
          /\ \A i \in 1 .. Len(front) : (front \o frames)[i] = front[i]
          /\ \A i \in 1 .. Len(frames) : (front \o frames)[Len(front) + i] = frames[i]
      BY <1>1, <1>2, Concatenated
    <2> QED BY <2>3, <2>4, <1>1, <1>2, <1>p
  <1>4. EventsPast(p, a) = a + 1 .. a + Len(replay)
    <2>1. \A j \in a + 1 .. a + Len(replay) : p[j].type = "event"
      <3> TAKE j \in a + 1 .. a + Len(replay)
      <3>1. j - a \in 1 .. Len(replay) /\ a + (j - a) = j
        BY <1>1, <1>2
      <3>2. p[j] = EventFrame(replay[j - a])
        BY <3>1, <1>1, <1>3
      <3> QED BY <3>2 DEF EventFrame
    <2> QED BY <2>1, <1>1, <1>2, <1>3 DEF EventsPast
  <1>5. \A j \in EventsPast(p, a) : p[j].cursor = (m - 1) + (j - a)
    <2> TAKE j \in EventsPast(p, a)
    <2>1. j - a \in 1 .. Len(replay) /\ a + (j - a) = j
      BY <1>1, <1>2, <1>4
    <2>2. p[j] = EventFrame(replay[j - a])
      BY <2>1, <1>1, <1>3
    <2> QED BY <2>1, <2>2 DEF EventFrame
  <1>6. {p[j].cursor : j \in EventsPast(p, a)} = m .. n
    <2>1. \A v \in m .. n : a + (v - (m - 1)) \in EventsPast(p, a)
                            /\ (m - 1) + ((a + (v - (m - 1))) - a) = v
      BY <1>1, <1>2, <1>4
    <2>2. \A j \in EventsPast(p, a) : (m - 1) + (j - a) \in m .. n
      BY <1>1, <1>2, <1>4
    <2> DEFINE C == {p[j].cursor : j \in EventsPast(p, a)}
    <2>3. C \subseteq m .. n
      BY <2>2, <1>5
    <2>4. \A v \in m .. n : \E j \in EventsPast(p, a) : p[j].cursor = v
      <3> TAKE v \in m .. n
      <3>1. PICK j \in EventsPast(p, a) : (m - 1) + (j - a) = v
        BY <2>1
      <3> QED BY <3>1, <1>5
    <2>5. m .. n \subseteq C
      BY <2>4
    <2> HIDE DEF C
    <2>6. C = m .. n
      BY <2>3, <2>5
    <2> QED BY <2>6 DEF C
  <1>7. \A j, l \in EventsPast(p, a) : j < l => p[j].cursor < p[l].cursor
    <2> TAKE j, l \in EventsPast(p, a)
    <2>1. j \in Int /\ l \in Int /\ a \in Int
      BY <1>1, <1>2, <1>4
    <2> QED BY <2>1, <1>5
  <1>8. Carries(p, a, m, n)
    BY <1>6, <1>7 DEF Carries
  <1>9. \A k \in 1 .. Len(replay) : p[a + k] = EventFrame(replay[k])
    BY <1>1, <1>3
  <1>10. DOMAIN p = 1 .. Len(q) + 1 + Len(replay)
    BY <1>3
  <1>11. \A i \in 1 .. Len(q) : p[i] = q[i]
    BY <1>2, <1>3
  <1>12. p[a] = f
    BY <1>2, <1>3
  <1>13. Laid(p, q, f, replay)
    BY <1>2, <1>3, <1>9, <1>10, <1>11, <1>12 DEF Laid
  <1> QED BY <1>8, <1>13

-----------------------------------------------------------------------------
(* The daemon adds an event: every callback of the device's connection     *)
(* queues one frame.                                                       *)
NewFrame(L, d) == EventFrame([cursor |-> Len(L.log) + 1, delta |-> d])

Fanned(L, d) == L.down \o [i \in 1 .. Cardinality(Callbacks(L)) |-> NewFrame(L, d)]

Grown(L, M, d) ==
    /\ M.log = Append(L.log, d)
    /\ M.down = Fanned(L, d)
    /\ M.device = L.device /\ M.conn = L.conn /\ M.conns = L.conns
    /\ M.sub = L.sub /\ M.owner = L.owner /\ M.coll = L.coll
    /\ M.doubled = L.doubled /\ M.regs = L.regs /\ M.reads = L.reads
    /\ M.epoch = L.epoch

(* The fields of a link, as the leaves below need them.                    *)
LEMMA LinkFields ==
    ASSUME NEW L, LinkType(L)
    PROVE  /\ L.sub.serial \in Nat /\ L.sub.epoch \in Nat
           /\ L.sub.cursor \in Nat \cup {NoCursor}
           /\ L.sub.state \in {"none", "subscribing", "subscribed"}
           /\ L.coll.floor \in Nat /\ L.coll.sound \in BOOLEAN
           /\ L.coll.view \in Seq(Delta) /\ L.coll.base \in Seq(Delta)
           /\ Len(L.log) \in Nat /\ Len(L.down) \in Nat
           /\ DOMAIN L.down = 1 .. Len(L.down)
           /\ \A i \in 1 .. Len(L.down) : L.down[i] \in Frame
           /\ \A r \in L.regs : r.conn \in Nat \ {0} /\ r.serial \in Nat \ {0}
           /\ \A rd \in L.reads : rd.conn \in Nat \ {0} /\ rd.serial \in Nat \ {0}
  <1>1. /\ L.sub \in Subscription /\ L.coll \in Collection /\ L.log \in Seq(Delta)
        /\ L.down \in Seq(Frame) /\ L.regs \subseteq Registration
        /\ L.reads \subseteq PendingRead
    BY DEF LinkType
  <1>2. /\ L.sub.serial \in Nat /\ L.sub.epoch \in Nat
        /\ L.sub.cursor \in Nat \cup {NoCursor}
        /\ L.sub.state \in {"none", "subscribing", "subscribed"}
    BY <1>1 DEF Subscription
  <1>3. /\ L.coll.floor \in Nat /\ L.coll.sound \in BOOLEAN
        /\ L.coll.view \in Seq(Delta) /\ L.coll.base \in Seq(Delta)
    BY <1>1 DEF Collection
  <1>4. /\ Len(L.log) \in Nat /\ Len(L.down) \in Nat
        /\ DOMAIN L.down = 1 .. Len(L.down)
        /\ \A i \in 1 .. Len(L.down) : L.down[i] \in Frame
    BY <1>1
  <1>5. \A r \in L.regs : r.conn \in Nat \ {0} /\ r.serial \in Nat \ {0}
    BY <1>1 DEF Registration
  <1>6. \A rd \in L.reads : rd.conn \in Nat \ {0} /\ rd.serial \in Nat \ {0}
    BY <1>1 DEF PendingRead
  <1> QED BY <1>2, <1>3, <1>4, <1>5, <1>6

(* What the new frames are, and how many.                                  *)
LEMMA Fanout ==
    ASSUME NEW L, LinkType(L), NEW d \in Delta
    PROVE  LET n == Cardinality(Callbacks(L))
               p == Fanned(L, d)
           IN /\ n \in Nat /\ NewFrame(L, d) \in Frame
              /\ p \in Seq(Frame) /\ DOMAIN p = 1 .. Len(L.down) + n
              /\ \A i \in 1 .. Len(L.down) : p[i] = L.down[i]
              /\ \A i \in Len(L.down) + 1 .. Len(L.down) + n : p[i] = NewFrame(L, d)
              /\ Callbacks(L) = {} => n = 0
              /\ n # 0 => Callbacks(L) # {}
              /\ ~L.doubled /\ Solo(L) /\ Mine(L) \in L.regs
                    => p = L.down \o <<NewFrame(L, d)>>
  <1> DEFINE n == Cardinality(Callbacks(L))
             f == NewFrame(L, d)
             copies == [i \in 1 .. n |-> f]
             p == L.down \o copies
  <1>1. n \in Nat
    <2>1. Callbacks(L) \in SUBSET L.regs /\ IsFiniteSet(L.regs)
      BY DEF Callbacks, LinkType
    <2> QED BY <2>1, FS_Subset, FS_CardinalityType
  <1>2. f \in Frame
    <2>1. Len(L.log) + 1 \in Nat
      BY DEF LinkType
    <2>2. [cursor |-> Len(L.log) + 1, delta |-> d] \in Event
      BY <2>1 DEF Event
    <2> QED BY <2>2, FrameTypes DEF NewFrame
  <1>3. Callbacks(L) = {} => n = 0
    BY FS_EmptySet
  <1>4. ~L.doubled /\ Solo(L) /\ Mine(L) \in L.regs => n = 1
    <2> SUFFICES ASSUME ~L.doubled, Solo(L), Mine(L) \in L.regs PROVE n = 1
      OBVIOUS
    <2>1. Mine(L) \in Callbacks(L)
      BY DEF Mine, Callbacks
    <2>2. Callbacks(L) = {Mine(L)}
      BY <2>1 DEF Solo
    <2> QED BY <2>2, FS_Singleton
  <1> HIDE DEF n, f
  <1>5. copies \in Seq(Frame) /\ Len(copies) = n /\ \A i \in 1 .. n : copies[i] = f
    BY <1>1, <1>2
  <1>6. L.down \in Seq(Frame) /\ Len(L.down) \in Nat
    BY DEF LinkType
  <1>7. n = 1 => copies = <<f>>
    BY <1>1, <1>2
  <1> HIDE DEF copies
  <1>8. /\ p \in Seq(Frame) /\ DOMAIN p = 1 .. Len(L.down) + n
        /\ \A i \in 1 .. Len(L.down) : p[i] = L.down[i]
        /\ \A i \in 1 .. n : p[Len(L.down) + i] = f
    <2>1. /\ L.down \o copies \in Seq(Frame)
          /\ DOMAIN (L.down \o copies) = 1 .. Len(L.down) + Len(copies)
          /\ \A i \in 1 .. Len(L.down) : (L.down \o copies)[i] = L.down[i]
          /\ \A i \in 1 .. Len(copies) : (L.down \o copies)[Len(L.down) + i] = copies[i]
      BY <1>5, <1>6, Concatenated
    <2> QED BY <2>1, <1>5
  <1>9. n = 1 => p = L.down \o <<f>>
    BY <1>7
  <1> HIDE DEF p
  <1>10. \A i \in Len(L.down) + 1 .. Len(L.down) + n : p[i] = f
    <2> TAKE i \in Len(L.down) + 1 .. Len(L.down) + n
    <2>1. i - Len(L.down) \in 1 .. n /\ Len(L.down) + (i - Len(L.down)) = i
      BY <1>1, <1>6
    <2> QED BY <2>1, <1>8
  <1> QED BY <1>1, <1>2, <1>3, <1>4, <1>8, <1>9, <1>10 DEF n, f, copies, p, Fanned

LEMMA GrownWired ==
    ASSUME NEW L, LinkType(L), Wired(L), NEW d \in Delta, NEW M, Grown(L, M, d)
    PROVE  LinkType(M) /\ Wired(M)
  <1> DEFINE n == Cardinality(Callbacks(L))
             f == NewFrame(L, d)
             q == L.down
             p == M.down
             a == Len(q)
             last == Len(L.log)
  <1>0. f.type = "event" /\ f.cursor = last + 1 /\ f.delta = d
    BY DEF NewFrame, EventFrame
  <1>1. /\ n \in Nat /\ f \in Frame /\ p \in Seq(Frame)
        /\ DOMAIN p = 1 .. a + n
        /\ \A i \in 1 .. a : p[i] = q[i]
        /\ \A i \in a + 1 .. a + n : p[i] = f
        /\ Callbacks(L) = {} => n = 0
        /\ n # 0 => Callbacks(L) # {}
        /\ ~L.doubled /\ Mine(L) \in L.regs => p = q \o <<f>>
    <2>1. Solo(L) /\ M.down = Fanned(L, d)
      BY DEF Grown, Wired, Sane
    <2> QED BY <2>1, Fanout
  <1>2. /\ a \in Nat /\ DOMAIN q = 1 .. a /\ last \in Nat
        /\ q \in Seq(Frame) /\ \A i \in 1 .. a : q[i] \in Frame
    BY LinkFields DEF LinkType
  <1>3. /\ M.device = L.device /\ M.conn = L.conn /\ M.conns = L.conns
        /\ M.sub = L.sub /\ M.owner = L.owner /\ M.coll = L.coll
        /\ M.doubled = L.doubled /\ M.regs = L.regs /\ M.reads = L.reads
        /\ M.epoch = L.epoch
    BY DEF Grown
  <1>4. /\ M.log \in Seq(Delta) /\ Len(M.log) = last + 1 /\ M.log[last + 1] = d
        /\ \A k \in 1 .. last : M.log[k] = L.log[k]
    BY DEF Grown, LinkType
  <1>5. LinkType(M)
    BY <1>1, <1>3, <1>4 DEF LinkType
  <1>6. /\ Callbacks(M) = Callbacks(L) /\ Mine(M) = Mine(L) /\ Pending(M) = Pending(L)
        /\ (Mounted(M) <=> Mounted(L)) /\ (Current(M) <=> Current(L))
        /\ (Resuming(M) <=> Resuming(L))
    BY <1>3 DEF Callbacks, Mine, Pending, Mounted, Current, Resuming
  <1>view. Current(L) /\ L.coll.sound =>
             L.coll.view = FoldDeltas(L.coll.base,
                              SubSeq(M.log, L.coll.floor + 1, L.sub.cursor))
    <2> SUFFICES ASSUME Current(L), L.coll.sound
                 PROVE  L.coll.view = FoldDeltas(L.coll.base,
                              SubSeq(M.log, L.coll.floor + 1, L.sub.cursor))
      OBVIOUS
    <2>1. L.sub.cursor \in L.coll.floor .. Len(L.log)
      BY LinkFields DEF Wired, Sane, HintTrue
    <2>2. SubSeq(M.log, L.coll.floor + 1, L.sub.cursor)
          = SubSeq(L.log, L.coll.floor + 1, L.sub.cursor)
      <3>1. /\ L.coll.base \in Seq(Delta) /\ L.log \in Seq(Delta) /\ L.coll.floor \in Nat
            /\ M.log = Append(L.log, d)
        BY LinkFields DEF Grown, LinkType
      <3> QED BY <2>1, <3>1, LogPrefix
    <2> QED BY <2>2 DEF Wired, Sane, ViewTrue
  <1> HIDE DEF n, f, p, q, a, last
  <1>7. \A i : (Answers(M, i) <=> Answers(L, i)) /\ (Responds(M, i) <=> Responds(L, i))
               /\ (Answers(L, i) => i \in 1 .. a)
    <2>1. \A i : i \in DOMAIN M.down /\ M.down[i].type # "event" =>
             i \in 1 .. a /\ M.down[i] = L.down[i]
      BY <1>0, <1>1, <1>2 DEF p, q
    <2>2. \A i \in 1 .. a : i \in DOMAIN M.down /\ M.down[i] = L.down[i]
      BY <1>1, <1>2 DEF p, q
    <2>3. \A i : i \in DOMAIN L.down <=> i \in 1 .. a
      BY <1>2 DEF q
    <2>4. \A i : Answers(M, i) <=> Answers(L, i)
      BY <2>1, <2>2, <2>3, <1>3 DEF Answers
    <2>5. \A i : Answers(L, i) => i \in 1 .. a
      BY <2>3 DEF Answers
    <2> QED BY <2>2, <2>4, <2>5 DEF Responds
  <1>8. \A i \in 1 .. a : M.down[i] = L.down[i]
    BY <1>1 DEF p, q
  <1>9. Sane(M)
    <2>1. Numbered(M)
      <3>1. M.conn = 0 => M.owner = 0 /\ M.down = <<>> /\ M.sub.state # "subscribed"
        <4> SUFFICES ASSUME M.conn = 0 PROVE M.owner = 0 /\ M.down = <<>> /\ M.sub.state # "subscribed"
          OBVIOUS
        <4>1. L.owner = 0 /\ q = <<>> /\ L.sub.state # "subscribed"
          BY <1>3 DEF Wired, Sane, Numbered, q
        <4>2. Callbacks(L) = {}
          BY <1>3, LinkFields DEF Callbacks
        <4>3. a = 0 /\ n = 0
          BY <4>1, <4>2, <1>1 DEF a
        <4>4. p = <<>>
          BY <4>3, <1>1
        <4> QED BY <4>1, <4>4, <1>3 DEF p
      <3>2. \A i \in DOMAIN M.down : M.down[i].type # "event" =>
               i \in DOMAIN L.down /\ M.down[i] = L.down[i]
        BY <1>0, <1>1, <1>2 DEF p, q
      <3> QED BY <3>1, <3>2, <1>3 DEF Wired, Sane, Numbered
    <2>2. Solo(M)
      BY <1>3, <1>6 DEF Wired, Sane, Solo
    <2>3. FramesTrue(M)
      <3> SUFFICES ASSUME NEW i \in 1 .. a + n PROVE FrameTrue(M, i)
        BY <1>1 DEF FramesTrue, p
      <3>1. CASE i \in 1 .. a
        <4>1. M.down[i] = L.down[i] /\ L.down[i] \in Frame
          BY <3>1, <1>2, <1>8 DEF q
        <4>2. FrameTrue(L, i)
          BY <3>1, <1>2 DEF Wired, Sane, FramesTrue, q
        <4>3. M.down[i].type = "event" =>
                 /\ M.down[i].cursor \in 1 .. last
                 /\ M.down[i].delta = L.log[M.down[i].cursor]
          BY <4>1, <4>2 DEF FrameTrue, last
        <4>4. M.down[i].type = "event" =>
                 /\ M.down[i].cursor \in 1 .. Len(M.log)
                 /\ M.down[i].delta = M.log[M.down[i].cursor]
          BY <4>3, <1>2, <1>4
        <4>5. M.down[i].type = "response" =>
                 /\ M.down[i].epoch = M.epoch /\ M.down[i].floor <= M.down[i].cursor
                 /\ M.down[i].cursor <= last /\ M.down[i].cursor \in Nat
                 /\ M.down[i].recovered => i = 1
          BY <4>1, <4>2, <1>3, FrameKinds DEF FrameTrue, last
        <4>6. M.down[i].type = "response" => M.down[i].cursor <= Len(M.log)
          BY <4>5, <1>2, <1>4
        <4> QED BY <4>4, <4>5, <4>6 DEF FrameTrue
      <3>2. CASE i \in a + 1 .. a + n
        <4>1. M.down[i] = f
          BY <3>2, <1>1 DEF p
        <4> QED BY <4>1, <1>0, <1>2, <1>4 DEF FrameTrue
      <3> QED BY <3>1, <3>2, <1>1, <1>2
    <2>4. HintTrue(M)
      <3>1. HintTrue(L) /\ Len(L.log) \in Nat /\ Len(M.log) = Len(L.log) + 1
        BY <1>2, <1>4 DEF Wired, Sane, last
      <3>2. Current(L) => L.sub.cursor \in 0 .. Len(M.log)
        BY <3>1 DEF HintTrue
      <3> QED BY <3>1, <3>2, <1>3, <1>6 DEF HintTrue
    <2>5. ViewTrue(M)
      <3> SUFFICES ASSUME Current(M), M.coll.sound
                   PROVE  M.coll.view = FoldDeltas(M.coll.base,
                                SubSeq(M.log, M.coll.floor + 1, M.sub.cursor))
        BY DEF ViewTrue
      <3>1. Current(L) /\ L.coll.sound
        BY <1>3, <1>6
      <3> QED BY <3>1, <1>3, <1>view
    <2> QED BY <2>1, <2>2, <2>3, <2>4, <2>5 DEF Sane
  <1>10. ASSUME Mounted(L)
         PROVE  Attended(M)
    <2>0. Attended(L)
      BY <1>10 DEF Wired
    <2>1. AnsweredOnce(M)
      <3>1. AnsweredOnce(L) /\ \A i : Answers(L, i) => i \in DOMAIN L.down
        BY <2>0 DEF Attended, Answers
      <3>2. (\A i \in DOMAIN L.down : ~Answers(L, i))
               => \A i \in DOMAIN M.down : ~Answers(M, i)
        BY <3>1, <1>7
      <3>3. \A i \in DOMAIN M.down : Responds(M, i) =>
               M.owner = M.sub.serial /\ Mine(M) \in M.regs
        BY <3>1, <1>3, <1>6, <1>7 DEF AnsweredOnce, Responds
      <3>4. \A i, j \in DOMAIN M.down : Answers(M, i) /\ Answers(M, j) => i = j
        BY <3>1, <1>7 DEF AnsweredOnce
      <3> QED BY <3>1, <3>2, <3>3, <3>4, <1>3, <1>6 DEF AnsweredOnce
    <2>2. AnswerComesFirst(M)
      <3> SUFFICES ASSUME Resuming(L) PROVE AnswerComesFirst(M)
        BY <1>6 DEF AnswerComesFirst
      <3>0. /\ \A rd \in L.reads : rd.conn = L.conn => rd \in Pending(L)
            /\ \A i \in DOMAIN L.down : L.down[i].type # "event" => Answers(L, i)
            /\ Callbacks(L) # {} => Responds(L, 1)
            /\ \A i \in DOMAIN L.down : L.down[i].type = "event" => Responds(L, 1)
        BY <2>0 DEF Attended, AnswerComesFirst
      <3>a. \A i \in 1 .. a + n : i \in 1 .. a \/ i \in a + 1 .. a + n
        BY <1>1, <1>2
      <3>b. \A i \in 1 .. a : i \in DOMAIN L.down /\ M.down[i] = L.down[i]
        BY <1>1, <1>2 DEF p, q
      <3>1. \A i \in 1 .. a + n : M.down[i].type # "event" => Answers(M, i)
        <4> SUFFICES ASSUME NEW i \in 1 .. a + n, M.down[i].type # "event"
                     PROVE  Answers(L, i)
          BY <1>7
        <4>1. i \in 1 .. a
          BY <3>a, <1>0, <1>1 DEF p
        <4> QED BY <4>1, <3>0, <3>b
      <3>2. \A i \in 1 .. a + n : M.down[i].type = "event" => Responds(M, 1)
        <4> SUFFICES ASSUME NEW i \in 1 .. a + n, M.down[i].type = "event"
                     PROVE  Responds(L, 1)
          BY <1>7
        <4>1. CASE i \in 1 .. a
          BY <4>1, <3>0, <3>b
        <4>2. CASE i \in a + 1 .. a + n
          <5>1. n # 0
            BY <4>2, <1>1, <1>2
          <5> QED BY <5>1, <3>0, <1>1
        <4> QED BY <4>1, <4>2, <3>a
      <3>3. \A rd \in M.reads : rd.conn = M.conn => rd \in Pending(M)
        BY <3>0, <1>3, <1>6
      <3>4. Callbacks(M) # {} => Responds(M, 1)
        BY <3>0, <1>6, <1>7
      <3>5. DOMAIN M.down = 1 .. a + n
        BY <1>1 DEF p
      <3> QED BY <3>1, <3>2, <3>3, <3>4, <3>5 DEF AnswerComesFirst
    <2>past. \A i \in Nat : \A j \in EventsPast(M.down, i) :
                \/ j \in EventsPast(L.down, i) /\ M.down[j] = L.down[j]
                \/ M.down[j].cursor = last + 1
      BY <1>0, <1>1, <1>2 DEF EventsPast, p, q
    <2>one. \A i \in 0 .. a, m \in Nat :
               ~L.doubled /\ Mine(L) \in L.regs /\ Carries(L.down, i, m, last)
                  => Carries(M.down, i, m, last + 1)
      <3> SUFFICES ASSUME NEW i \in 0 .. a, NEW m \in Nat, ~L.doubled, Mine(L) \in L.regs,
                          Carries(L.down, i, m, last)
                   PROVE  Carries(M.down, i, m, last + 1)
        OBVIOUS
      <3>1. M.down = L.down \o <<f>>
        BY <1>1 DEF p, q
      <3>2. L.down \in Seq(Frame) /\ i \in 0 .. Len(L.down)
        BY <1>2 DEF q, a
      <3> QED BY <3>1, <3>2, <1>0, <1>1, <1>2, CarriesEvent
    <2>3. AnswerContinues(M)
      <3> SUFFICES ASSUME NEW i, Responds(L, i) PROVE ContinuesAnswer(M, i)
        BY <1>7 DEF AnswerContinues
      <3>1. i \in 1 .. a /\ M.down[i] = L.down[i] /\ L.down[i] \in Frame
            /\ L.down[i].type = "response"
        BY <1>2, <1>7, <1>8 DEF Responds, q
      <3>2. ContinuesAnswer(L, i) /\ FrameTrue(L, i) /\ Mine(L) \in L.regs
        BY <2>0, <3>1, <1>2 DEF Attended, AnswerContinues, AnsweredOnce, Wired, Sane,
           FramesTrue, q
      <3>3. /\ L.down[i].floor \in Nat /\ L.down[i].cursor \in Nat
            /\ L.down[i].floor <= last
        BY <3>1, <3>2, <1>2, FrameKinds DEF FrameTrue, last
      <3>4. \A j \in EventsPast(M.down, i) : M.down[i].floor < M.down[j].cursor
        BY <3>1, <3>2, <3>3, <2>past, <1>2 DEF ContinuesAnswer
      <3>5. M.down[i].recovered => M.down[i].floor = M.sub.cursor /\ M.sub.epoch = M.epoch
        BY <3>1, <3>2, <1>3 DEF ContinuesAnswer
      <3>6. ASSUME ~M.doubled
            PROVE  \E m \in M.down[i].floor + 1 .. Len(M.log) + 1 :
                      /\ Carries(M.down, i, m, Len(M.log))
                      /\ M.down[i].recovered \/ M.down[i].floor = M.down[i].cursor
                            => m = M.down[i].floor + 1
        <4>1. PICK m \in L.down[i].floor + 1 .. last + 1 :
                      /\ Carries(L.down, i, m, last)
                      /\ L.down[i].recovered \/ L.down[i].floor = L.down[i].cursor
                            => m = L.down[i].floor + 1
          BY <3>2, <3>6, <1>3 DEF ContinuesAnswer, last
        <4>2. m \in Nat /\ i \in 0 .. a
          BY <3>1, <3>3, <1>2
        <4>3. Carries(M.down, i, m, last + 1)
          BY <4>1, <4>2, <3>2, <3>6, <2>one, <1>3
        <4>4. m \in M.down[i].floor + 1 .. Len(M.log) + 1
          BY <3>1, <3>3, <4>1, <1>2, <1>4
        <4> QED BY <4>1, <4>3, <4>4, <3>1, <1>4
      <3> QED BY <3>4, <3>5, <3>6 DEF ContinuesAnswer
    <2>4. StreamContinues(M)
      <3> SUFFICES ASSUME L.sub.state = "subscribed" PROVE StreamContinues(M)
        BY <1>3 DEF StreamContinues
      <3>1. /\ L.coll.floor \in Nat /\ L.coll.floor <= last /\ Mine(L) \in L.regs
        BY <2>0, <1>10, LinkFields DEF Attended, AnsweredOnce, Wired, Sane, HintTrue,
           Current, last
      <3>2. \A j \in EventsPast(M.down, 0) : M.coll.floor < M.down[j].cursor
        BY <3>1, <2>0, <2>past, <1>2, <1>3 DEF Attended, StreamContinues
      <3>3. ASSUME ~M.doubled
            PROVE  \E m \in M.coll.floor + 1 .. Len(M.log) + 1 :
                      /\ Carries(M.down, 0, m, Len(M.log))
                      /\ M.coll.sound => m = M.sub.cursor + 1
                      /\ M.coll.sound \/ M.coll.view = M.coll.base
                         \/ M.coll.floor + 1 < m
        <4>1. PICK m \in L.coll.floor + 1 .. last + 1 :
                      /\ Carries(L.down, 0, m, last)
                      /\ L.coll.sound => m = L.sub.cursor + 1
                      /\ L.coll.sound \/ L.coll.view = L.coll.base
                         \/ L.coll.floor + 1 < m
          BY <2>0, <3>3, <1>3 DEF Attended, StreamContinues, last
        <4>2. m \in Nat /\ 0 \in 0 .. a
          BY <3>1, <1>2
        <4>3. Carries(M.down, 0, m, last + 1)
          BY <4>1, <4>2, <3>1, <3>3, <2>one, <1>3
        <4>4. m \in M.coll.floor + 1 .. Len(M.log) + 1
          BY <3>1, <4>1, <1>2, <1>3, <1>4
        <4> QED BY <4>1, <4>3, <4>4, <1>3, <1>4
      <3> QED BY <3>2, <3>3, <1>3 DEF StreamContinues
    <2> QED BY <2>1, <2>2, <2>3, <2>4 DEF Attended
  <1> QED BY <1>5, <1>6, <1>9, <1>10 DEF Wired

-----------------------------------------------------------------------------
(* The connection dies, or the daemon with it.                             *)
LEMMA OfflineWired ==
    ASSUME NEW L, LinkType(L), Wired(L), NEW M, LinkType(M),
           M.conn = 0, M.down = <<>>, M.owner = 0, M.sub = Detached(L.sub),
           M.conns = L.conns, M.coll = L.coll,
           M.regs \subseteq L.regs, M.reads \subseteq L.reads,
           \/ M.epoch = L.epoch /\ M.log = L.log
           \/ M.epoch = L.epoch + 1
    PROVE  Wired(M)
  <1>1. /\ M.sub.state # "subscribed" /\ M.sub.serial = L.sub.serial
        /\ M.sub.epoch = L.sub.epoch /\ M.sub.cursor = L.sub.cursor
        /\ (Mounted(M) <=> Mounted(L))
    <2>1. L.sub \in Subscription
      BY DEF LinkType
    <2> QED BY <2>1 DEF Detached, Subscription, Mounted
  <1>2. Callbacks(M) = {} /\ Pending(M) = {} /\ DOMAIN M.down = {}
    BY LinkFields DEF Callbacks, Pending
  <1>3. /\ L.epoch \in Nat /\ L.sub.epoch \in Nat /\ L.sub.epoch <= L.epoch
        /\ Numbered(L) /\ HintTrue(L) /\ ViewTrue(L)
    BY LinkFields DEF LinkType, Wired, Sane, HintTrue
  <1>4. Current(M) => Current(L) /\ M.log = L.log /\ M.epoch = L.epoch
    BY <1>1, <1>3 DEF Current
  <1>5. Sane(M)
    <2>0. \A r \in M.regs \cup M.reads : r \in L.regs \cup L.reads
      OBVIOUS
    <2>1. Numbered(M)
      BY <2>0, <1>1, <1>2, <1>3 DEF Numbered, LinkType
    <2>2. Solo(M) /\ FramesTrue(M)
      BY <1>2 DEF Solo, FramesTrue
    <2>3. HintTrue(M)
      BY <1>1, <1>3, <1>4 DEF HintTrue
    <2>4. ViewTrue(M)
      BY <1>1, <1>3, <1>4 DEF ViewTrue
    <2> QED BY <2>1, <2>2, <2>3, <2>4 DEF Sane
  <1>6. Attended(M)
    <2>1. \A i : ~Answers(M, i) /\ ~Responds(M, i)
      BY <1>2 DEF Answers, Responds
    <2>2. AnsweredOnce(M)
      BY <2>1, <1>1, <1>2 DEF AnsweredOnce
    <2>3. AnswerComesFirst(M)
      BY DEF AnswerComesFirst, Resuming
    <2>4. AnswerContinues(M) /\ StreamContinues(M)
      BY <2>1, <1>1 DEF AnswerContinues, StreamContinues
    <2> QED BY <2>2, <2>3, <2>4 DEF Attended
  <1> QED BY <1>5, <1>6 DEF Wired

(* A connection made while nothing is mounted.                             *)
LEMMA BareConnectWired ==
    ASSUME NEW L, LinkType(L), Wired(L), NEW M, LinkType(M),
           L.conn = 0, ~Mounted(L), M.conn = L.conns + 1, M.conns = L.conns + 1,
           M.down = L.down, M.owner = L.owner, M.sub = L.sub, M.coll = L.coll,
           M.regs = L.regs, M.reads = L.reads, M.epoch = L.epoch, M.log = L.log
    PROVE  Wired(M)
  <1>1. Numbered(L) /\ L.conns \in Nat /\ L.down = <<>>
    BY DEF LinkType, Wired, Sane, Numbered
  <1>2. \A r \in L.regs \cup L.reads : r.conn \in Nat /\ r.conn <= L.conns
    BY <1>1, LinkFields DEF Numbered
  <1>3. Callbacks(M) = {} /\ DOMAIN M.down = {}
    BY <1>1, <1>2 DEF Callbacks
  <1>4. ~Mounted(M) /\ ~Current(M) /\ M.sub.state = "none"
    BY DEF Mounted, Current
  <1>5. Numbered(M)
    <2>1. \A r \in M.regs \cup M.reads : r.conn <= M.conns /\ r.serial <= M.sub.serial
      BY <1>1, <1>2 DEF Numbered
    <2> QED BY <2>1, <1>1, <1>3 DEF Numbered
  <1>6. Solo(M) /\ FramesTrue(M) /\ HintTrue(M) /\ ViewTrue(M)
    BY <1>3, <1>4 DEF Solo, FramesTrue, HintTrue, ViewTrue, Wired, Sane
  <1> QED BY <1>4, <1>5, <1>6 DEF Wired, Sane

-----------------------------------------------------------------------------
(* The subscribe handler starts from a link where the Subscription is on   *)
(* its connection and nothing there has answered it.                       *)
Ready(P) ==
    /\ Sane(P)
    /\ P.sub.state = "subscribing" /\ P.conn # 0 /\ P.owner = P.sub.serial
    /\ Pending(P) = {} /\ Mine(P) \notin P.regs
    /\ \A i \in DOMAIN P.down : ~Answers(P, i)
    /\ P.sub.epoch = P.epoch => /\ Callbacks(P) = {} /\ P.down = <<>>
                                /\ \A rd \in P.reads : rd.conn # P.conn

(* The queue it leaves: the answer, then the log's tail from some event m. *)
Behind(p, q, f, log, m) ==
    /\ Len(q) + 1 \in DOMAIN p /\ p[Len(q) + 1] = f
    /\ \A i \in DOMAIN p : i \in Nat \ {0}
    /\ \A i \in 1 .. Len(q) : i \in DOMAIN p /\ p[i] = q[i]
    /\ \A i \in DOMAIN p : i > Len(q) + 1 =>
          /\ p[i].type = "event" /\ p[i].cursor \in m .. Len(log)
          /\ p[i].delta = log[p[i].cursor]
    /\ Carries(p, Len(q) + 1, m, Len(log))

LEMMA AnswerQueue ==
    ASSUME NEW q \in Seq(Frame), NEW r, GoodRuntime(r), NEW f \in Frame,
           f.type # "event", NEW floor \in 0 .. Len(r.log)
    PROVE  \E m \in Nat :
              /\ floor < m /\ m <= Len(r.log) + 1
              /\ Behind(Answering(q, f, Replay(r, floor)), q, f, r.log, m)
              /\ BufferOk(r, floor) => m = floor + 1
  <1> PICK p : p = Answering(q, f, Replay(r, floor))
    OBVIOUS
  <1> DEFINE replay == Replay(r, floor)
             a == Len(q)
             last == Len(r.log)
             b == Len(replay)
  <1>0. last \in Nat /\ a \in Nat /\ CurrentCursor(r) = last /\ floor \in Nat
    <2>1. r.log \in Seq(Delta) /\ r.nextCursor = Len(r.log) + 1
      BY DEF GoodRuntime, Runtime, RingIsLogSuffix
    <2> QED BY <2>1 DEF CurrentCursor
  <1>1. PICK m : /\ m \in floor + 1 .. last + 1
                 /\ BufferOk(r, floor) => m = floor + 1
                 /\ replay \in Seq(Event) /\ b = (last + 1) - m
                 /\ \A k \in 1 .. b :
                       /\ replay[k].cursor = (m - 1) + k
                       /\ replay[k].delta = r.log[(m - 1) + k]
    <2>1. floor \in 0 .. CurrentCursor(r)
      BY <1>0
    <2>2. \E m \in floor + 1 .. CurrentCursor(r) + 1 :
              /\ BufferOk(r, floor) => m = floor + 1
              /\ replay \in Seq(Event) /\ b = (CurrentCursor(r) + 1) - m
              /\ \A k \in 1 .. b :
                    /\ replay[k].cursor = (m - 1) + k
                    /\ replay[k].delta = r.log[(m - 1) + k]
      BY <2>1, ReplayIsTail, Zenon
    <2> HIDE DEF last, b, replay
    <2> QED BY <2>2, <1>0
  <1>p. p = Answering(q, f, replay)
    OBVIOUS
  <1> HIDE DEF replay, last, a, b
  <1>2. m \in Nat \ {0} /\ floor < m /\ m <= last + 1 /\ b \in Nat
    BY <1>0, <1>1
  <1>r. \A k \in 1 .. b : replay[k].cursor = (m - 1) + k
    BY <1>1
  <1>3. /\ DOMAIN p = 1 .. a + 1 + b
        /\ \A i \in 1 .. a : p[i] = q[i]
        /\ p[a + 1] = f
        /\ \A k \in 1 .. b : p[a + 1 + k] = EventFrame(replay[k])
        /\ Carries(p, a + 1, m, last)
    <2>1. TailFrom(replay, m, last)
      BY <1>0, <1>1, <1>2, <1>r DEF b, TailFrom
    <2>l. Laid(p, q, f, replay) /\ Carries(p, Len(q) + 1, m, last)
      BY <2>1, <1>p, CarriesReplay
    <2>2. /\ DOMAIN p = 1 .. Len(q) + 1 + Len(replay)
          /\ \A i \in 1 .. Len(q) : p[i] = q[i]
          /\ p[Len(q) + 1] = f
          /\ \A k \in 1 .. Len(replay) : p[Len(q) + 1 + k] = EventFrame(replay[k])
          /\ Carries(p, Len(q) + 1, m, last)
      BY <2>l DEF Laid
    <2> QED BY <2>2 DEF a, b
  <1>4. ASSUME NEW i, i \in DOMAIN p, i > a + 1
        PROVE  /\ p[i].type = "event" /\ p[i].cursor \in m .. last
               /\ p[i].delta = r.log[p[i].cursor]
    <2>0. PICK k : k = i - (a + 1)
      OBVIOUS
    <2>i. i \in Nat /\ i <= a + 1 + b
      BY <1>0, <1>2, <1>3, <1>4
    <2>1. k \in 1 .. b /\ a + 1 + k = i
      BY <2>0, <2>i, <1>0, <1>2, <1>4
    <2>c. (m - 1) + k \in m .. last
      BY <2>1, <1>0, <1>1, <1>2
    <2>2. p[i] = EventFrame(replay[k])
      BY <2>1, <1>3
    <2>3. replay[k].cursor = (m - 1) + k /\ replay[k].delta = r.log[(m - 1) + k]
      BY <2>1, <1>1
    <2>4. (m - 1) + k = p[i].cursor
      BY <2>2, <2>3 DEF EventFrame
    <2> QED BY <2>4, <2>c, <2>2, <2>3 DEF EventFrame
  <1>5. /\ \A i \in DOMAIN p : i \in Nat \ {0}
        /\ a + 1 \in DOMAIN p /\ \A i \in 1 .. a : i \in DOMAIN p
    BY <1>0, <1>2, <1>3
  <1>6. BufferOk(r, floor) => m = floor + 1
    BY <1>1
  <1>7. Behind(p, q, f, r.log, m)
    BY <1>3, <1>4, <1>5 DEF a, last, Behind
  <1> QED BY <1>2, <1>6, <1>7 DEF last

(* It answers.                                                             *)
SameDevice(P, M) ==
    /\ M.device = P.device /\ M.conn = P.conn /\ M.conns = P.conns
    /\ M.sub = P.sub /\ M.owner = P.owner /\ M.coll = P.coll
    /\ M.epoch = P.epoch /\ M.log = P.log

Answer(P, r, f) ==
    /\ f \in Frame /\ f.type = "response" /\ f.serial = P.sub.serial
    /\ f.epoch = P.epoch /\ f.cursor = Len(P.log) /\ f.floor <= f.cursor
    /\ f.recovered => /\ P.sub.epoch = P.epoch /\ f.floor = P.sub.cursor
                      /\ BufferOk(r, f.floor)

Answered(P, M, r, f, previous) ==
    /\ M.down = Answering(P.down, f, Replay(r, f.floor))
    /\ M.regs = (P.regs \ {previous}) \cup {Mine(P)}
    /\ M.doubled = (P.doubled \/ {x \in P.regs \ {previous} : x.conn = P.conn} # {})
    /\ M.reads = P.reads

LEMMA AnsweredWired ==
    ASSUME NEW P, LinkType(P), Ready(P), NEW M, SameDevice(P, M), LinkType(M),
           NEW r, GoodRuntime(r), r.log = P.log,
           NEW f, Answer(P, r, f), NEW previous, Answered(P, M, r, f, previous)
    PROVE  Wired(M)
  <1> DEFINE a == Len(P.down)
             last == Len(P.log)
  <1>0. /\ last \in Nat /\ a \in Nat /\ DOMAIN P.down = 1 .. a
        /\ P.down \in Seq(Frame) /\ P.sub.serial \in Nat /\ Sane(P)
    BY LinkFields DEF LinkType, Ready
  <1>f. /\ f \in Frame /\ f.floor \in Nat /\ f.cursor = last /\ f.floor <= last
        /\ f.type = "response" /\ f.serial = P.sub.serial /\ f.epoch = P.epoch
        /\ f.recovered => /\ P.sub.epoch = P.epoch /\ f.floor = P.sub.cursor
                          /\ BufferOk(r, f.floor)
    BY FrameKinds DEF Answer
  <1>s. /\ M.device = P.device /\ M.conn = P.conn /\ M.conns = P.conns
        /\ M.sub = P.sub /\ M.owner = P.owner /\ M.coll = P.coll
        /\ M.epoch = P.epoch /\ M.log = P.log
    BY DEF SameDevice
  <1>g. /\ M.regs = (P.regs \ {previous}) \cup {Mine(P)} /\ M.reads = P.reads
        /\ ~M.doubled => {x \in P.regs \ {previous} : x.conn = P.conn} = {}
    BY DEF Answered
  <1> HIDE DEF a, last
  <1>1. PICK m \in Nat :
          /\ f.floor < m /\ m <= last + 1
          /\ a + 1 \in DOMAIN M.down /\ M.down[a + 1] = f
          /\ \A i \in DOMAIN M.down : i \in Nat \ {0}
          /\ \A i \in 1 .. a : i \in DOMAIN M.down /\ M.down[i] = P.down[i]
          /\ \A i \in DOMAIN M.down : i > a + 1 =>
                /\ M.down[i].type = "event" /\ M.down[i].cursor \in m .. last
                /\ M.down[i].delta = P.log[M.down[i].cursor]
          /\ Carries(M.down, a + 1, m, last)
          /\ BufferOk(r, f.floor) => m = f.floor + 1
    <2>1. f.floor \in 0 .. Len(r.log)
      BY <1>0, <1>f DEF last
    <2>2. M.down = Answering(P.down, f, Replay(r, f.floor))
      BY DEF Answered
    <2>3. r.log = P.log /\ last = Len(r.log)
      BY DEF last
    <2>4. f.type # "event" /\ f \in Frame /\ P.down \in Seq(Frame)
      BY <1>0, <1>f
    <2>5. PICK m \in Nat :
            /\ f.floor < m /\ m <= Len(r.log) + 1
            /\ Behind(M.down, P.down, f, r.log, m)
            /\ BufferOk(r, f.floor) => m = f.floor + 1
      BY <2>1, <2>2, <2>4, AnswerQueue
    <2> QED BY <2>3, <2>5 DEF a, Behind
  <1>where. \A i \in DOMAIN M.down : i \in 1 .. a \/ i = a + 1 \/ i > a + 1
    BY <1>0, <1>1
  <1>4. /\ Mine(M) = Mine(P) /\ Pending(M) = {} /\ Mine(M) \in M.regs
        /\ Mounted(M) /\ M.sub.state = "subscribing"
        /\ (Current(M) <=> Current(P))
    BY <1>s, <1>g DEF Ready, Mine, Pending, Mounted, Current
  <1>5. \A i : (Answers(M, i) <=> i = a + 1) /\ (Responds(M, i) <=> i = a + 1)
    <2>1. \A i \in 1 .. a : ~Answers(M, i)
      BY <1>0, <1>1, <1>s DEF Answers, Ready
    <2>2. \A i \in DOMAIN M.down : i > a + 1 => ~Answers(M, i)
      BY <1>1 DEF Answers
    <2>3. Answers(M, a + 1) /\ Responds(M, a + 1)
      BY <1>1, <1>f, <1>s DEF Answers, Responds
    <2> QED BY <2>1, <2>2, <2>3, <1>where DEF Answers, Responds
  <1>6. f.recovered => P.down = <<>> /\ a = 0
    BY <1>f DEF Ready, a
  <1>7. Sane(M)
    <2>1. Numbered(M)
      <3>1. Mine(P).conn = P.conn /\ Mine(P).serial = P.sub.serial
        BY DEF Mine
      <3>2. \A x \in M.regs \cup M.reads : x.conn <= M.conns /\ x.serial <= M.sub.serial
        BY <3>1, <1>0, <1>s, <1>g, LinkFields DEF Sane, Numbered, LinkType
      <3>3. \A i \in DOMAIN M.down : M.down[i].type # "event" =>
               M.down[i].serial <= M.sub.serial
        <4> TAKE i \in DOMAIN M.down
        <4>1. CASE i \in 1 .. a
          BY <4>1, <1>0, <1>1, <1>s DEF Sane, Numbered
        <4>2. CASE i = a + 1
          BY <4>2, <1>0, <1>1, <1>f, <1>s
        <4>3. CASE i > a + 1
          BY <4>3, <1>1
        <4> QED BY <4>1, <4>2, <4>3, <1>where
      <3> QED BY <3>2, <3>3, <1>0, <1>s DEF Sane, Numbered, Ready
    <2>2. Solo(M)
      <3> SUFFICES ASSUME ~M.doubled PROVE \A x, y \in Callbacks(M) : x = y
        BY DEF Solo
      <3>1. Callbacks(M) \subseteq {Mine(P)}
        BY <1>s, <1>g DEF Callbacks
      <3> QED BY <3>1
    <2>3. FramesTrue(M)
      <3> SUFFICES ASSUME NEW i \in DOMAIN M.down PROVE FrameTrue(M, i)
        BY DEF FramesTrue
      <3>1. CASE i \in 1 .. a
        <4>1. FrameTrue(P, i) /\ M.down[i] = P.down[i]
          BY <3>1, <1>0, <1>1 DEF Sane, FramesTrue
        <4> QED BY <4>1, <1>s DEF FrameTrue
      <3>2. CASE i = a + 1
        <4>1. M.down[i] = f /\ (f.recovered => i = 1)
          BY <3>2, <1>1, <1>6
        <4> QED BY <4>1, <1>f, <1>s DEF FrameTrue, last
      <3>3. CASE i > a + 1
        <4>0. M.down[i].cursor \in m .. last /\ m >= 1
          BY <3>3, <1>f, <1>1
        <4>1. M.down[i].type = "event" /\ M.down[i].cursor \in 1 .. last
              /\ M.down[i].delta = P.log[M.down[i].cursor]
          BY <4>0, <3>3, <1>0, <1>1
        <4> QED BY <4>1, <1>s DEF FrameTrue, last
      <3> QED BY <3>1, <3>2, <3>3, <1>where
    <2>4. HintTrue(M) /\ ViewTrue(M)
      BY <1>0, <1>s, <1>4 DEF Sane, HintTrue, ViewTrue
    <2> QED BY <2>1, <2>2, <2>3, <2>4 DEF Sane
  <1>8. AnsweredOnce(M)
    BY <1>4, <1>5, <1>s DEF AnsweredOnce, Ready
  <1>9. AnswerComesFirst(M)
    <2> SUFFICES ASSUME Resuming(M) PROVE AnswerComesFirst(M)
      BY DEF AnswerComesFirst
    <2>1. P.down = <<>> /\ a = 0 /\ \A rd \in P.reads : rd.conn # P.conn
      BY <1>s DEF Resuming, Ready, a
    <2>2. Responds(M, 1)
      BY <2>1, <1>5
    <2>3. \A i \in DOMAIN M.down : M.down[i].type # "event" => Answers(M, i)
      BY <2>1, <1>0, <1>5, <1>1, <1>where
    <2> QED BY <2>1, <2>2, <2>3, <1>s, <1>g DEF AnswerComesFirst
  <1>10. AnswerContinues(M)
    <2> SUFFICES ContinuesAnswer(M, a + 1)
      BY <1>5 DEF AnswerContinues
    <2>1. M.down[a + 1] = f
      BY <1>1
    <2>2. \A j \in EventsPast(M.down, a + 1) : f.floor < M.down[j].cursor
      <3> TAKE j \in EventsPast(M.down, a + 1)
      <3>1. j \in DOMAIN M.down /\ j > a + 1
        BY DEF EventsPast
      <3>2. M.down[j].cursor \in m .. last
        BY <3>1, <1>1
      <3> QED BY <3>2, <1>0, <1>f, <1>1
    <2>3. m \in f.floor + 1 .. Len(M.log) + 1 /\ Carries(M.down, a + 1, m, Len(M.log))
      BY <1>0, <1>f, <1>1, <1>s DEF last
    <2>4. f.recovered \/ f.floor = f.cursor => m = f.floor + 1
      BY <1>0, <1>f, <1>1
    <2> QED BY <2>1, <2>2, <2>3, <2>4, <1>f, <1>s DEF ContinuesAnswer
  <1>11. StreamContinues(M)
    BY <1>4 DEF StreamContinues
  <1> QED BY <1>7, <1>8, <1>9, <1>10, <1>11 DEF Wired, Attended

(* Or it goes to read the JSONL.                                           *)
LEMMA ReadingWired ==
    ASSUME NEW P, LinkType(P), Ready(P), NEW M, LinkType(M), NEW previous,
           NEW rd \in PendingRead, rd.conn = P.conn, rd.serial = P.sub.serial,
           M.reads = P.reads \cup {rd}, M.regs = P.regs \ {previous},
           M.device = P.device, M.conn = P.conn, M.conns = P.conns, M.sub = P.sub,
           M.owner = P.owner, M.coll = P.coll, M.down = P.down,
           M.doubled = P.doubled, M.epoch = P.epoch, M.log = P.log
    PROVE  Wired(M)
  <1>0. Sane(P) /\ P.sub.serial \in Nat /\ P.conn \in Nat
    BY LinkFields DEF Ready, LinkType
  <1>1. /\ Mine(M) = Mine(P) /\ Pending(M) = {rd} /\ Mine(M) \notin M.regs
        /\ Callbacks(M) \subseteq Callbacks(P)
        /\ Mounted(M) /\ M.sub.state = "subscribing"
        /\ (Current(M) <=> Current(P))
    BY DEF Ready, Mine, Pending, Mounted, Current, Callbacks
  <1>2. \A i : ~Answers(M, i) /\ ~Responds(M, i)
    BY DEF Answers, Responds, Ready
  <1>3. Sane(M)
    <2>1. \A x \in M.regs \cup M.reads : x.conn <= M.conns /\ x.serial <= M.sub.serial
      BY <1>0, LinkFields DEF Sane, Numbered
    <2>2. Numbered(M)
      BY <2>1, <1>0 DEF Sane, Numbered
    <2>3. Solo(M)
      BY <1>0, <1>1 DEF Sane, Solo
    <2>4. FramesTrue(M)
      BY <1>0 DEF Sane, FramesTrue, FrameTrue
    <2>5. HintTrue(M) /\ ViewTrue(M)
      BY <1>0, <1>1 DEF Sane, HintTrue, ViewTrue
    <2> QED BY <2>2, <2>3, <2>4, <2>5 DEF Sane
  <1>4. AnsweredOnce(M)
    BY <1>1, <1>2 DEF AnsweredOnce, Ready
  <1>5. AnswerComesFirst(M)
    <2> SUFFICES ASSUME Resuming(M) PROVE AnswerComesFirst(M)
      BY DEF AnswerComesFirst
    <2>1. /\ P.down = <<>> /\ Callbacks(P) = {}
          /\ \A x \in P.reads : x.conn # P.conn
      BY DEF Resuming, Ready
    <2> QED BY <2>1, <1>1 DEF AnswerComesFirst
  <1>6. AnswerContinues(M) /\ StreamContinues(M)
    BY <1>1, <1>2 DEF AnswerContinues, StreamContinues
  <1> QED BY <1>3, <1>4, <1>5, <1>6 DEF Wired, Attended

-----------------------------------------------------------------------------
(* Where a subscribe handler starts: on a new connection, or with a new    *)
(* Subscription.                                                           *)
(* P is the offline link L with its subscription sent again over a new socket. *)
Resent(L, P) ==
    /\ L.conn = 0 /\ P.conn = L.conns + 1 /\ P.conns = L.conns + 1
    /\ P.owner = L.sub.serial /\ P.down = L.down /\ P.sub = L.sub /\ P.coll = L.coll
    /\ P.regs = L.regs /\ P.reads = L.reads /\ P.epoch = L.epoch /\ P.log = L.log

LEMMA ConnectReady ==
    ASSUME NEW L, LinkType(L), Wired(L), Mounted(L), NEW P, LinkType(P), Resent(L, P)
    PROVE  Ready(P)
  <1> USE DEF Resent
  <1>1. /\ Numbered(L) /\ HintTrue(L) /\ ViewTrue(L) /\ L.conns \in Nat
        /\ L.down = <<>> /\ L.sub.state # "subscribed"
    BY DEF LinkType, Wired, Sane, Numbered
  <1>2. \A r \in L.regs \cup L.reads : r.conn \in Nat /\ r.conn <= L.conns
    BY <1>1, LinkFields DEF Numbered
  <1>3. /\ Callbacks(P) = {} /\ Pending(P) = {} /\ DOMAIN P.down = {}
        /\ \A rd \in P.reads : rd.conn # P.conn
    BY <1>1, <1>2 DEF Callbacks, Pending
  <1>4. P.sub.state = "subscribing" /\ (Current(P) <=> Current(L))
    BY <1>1, LinkFields DEF Mounted, Current
  <1>5. Mine(P) \notin P.regs
    BY <1>3 DEF Mine, Callbacks
  <1>6. Sane(P)
    <2>1. \A r \in P.regs \cup P.reads : r.conn <= P.conns /\ r.serial <= P.sub.serial
      BY <1>1, <1>2 DEF Numbered
    <2>2. Numbered(P)
      BY <2>1, <1>1, <1>3 DEF Numbered
    <2>3. Solo(P) /\ FramesTrue(P)
      BY <1>3 DEF Solo, FramesTrue
    <2>4. HintTrue(P) /\ ViewTrue(P)
      BY <1>1, <1>4 DEF HintTrue, ViewTrue
    <2> QED BY <2>2, <2>3, <2>4 DEF Sane
  <1> QED BY <1>1, <1>3, <1>4, <1>5, <1>6 DEF Ready

Renewed(L, P) ==
    /\ P.sub.state = "subscribing" /\ P.sub.serial = L.sub.serial + 1
    /\ P.sub.epoch = 0
    /\ P.conn = L.conn /\ P.conns = L.conns /\ P.down = L.down /\ P.coll = L.coll
    /\ P.regs = L.regs /\ P.reads = L.reads /\ P.epoch = L.epoch /\ P.log = L.log
    /\ P.doubled = L.doubled

LEMMA RenewedSane ==
    ASSUME NEW L, LinkType(L), Wired(L), NEW P, LinkType(P), Renewed(L, P),
           P.conn = 0 => P.owner = 0
    PROVE  /\ Sane(P) /\ Pending(P) = {} /\ Mine(P) \notin P.regs /\ ~Current(P)
           /\ \A i \in DOMAIN P.down : ~Answers(P, i)
  <1>1. /\ Numbered(L) /\ Solo(L) /\ FramesTrue(L)
        /\ L.sub.serial \in Nat /\ P.epoch \in Nat \ {0}
    BY LinkFields DEF LinkType, Wired, Sane
  <1>s. P.sub.serial = L.sub.serial + 1
    BY DEF Renewed
  <1>2. \A r \in P.regs \cup P.reads :
           r.serial \in Nat /\ r.serial <= L.sub.serial /\ r.conn <= P.conns
    BY <1>1, LinkFields DEF Numbered, Renewed
  <1>3. \A i \in DOMAIN P.down : P.down[i].type # "event" =>
           P.down[i].serial \in Nat /\ P.down[i].serial <= L.sub.serial
    <2> TAKE i \in DOMAIN P.down
    <2>1. P.down[i] \in Frame /\ P.down[i] = L.down[i] /\ i \in DOMAIN L.down
      BY LinkFields DEF Renewed
    <2> QED BY <2>1, <1>1, FrameKinds DEF Numbered
  <1>4. Pending(P) = {} /\ Mine(P) \notin P.regs
    BY <1>1, <1>2, <1>s DEF Pending, Mine
  <1>5. \A i \in DOMAIN P.down : ~Answers(P, i)
    BY <1>1, <1>3, <1>s DEF Answers
  <1>6. ~Current(P)
    BY <1>1 DEF Current, Renewed
  <1>7. Numbered(P)
    <2>1. \A i \in DOMAIN P.down : P.down[i].type # "event" =>
             P.down[i].serial <= P.sub.serial
      BY <1>1, <1>3, <1>s
    <2>2. \A r \in P.regs \cup P.reads : r.conn <= P.conns /\ r.serial <= P.sub.serial
      BY <1>1, <1>2, <1>s
    <2>3. P.conn <= P.conns /\ (P.conn = 0 => P.down = <<>>)
      BY <1>1 DEF Numbered, Renewed
    <2> QED BY <2>1, <2>2, <2>3 DEF Numbered, Renewed
  <1>8. Solo(P)
    BY <1>1 DEF Solo, Callbacks, Renewed
  <1>9. FramesTrue(P)
    BY <1>1 DEF FramesTrue, FrameTrue, Renewed
  <1>10. HintTrue(P) /\ ViewTrue(P)
    BY <1>1, <1>6 DEF HintTrue, ViewTrue, Renewed
  <1> QED BY <1>4, <1>5, <1>6, <1>7, <1>8, <1>9, <1>10 DEF Sane

LEMMA RenewedReady ==
    ASSUME NEW L, LinkType(L), Wired(L), NEW P, LinkType(P), Renewed(L, P),
           P.conn # 0, P.owner = P.sub.serial
    PROVE  Ready(P)
  <1>1. P.sub.epoch # P.epoch /\ P.sub.state = "subscribing"
    BY DEF LinkType, Renewed
  <1> QED BY <1>1, RenewedSane DEF Ready

LEMMA RenewedOffline ==
    ASSUME NEW L, LinkType(L), Wired(L), NEW M, LinkType(M), Renewed(L, M),
           M.conn = 0, M.owner = L.owner
    PROVE  Wired(M)
  <1>1. M.owner = 0 /\ M.down = <<>> /\ M.sub.state = "subscribing"
    BY DEF Wired, Sane, Numbered, Renewed
  <1>2. Sane(M) /\ Pending(M) = {}
    BY <1>1, RenewedSane
  <1>3. \A i : ~Answers(M, i) /\ ~Responds(M, i)
    BY <1>1 DEF Answers, Responds
  <1>4. AnsweredOnce(M)
    BY <1>1, <1>2, <1>3 DEF AnsweredOnce
  <1>5. AnswerComesFirst(M) /\ AnswerContinues(M) /\ StreamContinues(M)
    BY <1>1, <1>3 DEF AnswerComesFirst, Resuming, AnswerContinues, StreamContinues
  <1> QED BY <1>2, <1>4, <1>5 DEF Wired, Attended

(* The Subscription is dropped.                                            *)
LEMMA UnmountedWired ==
    ASSUME NEW L, LinkType(L), Wired(L), NEW M, LinkType(M),
           M.sub.state = "none", M.sub.serial = L.sub.serial, M.sub.epoch = 0,
           M.owner \in {0, L.owner}, M.regs \subseteq L.regs,
           M.conn = L.conn, M.conns = L.conns, M.down = L.down, M.reads = L.reads,
           M.epoch = L.epoch, M.log = L.log, M.doubled = L.doubled
    PROVE  Wired(M)
  <1>1. Numbered(L) /\ Solo(L) /\ FramesTrue(L)
    BY DEF Wired, Sane
  <1>2. Numbered(M)
    <2>1. \A r \in M.regs \cup M.reads : r \in L.regs \cup L.reads
      OBVIOUS
    <2> QED BY <2>1, <1>1 DEF Numbered
  <1>3. Solo(M)
    BY <1>1 DEF Solo, Callbacks
  <1>4. FramesTrue(M)
    BY <1>1 DEF FramesTrue, FrameTrue
  <1>5. ~Mounted(M) /\ ~Current(M)
    BY DEF Mounted, Current
  <1>6. HintTrue(M) /\ ViewTrue(M)
    BY <1>5 DEF HintTrue, ViewTrue, LinkType
  <1> QED BY <1>2, <1>3, <1>4, <1>5, <1>6 DEF Wired, Sane

-----------------------------------------------------------------------------
(* A read ends.  Its connection may be gone: then its answer is lost, and  *)
(* at most a callback nobody hears is registered.                          *)
LEMMA LostAnswerWired ==
    ASSUME NEW L, LinkType(L), Wired(L), NEW M, LinkType(M),
           NEW rd \in L.reads, rd.conn # L.conn,
           M.reads = L.reads \ {rd}, NEW X, M.regs = L.regs \cup X,
           \A x \in X : x.conn = rd.conn /\ x.serial = rd.serial,
           M.device = L.device, M.conn = L.conn, M.conns = L.conns, M.sub = L.sub,
           M.owner = L.owner, M.coll = L.coll, M.down = L.down,
           M.doubled = L.doubled, M.epoch = L.epoch, M.log = L.log
    PROVE  Wired(M)
  <1>1. /\ Callbacks(M) = Callbacks(L) /\ Pending(M) = Pending(L)
        /\ Mine(M) = Mine(L) /\ (Mine(M) \in M.regs <=> Mine(L) \in L.regs)
        /\ (Mounted(M) <=> Mounted(L)) /\ (Current(M) <=> Current(L))
        /\ (Resuming(M) <=> Resuming(L))
    <2>1. Callbacks(M) = Callbacks(L)
      BY DEF Callbacks
    <2>2. Pending(M) = Pending(L)
      BY DEF Pending
    <2>3. Mine(L).conn = L.conn /\ Mine(M) = Mine(L)
      BY DEF Mine
    <2>4. Mine(L) \notin X
      BY <2>3
    <2> QED BY <2>1, <2>2, <2>3, <2>4 DEF Mounted, Current, Resuming
  <1>2. \A i : (Answers(M, i) <=> Answers(L, i)) /\ (Responds(M, i) <=> Responds(L, i))
    BY DEF Answers, Responds
  <1>3. Sane(M)
    <2>0. Sane(L)
      BY DEF Wired
    <2>1. \A x \in M.regs \cup M.reads : x.conn <= M.conns /\ x.serial <= M.sub.serial
      BY <2>0 DEF Sane, Numbered
    <2>2. Numbered(M)
      BY <2>0, <2>1 DEF Sane, Numbered
    <2>3. Solo(M)
      BY <2>0, <1>1 DEF Sane, Solo
    <2>4. FramesTrue(M)
      BY <2>0 DEF Sane, FramesTrue, FrameTrue
    <2>5. HintTrue(M) /\ ViewTrue(M)
      BY <2>0, <1>1 DEF Sane, HintTrue, ViewTrue
    <2> QED BY <2>2, <2>3, <2>4, <2>5 DEF Sane
  <1>4. ASSUME Mounted(L) PROVE Attended(M)
    <2>0. Attended(L)
      BY <1>4 DEF Wired
    <2>1. AnsweredOnce(M)
      BY <2>0, <1>1, <1>2 DEF Attended, AnsweredOnce
    <2>2. AnswerComesFirst(M)
      BY <2>0, <1>1, <1>2 DEF Attended, AnswerComesFirst
    <2>3. AnswerContinues(M)
      BY <2>0, <1>2 DEF Attended, AnswerContinues, ContinuesAnswer
    <2>4. StreamContinues(M)
      BY <2>0 DEF Attended, StreamContinues
    <2> QED BY <2>1, <2>2, <2>3, <2>4 DEF Attended
  <1> QED BY <1>1, <1>3, <1>4 DEF Wired

(* Or its connection stands: its answer, or its error, is queued.          *)
ReadOver(L, M, rd, f) ==
    /\ rd \in L.reads /\ rd.conn = L.conn
    /\ M.reads = L.reads \ {rd} /\ M.down = L.down \o <<f>>
    /\ f \in Frame /\ f.serial = rd.serial
    /\ \/ /\ f.type = "response" /\ f.epoch = L.epoch /\ ~f.recovered
          /\ f.cursor = Len(L.log) /\ f.floor = Len(L.log)
          /\ M.regs = L.regs \cup
                {[device |-> rd.device, conn |-> rd.conn, serial |-> rd.serial]}
          /\ M.doubled = (L.doubled \/ Callbacks(L) # {})
       \/ /\ f.type = "error"
          /\ M.regs = L.regs /\ M.doubled = L.doubled

LEMMA ReadOverSane ==
    ASSUME NEW L, LinkType(L), Wired(L), NEW M, LinkType(M), SameDevice(L, M),
           NEW rd, NEW f, ReadOver(L, M, rd, f)
    PROVE  Sane(M)
  <1>s. /\ M.device = L.device /\ M.conn = L.conn /\ M.conns = L.conns
        /\ M.sub = L.sub /\ M.owner = L.owner /\ M.coll = L.coll
        /\ M.epoch = L.epoch /\ M.log = L.log
    BY DEF SameDevice
  <1>0. /\ Sane(L) /\ rd \in L.reads /\ rd.conn = L.conn /\ rd.conn # 0 /\ f \in Frame
        /\ f.type # "event" /\ f.serial = rd.serial /\ f.serial <= L.sub.serial
        /\ rd.device = L.device /\ M.reads = L.reads \ {rd}
    BY LinkFields DEF LinkType, Wired, Sane, Numbered, ReadOver
  <1>1. /\ Len(L.down) \in Nat /\ DOMAIN L.down = 1 .. Len(L.down)
        /\ DOMAIN M.down = 1 .. Len(L.down) + 1
        /\ M.down[Len(L.down) + 1] = f /\ \A i \in 1 .. Len(L.down) : M.down[i] = L.down[i]
    <2>1. L.down \in Seq(Frame) /\ M.down = L.down \o <<f>>
      BY DEF LinkType, ReadOver
    <2> QED BY <2>1, <1>0, Appended
  <1>2. Current(M) <=> Current(L)
    BY <1>s DEF Current, Mounted
  <1>3. Numbered(M)
    <2>1. \A x \in M.regs \cup M.reads : x.conn <= M.conns /\ x.serial <= M.sub.serial
      <3> TAKE x \in M.regs \cup M.reads
      <3>1. \/ x \in L.regs \cup L.reads
            \/ x.conn = rd.conn /\ x.serial = rd.serial
        BY <1>0 DEF ReadOver
      <3> QED BY <3>1, <1>0, <1>s DEF Sane, Numbered
    <2>2. \A i \in DOMAIN M.down : M.down[i].type # "event" =>
             M.down[i].serial <= M.sub.serial
      <3> TAKE i \in DOMAIN M.down
      <3>1. (i \in DOMAIN L.down /\ M.down[i] = L.down[i]) \/ M.down[i] = f
        BY <1>1
      <3> QED BY <3>1, <1>0, <1>s DEF Sane, Numbered
    <2> QED BY <2>1, <2>2, <1>0, <1>s DEF Sane, Numbered
  <1>4. Solo(M)
    <2> SUFFICES ASSUME ~M.doubled PROVE \A x, y \in Callbacks(M) : x = y
      BY DEF Solo
    <2>1. CASE f.type = "error"
      <3>1. Callbacks(M) = Callbacks(L) /\ ~L.doubled
        BY <2>1, <1>s DEF ReadOver, Callbacks
      <3> QED BY <3>1, <1>0 DEF Sane, Solo
    <2>2. CASE f.type = "response"
      <3>1. Callbacks(L) = {} /\ \E x : M.regs = L.regs \cup {x}
        BY <2>2 DEF ReadOver
      <3>2. PICK x : M.regs = L.regs \cup {x}
        BY <3>1
      <3>3. Callbacks(M) \subseteq {x}
        BY <3>1, <3>2, <1>s DEF Callbacks
      <3> QED BY <3>3
    <2> QED BY <2>1, <2>2 DEF ReadOver
  <1>5. FramesTrue(M)
    <2> SUFFICES ASSUME NEW i \in DOMAIN M.down PROVE FrameTrue(M, i)
      BY DEF FramesTrue
    <2>1. CASE i \in DOMAIN L.down
      <3>1. FrameTrue(L, i) /\ M.down[i] = L.down[i]
        BY <2>1, <1>0, <1>1 DEF Sane, FramesTrue
      <3> QED BY <3>1, <1>s DEF FrameTrue
    <2>2. CASE i = Len(L.down) + 1
      <3>1. M.down[i] = f /\ Len(L.log) \in Nat
        BY <2>2, <1>1, LinkFields
      <3>2. f.type = "response" => f.epoch = L.epoch /\ ~f.recovered
               /\ f.cursor = Len(L.log) /\ f.floor = Len(L.log)
        BY DEF ReadOver
      <3> QED BY <3>1, <3>2, <1>0, <1>s DEF FrameTrue
    <2> QED BY <2>1, <2>2, <1>1
  <1>6. HintTrue(M) /\ ViewTrue(M)
    BY <1>0, <1>s, <1>2 DEF Sane, HintTrue, ViewTrue
  <1> QED BY <1>3, <1>4, <1>5, <1>6 DEF Sane

LEMMA ReadOverWired ==
    ASSUME NEW L, LinkType(L), Wired(L), NEW M, LinkType(M), SameDevice(L, M),
           NEW rd, NEW f, ReadOver(L, M, rd, f)
    PROVE  Wired(M)
  <1> DEFINE a == Len(L.down)
             last == Len(L.log)
  <1>s. /\ M.device = L.device /\ M.conn = L.conn /\ M.conns = L.conns
        /\ M.sub = L.sub /\ M.owner = L.owner /\ M.coll = L.coll
        /\ M.epoch = L.epoch /\ M.log = L.log
    BY DEF SameDevice
  <1>0. /\ rd \in L.reads /\ rd.conn = L.conn /\ rd.conn # 0 /\ f \in Frame
        /\ f.type # "event" /\ f.serial = rd.serial
        /\ M.reads = L.reads \ {rd} /\ M.down = L.down \o <<f>>
        /\ L.regs \subseteq M.regs /\ (~M.doubled => ~L.doubled)
        /\ L.down \in Seq(Frame) /\ rd.device = L.device
    BY LinkFields DEF LinkType, ReadOver
  <1>1. /\ a \in Nat /\ DOMAIN L.down = 1 .. a /\ DOMAIN M.down = 1 .. a + 1
        /\ M.down[a + 1] = f /\ \A i \in 1 .. a : M.down[i] = L.down[i]
    BY <1>0, Appended
  <1>2. \A i : /\ EventsPast(M.down, i) = EventsPast(L.down, i)
               /\ \A m, n : Carries(L.down, i, m, n) => Carries(M.down, i, m, n)
    BY <1>0, CarriesOther
  <1>p. \A i : \A j \in EventsPast(L.down, i) : M.down[j] = L.down[j]
    BY <1>1 DEF EventsPast
  <1>l. last \in Nat
    BY LinkFields
  <1> HIDE DEF a, last
  <1>3. Mine(M) = Mine(L) /\ (Mounted(M) <=> Mounted(L)) /\ (Resuming(M) <=> Resuming(L))
        /\ Pending(M) = Pending(L) \ {rd}
        /\ (rd \in Pending(L) <=> rd.serial = L.sub.serial)
    BY <1>0, <1>s DEF Mine, Mounted, Resuming, Pending
  <1>4. \A i \in 1 .. a : /\ Answers(M, i) <=> Answers(L, i)
                          /\ Responds(M, i) <=> Responds(L, i)
    BY <1>1, <1>s DEF Answers, Responds
  <1>5. /\ Answers(M, a + 1) <=> rd \in Pending(L)
        /\ Responds(M, a + 1) <=> rd \in Pending(L) /\ f.type = "response"
    <2>1. a + 1 \in DOMAIN M.down /\ M.down[a + 1] = f
      BY <1>1
    <2>2. M.down[a + 1].type # "event" /\ M.down[a + 1].serial = rd.serial
      BY <2>1, <1>0
    <2>3. Answers(M, a + 1) <=> rd \in Pending(L)
      BY <2>1, <2>2, <1>3, <1>s DEF Answers
    <2> QED BY <2>1, <2>3 DEF Responds
  <1>6. \A i : Answers(M, i) => i \in 1 .. a \/ i = a + 1
    BY <1>1 DEF Answers
  <1>7. ASSUME Mounted(L), rd \in Pending(L)
        PROVE  Attended(M)
    <2>1. /\ L.owner = L.sub.serial /\ L.sub.state = "subscribing"
          /\ \A i \in 1 .. a : ~Answers(L, i) /\ ~Responds(L, i)
          /\ Pending(M) = {}
      BY <1>7, <1>1, <1>3, LinkFields DEF Wired, Attended, AnsweredOnce, Mounted, Responds
    <2>2. \A i : /\ Answers(M, i) <=> i = a + 1
                 /\ Responds(M, i) <=> i = a + 1 /\ f.type = "response"
      BY <2>1, <1>4, <1>5, <1>6, <1>7 DEF Responds
    <2>3. f.type = "response" => Mine(M) \in M.regs
      <3> SUFFICES ASSUME f.type = "response" PROVE Mine(M) \in M.regs
        OBVIOUS
      <3>1. [device |-> rd.device, conn |-> rd.conn, serial |-> rd.serial] \in M.regs
        BY DEF ReadOver
      <3>2. rd.serial = L.sub.serial
        BY <1>3, <1>7
      <3> QED BY <3>1, <3>2, <1>0, <1>s DEF Mine
    <2>4. AnsweredOnce(M)
      BY <2>1, <2>2, <2>3, <1>s DEF AnsweredOnce
    <2>5. AnswerComesFirst(M)
      <3> SUFFICES ASSUME Resuming(L) PROVE AnswerComesFirst(M)
        BY <1>3 DEF AnswerComesFirst
      <3>1. /\ \A x \in L.reads : x.conn = L.conn => x \in Pending(L)
            /\ \A i \in 1 .. a : L.down[i].type # "event" => Answers(L, i)
            /\ Callbacks(L) # {} => Responds(L, 1)
            /\ \A i \in 1 .. a : L.down[i].type = "event" => Responds(L, 1)
        BY <1>1, <1>7 DEF Wired, Attended, AnswerComesFirst
      <3>2. ~Responds(L, 1)
        BY <2>1, <1>1 DEF Responds, Answers
      <3>3. a = 0
        BY <3>1, <3>2, <2>1, <1>1
      <3>4. \A x \in M.reads : x.conn # M.conn
        <4>1. \A x \in Pending(L) : x = rd
          BY <1>7 DEF Wired, Attended, AnsweredOnce
        <4> QED BY <4>1, <3>1, <1>0, <1>s
      <3>5. CASE f.type = "response"
        <4>1. Responds(M, 1)
          BY <3>3, <3>5, <2>2
        <4> QED BY <4>1, <3>3, <3>4, <2>2, <1>1 DEF AnswerComesFirst
      <3>6. CASE f.type = "error"
        <4>1. Callbacks(M) = {}
          BY <3>1, <3>2, <3>6, <1>s DEF ReadOver, Callbacks
        <4>2. \A i \in DOMAIN M.down : M.down[i].type # "event" /\ Answers(M, i)
          BY <3>3, <2>2, <1>0, <1>1
        <4> QED BY <4>1, <4>2, <3>4 DEF AnswerComesFirst
      <3> QED BY <3>5, <3>6 DEF ReadOver
    <2>6. AnswerContinues(M)
      <3> SUFFICES ASSUME f.type = "response" PROVE ContinuesAnswer(M, a + 1)
        BY <2>2 DEF AnswerContinues
      <3>1. EventsPast(M.down, a + 1) = {}
        BY <1>1 DEF EventsPast
      <3>2. ~f.recovered /\ f.floor = last /\ Len(M.log) = last
        BY <1>s DEF ReadOver, last
      <3>3. Carries(M.down, a + 1, last + 1, last)
        BY <3>1, <1>l DEF Carries
      <3>4. last + 1 \in last + 1 .. last + 1
        BY <1>l
      <3> QED BY <3>1, <3>2, <3>3, <3>4, <1>1 DEF ContinuesAnswer
    <2>7. StreamContinues(M)
      BY <2>1, <1>s DEF StreamContinues
    <2> QED BY <2>4, <2>5, <2>6, <2>7 DEF Attended
  <1>8. ASSUME Mounted(L), rd \notin Pending(L)
        PROVE  Attended(M)
    <2>0. /\ Attended(L) /\ Pending(M) = Pending(L)
          /\ \A i : Answers(M, i) <=> Answers(L, i)
          /\ \A i : Responds(M, i) <=> Responds(L, i)
          /\ \A i : Responds(L, i) => i \in 1 .. a
      <3>1. \A i : Answers(L, i) => i \in 1 .. a
        BY <1>1 DEF Answers
      <3> QED BY <3>1, <1>3, <1>4, <1>5, <1>6, <1>8 DEF Wired, Responds
    <2>1. AnsweredOnce(M)
      <3>0. AnsweredOnce(L) /\ \A i : Answers(L, i) => i \in DOMAIN L.down
        BY <2>0 DEF Attended, Answers
      <3>1. (\A i \in DOMAIN L.down : ~Answers(L, i))
               => \A i \in DOMAIN M.down : ~Answers(M, i)
        BY <2>0, <3>0
      <3>2. \A i \in DOMAIN M.down : Responds(M, i) =>
               M.owner = M.sub.serial /\ Mine(M) \in M.regs
        BY <2>0, <3>0, <1>0, <1>3, <1>s DEF AnsweredOnce, Responds
      <3>3. \A i, j \in DOMAIN M.down : Answers(M, i) /\ Answers(M, j) => i = j
        BY <2>0, <3>0 DEF AnsweredOnce
      <3>4. Mine(L) \in L.regs => Mine(M) \in M.regs
        BY <1>0, <1>3
      <3> QED BY <2>0, <3>0, <3>1, <3>2, <3>3, <3>4, <1>s DEF AnsweredOnce
    <2>2. AnswerComesFirst(M)
      BY <2>0, <1>0, <1>3, <1>8 DEF Attended, AnswerComesFirst
    <2>3. AnswerContinues(M)
      <3> SUFFICES ASSUME NEW i, Responds(L, i) PROVE ContinuesAnswer(M, i)
        BY <2>0 DEF AnswerContinues
      <3>1. M.down[i] = L.down[i] /\ ContinuesAnswer(L, i)
        BY <2>0, <1>1 DEF Attended, AnswerContinues
      <3>2. \A j \in EventsPast(M.down, i) : M.down[i].floor < M.down[j].cursor
        BY <3>1, <1>2, <1>p DEF ContinuesAnswer
      <3> QED BY <3>1, <3>2, <1>0, <1>2, <1>s DEF ContinuesAnswer
    <2>4. StreamContinues(M)
      <3> SUFFICES ASSUME L.sub.state = "subscribed" PROVE StreamContinues(M)
        BY <1>s DEF StreamContinues
      <3>1. StreamContinues(L)
        BY <2>0 DEF Attended
      <3>2. \A j \in EventsPast(M.down, 0) : M.coll.floor < M.down[j].cursor
        BY <3>1, <1>2, <1>p, <1>s DEF StreamContinues
      <3> QED BY <3>1, <3>2, <1>0, <1>2, <1>s DEF StreamContinues
    <2> QED BY <2>1, <2>2, <2>3, <2>4 DEF Attended
  <1>9. Sane(M)
    BY ReadOverSane
  <1> QED BY <1>3, <1>7, <1>8, <1>9 DEF Wired

-----------------------------------------------------------------------------
(* The device takes a frame: what the rest of the queue says.              *)
Taken(L, M) ==
    /\ L.down # <<>> /\ M.down = Tail(L.down)
    /\ M.device = L.device /\ M.conn = L.conn /\ M.conns = L.conns
    /\ M.sub.serial = L.sub.serial /\ M.sub.isNew = L.sub.isNew
    /\ M.reads = L.reads /\ M.regs \subseteq L.regs
    /\ M.doubled = L.doubled /\ M.epoch = L.epoch /\ M.log = L.log

LEMMA RestOfQueue ==
    ASSUME NEW L, LinkType(L), Sane(L), NEW M, LinkType(M), Taken(L, M)
    PROVE  /\ L.conn # 0 /\ L.down[1] \in Frame /\ 1 \in DOMAIN L.down /\ FrameTrue(L, 1)
           /\ \A i : /\ Answers(M, i) <=> i \in Nat \ {0} /\ Answers(L, i + 1)
                     /\ Responds(M, i) <=> i \in Nat \ {0} /\ Responds(L, i + 1)
           /\ \A i : Answers(L, i) => i = 1 \/ \E k \in Nat \ {0} : i = k + 1 /\ Answers(M, k)
           /\ \A i \in DOMAIN M.down : /\ i \in Nat \ {0} /\ i + 1 \in DOMAIN L.down
                                       /\ M.down[i] = L.down[i + 1]
                                       /\ ~(M.down[i].type = "response"
                                             /\ M.down[i].recovered)
           /\ \A i \in Nat : \A j \in EventsPast(M.down, i) :
                 j + 1 \in EventsPast(L.down, i + 1) /\ M.down[j] = L.down[j + 1]
           /\ \A i \in Nat : \A m, n :
                 Carries(L.down, i + 1, m, n) => Carries(M.down, i, m, n)
           /\ \A i \in Nat : EventsPast(L.down, i + 1) \subseteq EventsPast(L.down, i)
           /\ FramesTrue(M) /\ Solo(M)
           /\ ((M.conn = 0 => M.owner = 0 /\ M.sub.state # "subscribed") => Numbered(M))
           /\ Mine(M) = Mine(L) /\ Pending(M) = Pending(L)
  <1>s. /\ M.device = L.device /\ M.conn = L.conn /\ M.conns = L.conns
        /\ M.sub.serial = L.sub.serial
        /\ M.reads = L.reads /\ M.regs \subseteq L.regs
        /\ M.doubled = L.doubled /\ M.epoch = L.epoch /\ M.log = L.log
    BY DEF Taken
  <1>1. /\ L.down[1] \in Frame /\ Len(L.down) \in Nat \ {0}
        /\ DOMAIN L.down = 1 .. Len(L.down) /\ DOMAIN M.down = 1 .. Len(L.down) - 1
        /\ \A i \in 1 .. Len(L.down) - 1 : M.down[i] = L.down[i + 1]
    <2>1. L.down \in Seq(Frame) /\ L.down # <<>> /\ M.down = Tail(L.down)
      BY DEF LinkType, Taken
    <2> QED BY <2>1, Dequeued
  <1>2. \A i \in Nat :
           /\ \A j : j \in EventsPast(M.down, i) <=>
                        j \in Nat /\ j + 1 \in EventsPast(L.down, i + 1)
           /\ \A m, n : Carries(L.down, i + 1, m, n) => Carries(M.down, i, m, n)
    <2>1. L.down \in Seq(Frame) /\ L.down # <<>> /\ M.down = Tail(L.down)
      BY DEF LinkType, Taken
    <2> QED BY <2>1, CarriesTail
  <1>3. L.conn # 0 /\ 1 \in DOMAIN L.down /\ FrameTrue(L, 1)
    BY <1>1 DEF Sane, Numbered, FramesTrue, Taken
  <1>4. \A i \in DOMAIN M.down : /\ i \in Nat \ {0} /\ i + 1 \in DOMAIN L.down
                                 /\ M.down[i] = L.down[i + 1]
    BY <1>1
  <1>5. \A i : i \in Nat \ {0} /\ i + 1 \in DOMAIN L.down => i \in DOMAIN M.down
    BY <1>1
  <1>6. \A i : /\ Answers(M, i) <=> i \in Nat \ {0} /\ Answers(L, i + 1)
               /\ Responds(M, i) <=> i \in Nat \ {0} /\ Responds(L, i + 1)
    BY <1>s, <1>4, <1>5 DEF Answers, Responds
  <1>7. \A i : Answers(L, i) => i = 1 \/ \E k \in Nat \ {0} : i = k + 1 /\ Answers(M, k)
    <2> TAKE i
    <2> PICK k : k = i - 1
      OBVIOUS
    <2>1. Answers(L, i) => i = 1 \/ (k \in Nat \ {0} /\ i = k + 1)
      BY <1>1 DEF Answers
    <2>2. Answers(M, k) <=> k \in Nat \ {0} /\ Answers(L, k + 1)
      BY <1>6
    <2> QED BY <2>1, <2>2
  <1>8. \A i \in Nat : \A j \in EventsPast(M.down, i) :
                 j + 1 \in EventsPast(L.down, i + 1) /\ M.down[j] = L.down[j + 1]
    BY <1>2, <1>4 DEF EventsPast
  <1>9. \A i \in Nat : EventsPast(L.down, i + 1) \subseteq EventsPast(L.down, i)
    BY <1>1 DEF EventsPast
  <1>10. \A i \in DOMAIN M.down : FrameTrue(M, i)
            /\ ~(M.down[i].type = "response" /\ M.down[i].recovered)
    <2> TAKE i \in DOMAIN M.down
    <2>1. FrameTrue(L, i + 1) /\ M.down[i] = L.down[i + 1] /\ i \in Nat \ {0}
      BY <1>4 DEF Sane, FramesTrue
    <2> QED BY <2>1, <1>s DEF FrameTrue
  <1>11. Solo(M)
    <2>1. Solo(L) /\ Callbacks(M) \subseteq Callbacks(L)
      BY <1>s DEF Sane, Callbacks
    <2> QED BY <2>1, <1>s DEF Solo
  <1>12. ASSUME M.conn = 0 => M.owner = 0 /\ M.sub.state # "subscribed"
         PROVE  Numbered(M)
    <2>1. \A x \in M.regs \cup M.reads : x \in L.regs \cup L.reads
      BY <1>s
    <2>2. \A x \in M.regs \cup M.reads : x.conn <= M.conns /\ x.serial <= M.sub.serial
      BY <2>1, <1>s DEF Sane, Numbered
    <2>3. \A i \in DOMAIN M.down : M.down[i].type # "event" =>
             M.down[i].serial <= M.sub.serial
      BY <1>4, <1>s DEF Sane, Numbered
    <2>4. M.conn <= M.conns /\ M.conn # 0
      BY <1>3, <1>s DEF Sane, Numbered
    <2> QED BY <2>2, <2>3, <2>4 DEF Numbered
  <1>13. Mine(M) = Mine(L) /\ Pending(M) = Pending(L)
    BY <1>s DEF Mine, Pending
  <1> QED BY <1>1, <1>2, <1>3, <1>4, <1>6, <1>7, <1>8, <1>9, <1>10, <1>11, <1>12, <1>13
       DEF FramesTrue

(* It drops the frame, or nothing is mounted, or its subscribe was         *)
(* rejected: the view does not move.                                       *)
Dropped(L, M) ==
    /\ Taken(L, M) /\ M.sub = L.sub /\ M.coll = L.coll
    /\ \/ /\ L.down[1].type = "event" /\ M.owner = L.owner /\ M.regs = L.regs
          /\ L.owner # L.sub.serial \/ ~Mounted(L)
       \/ /\ L.down[1].type = "response" /\ ~(Answers(L, 1) /\ Mounted(L))
          /\ M.owner \in {0, L.owner}
          /\ (M.owner = L.owner /\ M.regs = L.regs) \/ L.owner = L.down[1].serial
       \/ /\ L.down[1].type = "error" /\ M.regs = L.regs
          /\ M.owner \in {0, L.owner}
          /\ M.owner = L.owner \/ L.owner = L.down[1].serial

LEMMA DroppedWired ==
    ASSUME NEW L, LinkType(L), Wired(L), NEW M, LinkType(M), Dropped(L, M)
    PROVE  Wired(M)
  <1>t. Taken(L, M) /\ Sane(L)
    BY DEF Dropped, Wired
  <1>s. /\ M.conn = L.conn /\ M.sub = L.sub /\ M.coll = L.coll /\ M.reads = L.reads
        /\ M.regs \subseteq L.regs /\ M.doubled = L.doubled
        /\ M.epoch = L.epoch /\ M.log = L.log
    BY DEF Dropped, Taken
  <1>1. /\ L.conn # 0 /\ L.down[1] \in Frame /\ 1 \in DOMAIN L.down
        /\ FramesTrue(M) /\ Solo(M) /\ Numbered(M)
        /\ Mine(M) = Mine(L) /\ Pending(M) = Pending(L)
    BY <1>t, <1>s, RestOfQueue
  <1>2. \A i : /\ Answers(M, i) <=> i \in Nat \ {0} /\ Answers(L, i + 1)
               /\ Responds(M, i) <=> i \in Nat \ {0} /\ Responds(L, i + 1)
    BY <1>t, RestOfQueue
  <1>3. \A i \in DOMAIN M.down : /\ i \in Nat \ {0} /\ i + 1 \in DOMAIN L.down
                                 /\ M.down[i] = L.down[i + 1]
                                 /\ ~(M.down[i].type = "response" /\ M.down[i].recovered)
    BY <1>t, RestOfQueue
  <1>4. \A i \in Nat : /\ \A j \in EventsPast(M.down, i) :
                             /\ j + 1 \in EventsPast(L.down, i + 1)
                             /\ M.down[j] = L.down[j + 1]
                       /\ \A m, n : Carries(L.down, i + 1, m, n) => Carries(M.down, i, m, n)
                       /\ EventsPast(L.down, i + 1) \subseteq EventsPast(L.down, i)
    <2>1. \A i \in Nat : \A j \in EventsPast(M.down, i) :
             j + 1 \in EventsPast(L.down, i + 1) /\ M.down[j] = L.down[j + 1]
      BY <1>t, RestOfQueue
    <2>2. \A i \in Nat : \A m, n :
             Carries(L.down, i + 1, m, n) => Carries(M.down, i, m, n)
      BY <1>t, RestOfQueue
    <2>3. \A i \in Nat : EventsPast(L.down, i + 1) \subseteq EventsPast(L.down, i)
      BY <1>t, RestOfQueue
    <2> QED BY <2>1, <2>2, <2>3
  <1>5. (Mounted(M) <=> Mounted(L)) /\ (Current(M) <=> Current(L))
        /\ (Resuming(M) <=> Resuming(L))
    BY <1>s DEF Mounted, Current, Resuming
  <1>6. Sane(M)
    <2>1. HintTrue(M) /\ ViewTrue(M)
      BY <1>t, <1>s, <1>5 DEF Sane, HintTrue, ViewTrue
    <2> QED BY <2>1, <1>1 DEF Sane
  <1>7. ASSUME Mounted(L) PROVE Attended(M)
    <2>0. /\ AnsweredOnce(L) /\ AnswerComesFirst(L) /\ AnswerContinues(L)
          /\ StreamContinues(L) /\ L.owner \in {0, L.sub.serial} /\ L.sub.serial # 0
      BY <1>7 DEF Wired, Attended, AnsweredOnce, LinkType, Mounted
    <2>k. /\ L.down[1].type \in {"event", "response", "error"}
          /\ L.down[1].type # "event" => L.down[1].serial \in Nat \ {0}
      BY <1>1, FrameKinds
    <2>1. \/ /\ L.down[1].type = "event" /\ M.owner = L.owner /\ M.regs = L.regs
             /\ L.owner = 0
          \/ /\ L.down[1].type # "event" /\ ~Answers(L, 1)
             /\ M.owner = L.owner /\ M.regs = L.regs
          \/ /\ L.down[1].type = "error" /\ Answers(L, 1)
             /\ M.owner \in {0, L.owner} /\ M.regs = L.regs
      BY <1>1, <1>7, <2>0, <2>k DEF Dropped, Answers
    <2>2. \A i \in DOMAIN M.down : Answers(M, i) => Answers(L, i + 1)
      BY <1>2
    <2>3. \A i, j \in DOMAIN M.down : Answers(M, i) /\ Answers(M, j) => i = j
      <3> SUFFICES ASSUME NEW i \in DOMAIN M.down, NEW j \in DOMAIN M.down,
                          Answers(M, i), Answers(M, j)
                   PROVE  i = j
        OBVIOUS
      <3>1. i + 1 = j + 1 /\ i \in Nat /\ j \in Nat
        BY <1>3, <2>0, <2>2 DEF AnsweredOnce
      <3> QED BY <3>1
    <2>4. CASE L.down[1].type = "error" /\ Answers(L, 1)
      <3>1. \A i \in DOMAIN M.down : ~Answers(M, i)
        <4> SUFFICES ASSUME NEW i \in DOMAIN M.down, Answers(M, i) PROVE FALSE
          OBVIOUS
        <4>1. i + 1 = 1 /\ i \in Nat \ {0}
          BY <1>1, <1>3, <2>0, <2>2, <2>4 DEF AnsweredOnce
        <4> QED BY <4>1
      <3>2. L.sub.state # "subscribed" /\ Pending(L) = {}
        BY <1>1, <2>0, <2>4 DEF AnsweredOnce
      <3>3. AnsweredOnce(M)
        BY <3>1, <3>2, <2>0, <2>1, <1>1, <1>s DEF AnsweredOnce, Responds
      <3>4. AnswerComesFirst(M)
        <4> SUFFICES ASSUME Resuming(L) PROVE AnswerComesFirst(M)
          BY <1>5 DEF AnswerComesFirst
        <4>1. ~Responds(L, 1)
          BY <2>4 DEF Responds
        <4>2. /\ \A rd \in M.reads : rd.conn # M.conn
              /\ Callbacks(L) = {}
              /\ \A i \in DOMAIN L.down : L.down[i].type # "event" /\ Answers(L, i)
          BY <4>1, <3>2, <2>0, <1>s DEF AnswerComesFirst
        <4>3. Callbacks(M) = {}
          BY <4>2, <1>s DEF Callbacks
        <4>4. \A i \in DOMAIN M.down : FALSE
          <5> SUFFICES ASSUME NEW i \in DOMAIN M.down PROVE FALSE
            OBVIOUS
          <5>1. Answers(L, i + 1) /\ i \in Nat \ {0}
            BY <4>2, <1>3
          <5> QED BY <5>1, <3>1, <1>2
        <4> QED BY <4>2, <4>3, <4>4 DEF AnswerComesFirst
      <3>5. AnswerContinues(M) /\ StreamContinues(M)
        BY <3>1, <3>2, <1>s DEF AnswerContinues, StreamContinues, Responds
      <3> QED BY <3>3, <3>4, <3>5 DEF Attended
    <2>5. CASE ~Answers(L, 1)
      <3>0. M.owner = L.owner /\ M.regs = L.regs
        BY <2>1, <2>5
      <3>1. \A i \in DOMAIN L.down : Answers(L, i) =>
               \E k \in DOMAIN M.down : i = k + 1 /\ Answers(M, k)
        <4> SUFFICES ASSUME NEW i, Answers(L, i)
                     PROVE  \E k \in DOMAIN M.down : i = k + 1 /\ Answers(M, k)
          OBVIOUS
        <4>1. i = 1 \/ \E k \in Nat \ {0} : i = k + 1 /\ Answers(M, k)
          BY <1>t, RestOfQueue
        <4> QED BY <4>1, <2>5 DEF Answers
      <3>2. (\A i \in DOMAIN L.down : ~Answers(L, i))
               => \A i \in DOMAIN M.down : ~Answers(M, i)
        BY <2>2 DEF Answers
      <3>3. \A i \in DOMAIN M.down : Responds(M, i) =>
               M.owner = M.sub.serial /\ Mine(M) \in M.regs
        BY <1>1, <1>2, <1>3, <1>s, <2>0, <3>0 DEF AnsweredOnce
      <3>4. AnsweredOnce(M)
        BY <3>0, <3>2, <3>3, <2>0, <2>3, <1>1, <1>s DEF AnsweredOnce
      <3>5. ~Resuming(L)
        <4> SUFFICES ASSUME Resuming(L) PROVE FALSE
          OBVIOUS
        <4>1. CASE L.down[1].type # "event"
          BY <4>1, <1>1, <2>0, <2>5 DEF AnswerComesFirst
        <4>2. CASE L.down[1].type = "event"
          <5>1. Responds(L, 1)
            BY <4>2, <1>1, <2>0 DEF AnswerComesFirst
          <5> QED BY <5>1, <4>2 DEF Responds
        <4> QED BY <4>1, <4>2
      <3>6. AnswerComesFirst(M)
        BY <3>5, <1>5 DEF AnswerComesFirst
      <3>7. AnswerContinues(M)
        <4> SUFFICES ASSUME NEW i \in DOMAIN M.down, Responds(M, i)
                     PROVE  ContinuesAnswer(M, i)
          BY DEF AnswerContinues
        <4>1. /\ i \in Nat /\ i + 1 \in DOMAIN L.down /\ M.down[i] = L.down[i + 1]
              /\ ~M.down[i].recovered /\ ContinuesAnswer(L, i + 1)
          BY <1>2, <1>3, <2>0 DEF AnswerContinues, Responds, Answers
        <4>2. \A j \in EventsPast(M.down, i) : M.down[i].floor < M.down[j].cursor
          BY <4>1, <1>4 DEF ContinuesAnswer
        <4> QED BY <4>1, <4>2, <1>4, <1>s DEF ContinuesAnswer
      <3>8. StreamContinues(M)
        <4>0. SUFFICES ASSUME L.sub.state = "subscribed" PROVE StreamContinues(M)
          BY <1>s DEF StreamContinues
        <4>1. L.owner = L.sub.serial
          BY <2>0, <4>0 DEF AnsweredOnce
        <4>2. L.down[1].type # "event"
          BY <4>1, <2>0, <2>1, <2>5
        <4>3. EventsPast(L.down, 1) = EventsPast(L.down, 0)
          <5>1. DOMAIN L.down \subseteq Nat \ {0}
            BY LinkFields
          <5> QED BY <5>1, <4>2 DEF EventsPast
        <4>4. \A m, n : Carries(L.down, 0, m, n) => Carries(M.down, 0, m, n)
          <5>1. \A m, n : Carries(L.down, 0, m, n) => Carries(L.down, 1, m, n)
            BY <4>3 DEF Carries
          <5>2. 0 \in Nat /\ 0 + 1 = 1
            OBVIOUS
          <5> QED BY <5>1, <5>2, <1>4
        <4>5. \A j \in EventsPast(M.down, 0) : M.coll.floor < M.down[j].cursor
          <5>1. \A j \in EventsPast(M.down, 0) :
                   j + 1 \in EventsPast(L.down, 0) /\ M.down[j] = L.down[j + 1]
            BY <1>4, <4>3
          <5> QED BY <5>1, <2>0, <1>s, <4>0 DEF StreamContinues
        <4> QED BY <4>4, <4>5, <2>0, <1>s, <4>0 DEF StreamContinues
      <3> QED BY <3>4, <3>6, <3>7, <3>8 DEF Attended
    <2> QED BY <2>1, <2>4, <2>5 DEF Answers
  <1> QED BY <1>5, <1>6, <1>7 DEF Wired

(* It hears the answer it waits for.                                       *)
Heard(L, M) ==
    /\ Taken(L, M) /\ Responds(L, 1) /\ Mounted(L)
    /\ M.owner = L.owner /\ M.regs = L.regs
    /\ M.sub.state = "subscribed" /\ M.sub.epoch = L.down[1].epoch
    /\ M.sub.cursor = IF L.down[1].recovered THEN L.sub.cursor ELSE L.down[1].cursor
    /\ L.down[1].recovered => M.coll = L.coll
    /\ ~L.down[1].recovered =>
          /\ M.coll.view = M.coll.base /\ M.coll.floor = L.down[1].floor
          /\ M.coll.sound = (L.down[1].floor = L.down[1].cursor /\ ~L.doubled)

LEMMA HeardWired ==
    ASSUME NEW L, LinkType(L), Wired(L), NEW M, LinkType(M), Heard(L, M)
    PROVE  Wired(M)
  <1> DEFINE f == L.down[1]
             last == Len(L.log)
  <1>t. Taken(L, M) /\ Sane(L) /\ Attended(L)
    BY DEF Heard, Wired
  <1>1. /\ L.conn # 0 /\ f \in Frame /\ 1 \in DOMAIN L.down /\ FrameTrue(L, 1)
        /\ FramesTrue(M) /\ Solo(M)
        /\ ((M.conn = 0 => M.owner = 0 /\ M.sub.state # "subscribed") => Numbered(M))
        /\ Mine(M) = Mine(L) /\ Pending(M) = Pending(L)
    BY <1>t, RestOfQueue
  <1>2. \A i : Answers(M, i) => i \in Nat \ {0} /\ Answers(L, i + 1)
    BY <1>t, RestOfQueue
  <1>4. \A j \in EventsPast(M.down, 0) :
           j + 1 \in EventsPast(L.down, 1) /\ M.down[j] = L.down[j + 1]
    <2>1. \A i \in Nat : \A j \in EventsPast(M.down, i) :
             j + 1 \in EventsPast(L.down, i + 1) /\ M.down[j] = L.down[j + 1]
      BY <1>t, RestOfQueue
    <2>2. 0 \in Nat /\ 0 + 1 = 1
      OBVIOUS
    <2> QED BY <2>1, <2>2
  <1>5. \A m, n : Carries(L.down, 1, m, n) => Carries(M.down, 0, m, n)
    <2>1. \A i \in Nat : \A m, n :
             Carries(L.down, i + 1, m, n) => Carries(M.down, i, m, n)
      BY <1>t, RestOfQueue
    <2>2. 0 \in Nat /\ 0 + 1 = 1
      OBVIOUS
    <2> QED BY <2>1, <2>2
  <1>6. /\ f.type = "response" /\ Answers(L, 1) /\ Responds(L, 1) /\ Mounted(L)
        /\ f.cursor \in Nat /\ f.floor \in Nat /\ f.floor <= f.cursor /\ f.cursor <= last
        /\ f.epoch = L.epoch /\ f.recovered \in BOOLEAN /\ last \in Nat
    BY <1>1, FrameKinds, LinkFields DEF Heard, Responds, FrameTrue
  <1>7. /\ ContinuesAnswer(L, 1)
        /\ L.sub.state # "subscribed" /\ Pending(L) = {}
        /\ L.owner = L.sub.serial /\ Mine(L) \in L.regs
        /\ \A i \in DOMAIN L.down : Answers(L, i) => i = 1
    BY <1>1, <1>6, <1>t DEF Attended, AnswerContinues, AnsweredOnce
  <1>8. /\ M.conn = L.conn /\ M.reads = L.reads /\ M.regs = L.regs
        /\ M.owner = L.owner /\ M.sub.serial = L.sub.serial
        /\ M.doubled = L.doubled /\ M.epoch = L.epoch /\ M.log = L.log
        /\ M.sub.state = "subscribed" /\ M.sub.epoch = f.epoch
        /\ M.sub.cursor = IF f.recovered THEN L.sub.cursor ELSE f.cursor
        /\ f.recovered => M.coll = L.coll
        /\ ~f.recovered =>
              /\ M.coll.view = M.coll.base /\ M.coll.floor = f.floor
              /\ M.coll.sound = (f.floor = f.cursor /\ ~L.doubled)
    BY DEF Heard, Taken
  <1>9. \A i : ~Answers(M, i)
    <2> SUFFICES ASSUME NEW i, Answers(M, i) PROVE FALSE
      OBVIOUS
    <2>1. i \in Nat \ {0} /\ Answers(L, i + 1) /\ i + 1 \in DOMAIN L.down
      BY <1>2 DEF Answers
    <2>2. i + 1 = 1
      BY <2>1, <1>7
    <2> QED BY <2>1, <2>2
  <1>10. Mounted(M) /\ Current(M) /\ M.sub.epoch = L.epoch /\ L.epoch \in Nat
    BY <1>6, <1>8 DEF Mounted, Current, LinkType
  <1>11. f.recovered =>
            /\ f.floor = L.sub.cursor /\ Current(L)
            /\ L.sub.cursor \in 0 .. last /\ L.coll.floor <= L.sub.cursor
            /\ L.coll.sound \/ L.coll.view = L.coll.base \/ L.coll.floor < L.sub.cursor
    BY <1>6, <1>7, <1>t DEF ContinuesAnswer, Current, Sane, HintTrue
  <1> HIDE DEF f, last
  <1>12. HintTrue(M)
    <2>1. CASE f.recovered
      BY <2>1, <1>8, <1>10, <1>11 DEF HintTrue, last
    <2>2. CASE ~f.recovered
      BY <2>2, <1>6, <1>8, <1>10 DEF HintTrue, last
    <2> QED BY <2>1, <2>2
  <1>13. ViewTrue(M)
    <2>1. CASE f.recovered
      BY <2>1, <1>8, <1>10, <1>11, <1>t DEF ViewTrue, Sane
    <2>2. CASE ~f.recovered
      <3> SUFFICES ASSUME M.coll.sound
                   PROVE  M.coll.view = FoldDeltas(M.coll.base,
                                SubSeq(M.log, M.coll.floor + 1, M.sub.cursor))
        BY DEF ViewTrue
      <3>1. M.sub.cursor = M.coll.floor /\ M.coll.view = M.coll.base
        BY <2>2, <1>8
      <3>2. M.coll.base \in Seq(Delta) /\ M.log \in Seq(Delta) /\ M.coll.floor \in Nat
        BY LinkFields DEF LinkType
      <3>3. FoldDeltas(M.coll.base, SubSeq(M.log, M.coll.floor + 1, M.coll.floor))
            = M.coll.base
        BY <3>2, ViewGrows
      <3> QED BY <3>1, <3>3
    <2> QED BY <2>1, <2>2
  <1>14. AnsweredOnce(M)
    <2>1. \A i : ~Responds(M, i)
      BY <1>9 DEF Responds
    <2> QED BY <2>1, <1>1, <1>7, <1>8, <1>9 DEF AnsweredOnce
  <1>15. AnswerComesFirst(M) /\ AnswerContinues(M)
    BY <1>8, <1>9 DEF AnswerComesFirst, Resuming, AnswerContinues, Responds
  <1>16. StreamContinues(M)
    <2>0. M.coll.floor \in Nat /\ M.coll.floor <= f.floor
      BY <1>6, <1>8, <1>11, LinkFields
    <2>1. \A j \in EventsPast(M.down, 0) : M.coll.floor < M.down[j].cursor
      <3> TAKE j \in EventsPast(M.down, 0)
      <3>1. j + 1 \in EventsPast(L.down, 1) /\ M.down[j] = L.down[j + 1]
        BY <1>4
      <3>2. f.floor < M.down[j].cursor /\ M.down[j].cursor \in Nat
        <4>1. M.down[j].type = "event" /\ j \in DOMAIN M.down
          BY DEF EventsPast
        <4>2. M.down[j] \in Frame
          BY <4>1, LinkFields
        <4> QED BY <3>1, <4>1, <4>2, <1>7, FrameKinds DEF ContinuesAnswer, f
      <3> QED BY <3>2, <2>0, <1>6
    <2>2. ASSUME ~M.doubled
          PROVE  \E m \in M.coll.floor + 1 .. Len(M.log) + 1 :
                   /\ Carries(M.down, 0, m, Len(M.log))
                   /\ M.coll.sound => m = M.sub.cursor + 1
                   /\ M.coll.sound \/ M.coll.view = M.coll.base \/ M.coll.floor + 1 < m
      <3>1. PICK m \in f.floor + 1 .. last + 1 :
               /\ Carries(L.down, 1, m, last)
               /\ f.recovered \/ f.floor = f.cursor => m = f.floor + 1
        BY <2>2, <1>7, <1>8 DEF ContinuesAnswer, f, last
      <3>2. Carries(M.down, 0, m, Len(M.log))
        BY <3>1, <1>5, <1>8 DEF last
      <3>3. m \in M.coll.floor + 1 .. Len(M.log) + 1
        BY <3>1, <2>0, <1>6, <1>8 DEF last
      <3>4. M.coll.sound => m = M.sub.cursor + 1
        BY <3>1, <1>6, <1>8, <1>11
      <3>5. M.coll.sound \/ M.coll.view = M.coll.base \/ M.coll.floor + 1 < m
        BY <3>1, <1>6, <1>8, <1>11, <2>0
      <3> QED BY <3>2, <3>3, <3>4, <3>5
    <2> QED BY <2>1, <2>2 DEF StreamContinues
  <1>17. Sane(M)
    BY <1>1, <1>8, <1>12, <1>13 DEF Sane
  <1> QED BY <1>14, <1>15, <1>16, <1>17 DEF Wired, Attended

(* It folds the next event into its view.                                  *)
Applied(L, M) ==
    /\ Taken(L, M) /\ L.down[1].type = "event" /\ Mounted(L)
    /\ L.owner = L.sub.serial /\ M.owner = L.owner /\ M.regs = L.regs
    /\ M.sub.state = L.sub.state /\ M.sub.epoch = L.sub.epoch
    /\ M.sub.cursor = L.down[1].cursor
    /\ M.coll.view = FoldDelta(L.coll.view, L.down[1].delta)
    /\ M.coll.base = L.coll.base /\ M.coll.floor = L.coll.floor
    /\ M.coll.sound = ((L.coll.sound \/ L.down[1].cursor = L.coll.floor + 1)
                       /\ ~L.doubled)

LEMMA AppliedWired ==
    ASSUME NEW L, LinkType(L), Wired(L), NEW M, LinkType(M), Applied(L, M)
    PROVE  Wired(M)
  <1> DEFINE f == L.down[1]
             last == Len(L.log)
  <1>t. Taken(L, M) /\ Sane(L) /\ Attended(L)
    BY DEF Applied, Wired
  <1>1. /\ L.conn # 0 /\ f \in Frame /\ 1 \in DOMAIN L.down /\ FrameTrue(L, 1)
        /\ FramesTrue(M) /\ Solo(M)
        /\ ((M.conn = 0 => M.owner = 0 /\ M.sub.state # "subscribed") => Numbered(M))
        /\ Mine(M) = Mine(L) /\ Pending(M) = Pending(L)
    BY <1>t, RestOfQueue
  <1>2. \A i : /\ Answers(M, i) <=> i \in Nat \ {0} /\ Answers(L, i + 1)
               /\ Responds(M, i) <=> i \in Nat \ {0} /\ Responds(L, i + 1)
    BY <1>t, RestOfQueue
  <1>3. \A i \in DOMAIN M.down : /\ i \in Nat \ {0} /\ i + 1 \in DOMAIN L.down
                                 /\ M.down[i] = L.down[i + 1]
                                 /\ ~(M.down[i].type = "response" /\ M.down[i].recovered)
    BY <1>t, RestOfQueue
  <1>4. \A i \in Nat : \A j \in EventsPast(M.down, i) :
           j + 1 \in EventsPast(L.down, i + 1) /\ M.down[j] = L.down[j + 1]
    BY <1>t, RestOfQueue
  <1>5. \A i \in Nat : \A m, n :
           Carries(L.down, i + 1, m, n) => Carries(M.down, i, m, n)
    BY <1>t, RestOfQueue
  <1>e. \A i \in Nat : EventsPast(L.down, i + 1) \subseteq EventsPast(L.down, i)
    BY <1>t, RestOfQueue
  <1>8. /\ f.type = "event" /\ Mounted(L) /\ L.owner = L.sub.serial
        /\ M.conn = L.conn /\ M.reads = L.reads /\ M.regs = L.regs
        /\ M.owner = L.owner /\ M.sub.serial = L.sub.serial
        /\ M.doubled = L.doubled /\ M.epoch = L.epoch /\ M.log = L.log
        /\ M.sub.state = L.sub.state /\ M.sub.epoch = L.sub.epoch
        /\ M.sub.cursor = f.cursor
        /\ M.coll.view = FoldDelta(L.coll.view, f.delta)
        /\ M.coll.base = L.coll.base /\ M.coll.floor = L.coll.floor
        /\ M.coll.sound = ((L.coll.sound \/ f.cursor = L.coll.floor + 1) /\ ~L.doubled)
    BY DEF Applied, Taken
  <1>9. /\ f.cursor \in 1 .. last /\ f.delta = L.log[f.cursor]
        /\ last \in Nat /\ f.cursor \in Nat
    BY <1>1, <1>8, LinkFields DEF FrameTrue
  <1>10. Mounted(M) /\ (Current(M) <=> Current(L)) /\ (Resuming(M) <=> Resuming(L))
    BY <1>8 DEF Mounted, Current, Resuming
  <1>11. ~Resuming(L)
    <2>1. Resuming(L) => Responds(L, 1)
      BY <1>1, <1>8, <1>t DEF Attended, AnswerComesFirst
    <2> QED BY <2>1, <1>8 DEF Responds
  <1>12. Current(L) => L.sub.state = "subscribed"
    BY <1>1, <1>11, LinkFields DEF Resuming, Current, Mounted
  <1>13. L.sub.state = "subscribed" =>
            Current(L) /\ L.coll.floor < f.cursor /\ StreamContinues(L)
    <2>1. 1 \in EventsPast(L.down, 0)
      BY <1>1, <1>8 DEF EventsPast
    <2> QED BY <2>1, <1>8, <1>t DEF Sane, HintTrue, Current, Mounted, Attended, StreamContinues
  <1>q. L.down \in Seq(Frame) /\ L.down # <<>> /\ L.coll.floor \in Nat
    BY LinkFields DEF LinkType, Applied, Taken
  <1>14. ASSUME L.sub.state = "subscribed", ~L.doubled
         PROVE  /\ Carries(L.down, 1, f.cursor + 1, last)
                /\ L.coll.sound => f.cursor = L.sub.cursor + 1
                /\ L.coll.sound \/ L.coll.view = L.coll.base \/ L.coll.floor + 1 < f.cursor
    <2>1. PICK m \in L.coll.floor + 1 .. last + 1 :
             /\ Carries(L.down, 0, m, last)
             /\ L.coll.sound => m = L.sub.cursor + 1
             /\ L.coll.sound \/ L.coll.view = L.coll.base \/ L.coll.floor + 1 < m
      BY <1>13, <1>14 DEF StreamContinues
    <2>2. m \in Nat
      BY <2>1, <1>q
    <2>3. f.cursor = m /\ Carries(L.down, 1, m + 1, last)
      BY <2>1, <2>2, <1>q, <1>8, <1>9, CarriesHead
    <2> QED BY <2>1, <2>3
  <1> HIDE DEF f, last
  <1>15. HintTrue(M)
    <2>1. L.sub.epoch <= L.epoch /\ (L.sub.state = "subscribed" => L.sub.epoch = L.epoch)
      BY <1>t DEF Sane, HintTrue
    <2>2. Current(M) => /\ M.sub.cursor \in 0 .. Len(M.log)
                        /\ M.coll.floor < M.sub.cursor
      BY <1>8, <1>9, <1>10, <1>12, <1>13 DEF last
    <2>3. Current(M) => M.coll.floor <= M.sub.cursor
      BY <2>2, <1>8, <1>9, <1>q
    <2> QED BY <2>1, <2>2, <2>3, <1>8 DEF HintTrue
  <1>16. ViewTrue(M)
    <2> SUFFICES ASSUME Current(M), M.coll.sound
                 PROVE  M.coll.view = FoldDeltas(M.coll.base,
                              SubSeq(M.log, M.coll.floor + 1, M.sub.cursor))
      BY DEF ViewTrue
    <2>0. /\ L.sub.state = "subscribed" /\ Current(L) /\ ~L.doubled
          /\ L.coll.floor < f.cursor
      BY <1>8, <1>10, <1>12, <1>13
    <2>n. PICK n : n = f.cursor - 1
      OBVIOUS
    <2>1. n \in L.coll.floor .. Len(L.log) - 1 /\ n + 1 = f.cursor
      BY <2>0, <2>n, <1>9, <1>q DEF last
    <2>2. L.coll.view = FoldDeltas(L.coll.base, SubSeq(L.log, L.coll.floor + 1, n))
      <3>b. L.coll.base \in Seq(Delta) /\ L.log \in Seq(Delta)
        BY LinkFields DEF LinkType
      <3>1. CASE L.coll.sound
        <4>1. L.sub.cursor \in 0 .. Len(L.log)
          BY <2>0, <1>t DEF Sane, HintTrue
        <4>2. n = L.sub.cursor
          BY <3>1, <4>1, <2>0, <2>n, <1>14
        <4> QED BY <3>1, <4>2, <2>0, <1>t DEF Sane, ViewTrue
      <3>2. CASE ~L.coll.sound
        <4>1. f.cursor = L.coll.floor + 1
          BY <3>2, <1>8
        <4>2. L.coll.view = L.coll.base /\ n = L.coll.floor
          BY <3>2, <4>1, <2>0, <2>n, <1>14, <1>q
        <4>3. FoldDeltas(L.coll.base, SubSeq(L.log, L.coll.floor + 1, L.coll.floor))
              = L.coll.base
          BY <3>b, <1>q, ViewGrows
        <4> QED BY <4>2, <4>3
      <3> QED BY <3>1, <3>2
    <2>3. FoldDeltas(L.coll.base, SubSeq(L.log, L.coll.floor + 1, n + 1))
          = FoldDelta(FoldDeltas(L.coll.base, SubSeq(L.log, L.coll.floor + 1, n)),
                      L.log[n + 1])
      <3>b. L.coll.base \in Seq(Delta) /\ L.log \in Seq(Delta)
        BY LinkFields DEF LinkType
      <3> QED BY <3>b, <2>1, <1>q, ViewGrows
    <2> QED BY <2>1, <2>2, <2>3, <1>8, <1>9
  <1>17. AnsweredOnce(M)
    <2>0. AnsweredOnce(L)
      BY <1>t DEF Attended
    <2>1. \A i \in DOMAIN M.down : Answers(M, i) => Answers(L, i + 1)
      BY <1>2
    <2>2. \A i, j \in DOMAIN M.down : Answers(M, i) /\ Answers(M, j) => i = j
      <3> SUFFICES ASSUME NEW i \in DOMAIN M.down, NEW j \in DOMAIN M.down,
                          Answers(M, i), Answers(M, j)
                   PROVE  i = j
        OBVIOUS
      <3>1. i + 1 = j + 1 /\ i \in Nat /\ j \in Nat
        BY <1>3, <2>0, <2>1 DEF AnsweredOnce
      <3> QED BY <3>1
    <2>3. (\A i \in DOMAIN L.down : ~Answers(L, i))
             => \A i \in DOMAIN M.down : ~Answers(M, i)
      BY <2>1, <1>3
    <2>4. \A i \in DOMAIN M.down : Responds(M, i) =>
             M.owner = M.sub.serial /\ Mine(M) \in M.regs
      BY <2>0, <1>1, <1>2, <1>3, <1>8 DEF AnsweredOnce
    <2> QED BY <2>0, <2>2, <2>3, <2>4, <1>1, <1>8 DEF AnsweredOnce
  <1>18. AnswerComesFirst(M)
    BY <1>10, <1>11 DEF AnswerComesFirst
  <1>19. AnswerContinues(M)
    <2> SUFFICES ASSUME NEW i \in DOMAIN M.down, Responds(M, i)
                 PROVE  ContinuesAnswer(M, i)
      BY DEF AnswerContinues
    <2>1. /\ i \in Nat /\ i + 1 \in DOMAIN L.down /\ M.down[i] = L.down[i + 1]
          /\ ~M.down[i].recovered /\ ContinuesAnswer(L, i + 1)
      BY <1>2, <1>3, <1>t DEF Attended, AnswerContinues, Responds, Answers
    <2>2. \A j \in EventsPast(M.down, i) : M.down[i].floor < M.down[j].cursor
      BY <2>1, <1>4 DEF ContinuesAnswer
    <2> QED BY <2>1, <2>2, <1>5, <1>8 DEF ContinuesAnswer
  <1>20. StreamContinues(M)
    <2>0. SUFFICES ASSUME L.sub.state = "subscribed" PROVE StreamContinues(M)
      BY <1>8 DEF StreamContinues
    <2>1. \A j \in EventsPast(M.down, 0) : M.coll.floor < M.down[j].cursor
      <3> TAKE j \in EventsPast(M.down, 0)
      <3>0. 0 \in Nat /\ 0 + 1 = 1
        OBVIOUS
      <3>1. j + 1 \in EventsPast(L.down, 1) /\ M.down[j] = L.down[j + 1]
        BY <3>0, <1>4
      <3>2. j + 1 \in EventsPast(L.down, 0)
        BY <3>0, <3>1, <1>e
      <3> QED BY <3>1, <3>2, <2>0, <1>8, <1>13 DEF StreamContinues
    <2>2. ASSUME ~M.doubled
          PROVE  \E m \in M.coll.floor + 1 .. Len(M.log) + 1 :
                   /\ Carries(M.down, 0, m, Len(M.log))
                   /\ M.coll.sound => m = M.sub.cursor + 1
                   /\ M.coll.sound \/ M.coll.view = M.coll.base \/ M.coll.floor + 1 < m
      <3>1. Carries(L.down, 1, f.cursor + 1, last) /\ L.coll.floor < f.cursor
        BY <2>0, <2>2, <1>8, <1>13, <1>14
      <3>0. 0 \in Nat /\ 0 + 1 = 1
        OBVIOUS
      <3>2. Carries(M.down, 0, f.cursor + 1, Len(M.log))
        BY <3>0, <3>1, <1>5, <1>8 DEF last
      <3>3. f.cursor + 1 \in M.coll.floor + 1 .. Len(M.log) + 1
            /\ M.coll.floor + 1 < f.cursor + 1
        BY <3>1, <1>8, <1>9, <1>q DEF last
      <3> QED BY <3>2, <3>3, <1>8
    <2> QED BY <2>1, <2>2 DEF StreamContinues
  <1>21. Sane(M)
    BY <1>1, <1>8, <1>15, <1>16 DEF Sane
  <1> QED BY <1>17, <1>18, <1>19, <1>20, <1>21 DEF Wired, Attended

-----------------------------------------------------------------------------
(* Every step of the program, seen from one device.                        *)
LinksTyped == \A c \in Devices : LinkType(Link(c))
LinksWired == \A c \in Devices : Wired(Link(c))

LEMMA LinkTyped == TypeInv => LinksTyped
  <1> SUFFICES ASSUME TypeInv, NEW c \in Devices PROVE LinkType(Link(c))
    BY DEF LinksTyped
  <1> DEFINE L == Link(c)
  <1>1. /\ L.device = c /\ L.conn = conn[c] /\ L.conns = conns[c] /\ L.down = down[c]
        /\ L.sub = sub[c] /\ L.owner = owner[c] /\ L.coll = coll[c]
        /\ L.doubled = doubled[c] /\ L.regs = {r \in regs : r.device = c}
        /\ L.reads = {rd \in reads : rd.device = c}
        /\ L.epoch = epoch /\ L.log = rt.log
    BY DEF Link
  <1>2. rt.log \in Seq(Delta) /\ epoch \in Nat \ {0}
    BY DEF TypeInv, SessionInv, GoodRuntime, Runtime, TypeOK, DaemonTypes
  <1>3. /\ conn[c] \in Nat /\ conns[c] \in Nat /\ owner[c] \in Nat
        /\ down[c] \in Seq(Frame) /\ sub[c] \in Subscription /\ coll[c] \in Collection
    BY DEF TypeInv, TypeOK, ClientTypes
  <1>4. /\ L.regs \subseteq Registration /\ L.reads \subseteq PendingRead
        /\ doubled[c] \in BOOLEAN
    BY <1>1 DEF TypeInv, TypeOK, RouterTypes
  <1>5. IsFiniteSet(L.regs)
    <2>1. L.regs \subseteq regs /\ IsFiniteSet(regs)
      BY <1>1 DEF TypeInv
    <2> QED BY <2>1, FS_Subset
  <1>6. sub[c].state # "none" => sub[c].serial # 0
    BY DEF TypeInv
  <1> HIDE DEF L
  <1>7. \A r \in L.regs \cup L.reads : r.device = L.device
    BY <1>1
  <1>8. LinkType(L)
    BY <1>1, <1>2, <1>3, <1>4, <1>5, <1>6, <1>7 DEF LinkType
  <1> QED BY <1>8 DEF L

LEMMA LinkTypedNext == TypeInv' => LinksTyped'
  BY LinkTyped, PTL

(* A step that leaves all that concerns the device alone.                  *)
LEMMA SameLink ==
    ASSUME NEW c \in Devices, Wired(Link(c)),
           conn'[c] = conn[c], conns'[c] = conns[c], down'[c] = down[c],
           sub'[c] = sub[c], owner'[c] = owner[c], coll'[c] = coll[c],
           doubled'[c] = doubled[c],
           \A r : r.device = c => (r \in regs' <=> r \in regs),
           \A rd : rd.device = c => (rd \in reads' <=> rd \in reads),
           epoch' = epoch, rt'.log = rt.log
    PROVE  Wired(Link(c))'
  <1>1. /\ {r \in regs' : r.device = c} = {r \in regs : r.device = c}
        /\ {rd \in reads' : rd.device = c} = {rd \in reads : rd.device = c}
    OBVIOUS
  <1>2. Link(c)' = Link(c)
    BY <1>1 DEF Link
  <1> QED BY <1>2

(* One event.                                                              *)
Numbering(n, d) == [cursor |-> n, delta |-> d]

LEMMA BroadcastLink ==
    ASSUME NEW c \in Devices, NEW queues, NEW d, NEW L,
           L.down = queues[c], L.conn = conn[c], L.regs = {r \in regs : r.device = c}
    PROVE  Broadcast(queues, Numbering(Len(L.log) + 1, d))[c] = Fanned(L, d)
  <1>1. Callbacks(L) = RegsOn(regs, c, conn[c])
    BY DEF Callbacks, RegsOn
  <1> QED BY <1>1 DEF Broadcast, Fanned, NewFrame, Numbering

EventStep(d) ==
    /\ down' = Broadcast(down, NextEvent(rt, d)) /\ rt'.log = Append(rt.log, d)
    /\ UNCHANGED <<epoch, routerVars, conn, conns, sub, owner, coll>>

LEMMA EventStepWired ==
    ASSUME TypeInv, LinksWired, NEW d \in Delta, EventStep(d)
    PROVE  LinksWired'
  <1> SUFFICES ASSUME NEW c \in Devices PROVE Wired(Link(c))'
    BY DEF LinksWired
  <1>1. rt.nextCursor = Len(rt.log) + 1 /\ rt.nextCursor \in Nat
    BY DEF TypeInv, SessionInv, GoodRuntime, Runtime, RingIsLogSuffix
  <1> PICK L : L = Link(c)
    OBVIOUS
  <1> PICK M : M = Link(c)'
    OBVIOUS
  <1>2. /\ L.down = down[c] /\ L.conn = conn[c] /\ Len(L.log) + 1 = rt.nextCursor
        /\ L.regs = {r \in regs : r.device = c} /\ L.log = rt.log
    BY <1>1 DEF Link
  <1>3. M.down = Fanned(L, d)
    <2>1. M.down = down'[c] /\ down' = Broadcast(down, Numbering(rt.nextCursor, d))
      BY DEF Link, EventStep, NextEvent, Numbering
    <2>2. Broadcast(down, Numbering(Len(L.log) + 1, d))[c] = Fanned(L, d)
      BY <1>2, BroadcastLink
    <2> QED BY <2>1, <2>2, <1>2
  <1>4. M.log = Append(L.log, d)
    BY <1>2 DEF Link, EventStep
  <1>5. /\ M.device = L.device /\ M.conn = L.conn /\ M.conns = L.conns
        /\ M.sub = L.sub /\ M.owner = L.owner /\ M.coll = L.coll
        /\ M.doubled = L.doubled /\ M.regs = L.regs /\ M.reads = L.reads
        /\ M.epoch = L.epoch
    BY DEF Link, EventStep, routerVars
  <1>6. Grown(L, M, d)
    BY <1>3, <1>4, <1>5 DEF Grown
  <1>7. LinkType(L) /\ Wired(L)
    BY LinkTyped DEF LinksTyped, LinksWired
  <1>8. Wired(M)
    BY <1>6, <1>7, GrownWired
  <1> QED BY <1>8

(* Two events in one step: a prompt and its turn's start.                  *)
LEMMA TwoEventsWired ==
    ASSUME TypeInv, LinksWired, NEW d \in Delta, NEW e \in Delta,
           rt'.log = Append(Append(rt.log, d), e),
           down' = Broadcast(Broadcast(down, Numbering(Len(rt.log) + 1, d)),
                             Numbering(Len(rt.log) + 2, e)),
           UNCHANGED <<epoch, routerVars, conn, conns, sub, owner, coll>>
    PROVE  LinksWired'
  <1> SUFFICES ASSUME NEW c \in Devices PROVE Wired(Link(c))'
    BY DEF LinksWired
  <1>q. PICK queues : queues = Broadcast(down, Numbering(Len(rt.log) + 1, d))
    OBVIOUS
  <1>0. rt.log \in Seq(Delta) /\ Len(rt.log) + 1 \in Nat /\ Len(rt.log) + 2 \in Nat
    BY DEF TypeInv, SessionInv, GoodRuntime, Runtime
  <1>1. /\ Append(rt.log, d) \in Seq(Delta)
        /\ Len(Append(rt.log, d)) + 1 = Len(rt.log) + 2
    BY <1>0
  <1> PICK L : L = Link(c)
    OBVIOUS
  <1>n. PICK N : N = [Link(c) EXCEPT !.log = Append(rt.log, d), !.down = queues[c]]
    OBVIOUS
  <1> PICK M : M = Link(c)'
    OBVIOUS
  <1>2. /\ L.down = down[c] /\ L.conn = conn[c] /\ L.log = rt.log
        /\ L.regs = {r \in regs : r.device = c}
    BY DEF Link
  <1>3. /\ N.down = queues[c] /\ N.conn = conn[c] /\ N.log = Append(rt.log, d)
        /\ N.regs = {r \in regs : r.device = c}
        /\ N.device = L.device /\ N.conn = L.conn /\ N.conns = L.conns
        /\ N.sub = L.sub /\ N.owner = L.owner /\ N.coll = L.coll
        /\ N.doubled = L.doubled /\ N.regs = L.regs /\ N.reads = L.reads
        /\ N.epoch = L.epoch
    BY <1>n DEF Link
  <1>4. queues[c] = Fanned(L, d)
    <2>1. Broadcast(down, Numbering(Len(L.log) + 1, d))[c] = Fanned(L, d)
      BY <1>2, BroadcastLink
    <2> QED BY <2>1, <1>2, <1>q
  <1>5. /\ M.device = N.device /\ M.conn = N.conn /\ M.conns = N.conns
        /\ M.sub = N.sub /\ M.owner = N.owner /\ M.coll = N.coll
        /\ M.doubled = N.doubled /\ M.regs = N.regs /\ M.reads = N.reads
        /\ M.epoch = N.epoch /\ M.log = Append(N.log, e) /\ M.down = down'[c]
    BY <1>3 DEF Link, routerVars
  <1>6. Grown(L, N, d)
    BY <1>2, <1>3, <1>4 DEF Grown
  <1>7. Broadcast(queues, Numbering(Len(rt.log) + 2, e))[c] = Fanned(N, e)
    <2>0. N.down = queues[c] /\ N.conn = conn[c] /\ N.regs = {r \in regs : r.device = c}
      BY <1>3
    <2>1. Broadcast(queues, Numbering(Len(N.log) + 1, e))[c] = Fanned(N, e)
      BY <2>0, BroadcastLink
    <2>2. Len(N.log) + 1 = Len(rt.log) + 2
      BY <1>1, <1>3
    <2> QED BY <2>1, <2>2
  <1>8. M.down = Fanned(N, e)
    BY <1>5, <1>7, <1>q
  <1>9. Grown(N, M, e)
    BY <1>5, <1>8 DEF Grown
  <1>10. LinkType(L) /\ Wired(L)
    BY LinkTyped DEF LinksTyped, LinksWired
  <1>11. LinkType(N) /\ Wired(N)
    BY <1>6, <1>10, GrownWired
  <1>12. Wired(M)
    BY <1>9, <1>11, GrownWired
  <1> QED BY <1>12

LEMMA SessionStepWired ==
    ASSUME TypeInv, LinksWired,
           \/ \E mode \in {"create", "resume"} : SendPrompt(mode)
           \/ RefusePrompt \/ SdkMessage \/ LoopEnd \/ DisposeQuery \/ Flush
    PROVE  LinksWired'
  <1>0. /\ items \in Nat /\ items + 1 \in Nat
        /\ rt.nextCursor = Len(rt.log) + 1 /\ Len(rt.log) \in Nat
    BY DEF TypeInv, SessionInv, GoodRuntime, Runtime, RingIsLogSuffix
  <1>1. \A r, d : /\ AddEvent(r, d).log = Append(r.log, d)
                  /\ AddEvent(r, d).nextCursor = r.nextCursor + 1
                  /\ ClearSettled(AddEvent(r, d)).log = Append(r.log, d)
    BY DEF AddEvent, ClearSettled
  <1>2. /\ SeedSettled(rt).log = rt.log /\ SeedSettled(rt).nextCursor = rt.nextCursor
        /\ ClearSettled(rt).log = rt.log
    BY DEF TypeInv, SessionInv, GoodRuntime, Runtime, SeedSettled, Install, ClearSettled
  <1>3. ASSUME NEW mode, SendPrompt(mode) PROVE LinksWired'
    <2>1. PICK spawned : spawned = IF ~loop /\ mode = "create" THEN SeedSettled(rt) ELSE rt
      OBVIOUS
    <2>2. PICK prompt : prompt = AppendItem(items + 1)
      OBVIOUS
    <2>3. PICK prompted : prompted = AddEvent(spawned, prompt)
      OBVIOUS
    <2>4. /\ rt' = AddEvent(prompted, Marker)
          /\ down' = Broadcast(Broadcast(down, NextEvent(spawned, prompt)),
                               NextEvent(prompted, Marker))
          /\ UNCHANGED <<epoch, routerVars, conn, conns, sub, owner, coll>>
      BY <1>3, <2>1, <2>2, <2>3 DEF SendPrompt
    <2>5. spawned.log = rt.log /\ spawned.nextCursor = Len(rt.log) + 1
      BY <2>1, <1>0, <1>2
    <2>6. prompted.log = Append(rt.log, prompt) /\ prompted.nextCursor = Len(rt.log) + 2
      BY <2>3, <2>5, <1>0, <1>1
    <2>7. rt'.log = Append(Append(rt.log, prompt), Marker)
      BY <2>4, <2>6, <1>1
    <2>8. /\ NextEvent(spawned, prompt) = Numbering(Len(rt.log) + 1, prompt)
          /\ NextEvent(prompted, Marker) = Numbering(Len(rt.log) + 2, Marker)
      BY <2>5, <2>6 DEF NextEvent, Numbering
    <2>9. prompt \in Delta /\ Marker \in Delta
      BY <2>2, <1>0, DeltasTyped
    <2>10. down' = Broadcast(Broadcast(down, Numbering(Len(rt.log) + 1, prompt)),
                             Numbering(Len(rt.log) + 2, Marker))
      BY <2>4, <2>8
    <2> QED BY <2>4, <2>7, <2>9, <2>10, TwoEventsWired
  <1>4. ASSUME NEW d \in Delta, Emit(rt, d),
               UNCHANGED <<epoch, routerVars>>, UNCHANGED <<conn, conns, sub, owner, coll>>
        PROVE  LinksWired'
    <2>1. rt' = AddEvent(rt, d) /\ down' = Broadcast(down, NextEvent(rt, d))
      BY <1>4 DEF Emit
    <2>2. EventStep(d)
      BY <2>1, <1>1, <1>4 DEF EventStep
    <2> QED BY <2>2, EventStepWired
  <1>5. CASE RefusePrompt
    BY <1>5, <1>4, DeltasTyped DEF RefusePrompt
  <1>6. CASE SdkMessage
    <2>1. PICK d \in Delta : Emit(rt, d)
      BY <1>6, <1>0, DeltasTyped DEF SdkMessage
    <2>2. UNCHANGED <<epoch, routerVars>> /\ UNCHANGED <<conn, conns, sub, owner, coll>>
      BY <1>6 DEF SdkMessage
    <2> QED BY <2>1, <2>2, <1>4
  <1>7. ASSUME rt'.log = rt.log, UNCHANGED <<epoch, routerVars, clientVars>>
        PROVE  LinksWired'
    <2> SUFFICES ASSUME NEW c \in Devices PROVE Wired(Link(c))'
      BY DEF LinksWired
    <2>1. Link(c)' = Link(c)
      BY <1>7 DEF Link, routerVars, clientVars
    <2> QED BY <2>1 DEF LinksWired
  <1>8. CASE LoopEnd
    <2>0. UNCHANGED <<epoch, routerVars>> /\ UNCHANGED <<conn, conns, sub, owner, coll>>
      BY <1>8 DEF LoopEnd
    <2>1. CASE rt' = ClearSettled(rt) /\ UNCHANGED down
      BY <2>0, <2>1, <1>2, <1>7 DEF clientVars
    <2>2. CASE /\ rt' = ClearSettled(AddEvent(rt, Marker))
               /\ down' = Broadcast(down, NextEvent(rt, Marker))
      <3>1. EventStep(Marker)
        BY <2>0, <2>2, <1>1 DEF EventStep
      <3> QED BY <3>1, EventStepWired, DeltasTyped
    <2> QED BY <1>8, <2>1, <2>2 DEF LoopEnd
  <1>9. CASE DisposeQuery \/ Flush
    BY <1>9, <1>7 DEF DisposeQuery, Flush
  <1> QED BY <1>3, <1>5, <1>6, <1>8, <1>9

LEMMA RestartWired ==
    ASSUME TypeInv, TypeInv', LinksWired, Restart
    PROVE  LinksWired'
  <1> SUFFICES ASSUME NEW c \in Devices PROVE Wired(Link(c))'
    BY DEF LinksWired
  <1> PICK L : L = Link(c)
    OBVIOUS
  <1> PICK M : M = Link(c)'
    OBVIOUS
  <1>1. LinkType(L) /\ Wired(L) /\ LinkType(M)
    BY LinkTyped, LinkTypedNext DEF LinksTyped, LinksWired
  <1>2. /\ M.conn = 0 /\ M.down = <<>> /\ M.owner = 0 /\ M.sub = Detached(L.sub)
        /\ M.conns = L.conns /\ M.coll = L.coll
        /\ M.regs = {} /\ M.reads = {} /\ M.epoch = L.epoch + 1
    BY DEF Restart, Link, TypeInv, TypeOK, ClientTypes
  <1>3. Wired(M)
    BY <1>1, <1>2, OfflineWired
  <1> QED BY <1>3

LEMMA DisconnectWired ==
    ASSUME TypeInv, TypeInv', LinksWired, NEW c \in Devices, Disconnect(c)
    PROVE  LinksWired'
  <1> SUFFICES ASSUME NEW d \in Devices PROVE Wired(Link(d))'
    BY DEF LinksWired
  <1>0. /\ conn' = [conn EXCEPT ![c] = 0] /\ down' = [down EXCEPT ![c] = <<>>]
        /\ owner' = [owner EXCEPT ![c] = 0] /\ sub' = [sub EXCEPT ![c] = Detached(@)]
        /\ regs' = regs \ RegsOn(regs, c, conn[c])
        /\ doubled' = [doubled EXCEPT ![c] = FALSE]
        /\ reads' = reads /\ conns' = conns /\ coll' = coll /\ epoch' = epoch /\ rt' = rt
    BY DEF Disconnect, daemonVars
  <1>t. /\ conn \in [Devices -> Nat] /\ down \in [Devices -> Seq(Frame)]
        /\ sub \in [Devices -> Subscription] /\ owner \in [Devices -> Nat]
        /\ doubled \in [Devices -> BOOLEAN]
    BY DEF TypeInv, TypeOK, ClientTypes, RouterTypes
  <1>1. CASE d = c
    <2> PICK L : L = Link(c)
      OBVIOUS
    <2> PICK M : M = Link(c)'
      OBVIOUS
    <2>1. LinkType(L) /\ Wired(L) /\ LinkType(M)
      BY LinkTyped, LinkTypedNext DEF LinksTyped, LinksWired
    <2>2. /\ M.conn = 0 /\ M.down = <<>> /\ M.owner = 0 /\ M.sub = Detached(L.sub)
          /\ M.conns = L.conns /\ M.coll = L.coll /\ M.reads = L.reads
          /\ M.regs \subseteq L.regs /\ M.epoch = L.epoch /\ M.log = L.log
      BY <1>0, <1>t DEF Link
    <2>3. Wired(M)
      BY <2>1, <2>2, OfflineWired
    <2> QED BY <2>3, <1>1
  <1>2. CASE d # c
    <2>1. \A r : r.device = d => (r \in regs' <=> r \in regs)
      BY <1>0, <1>2 DEF RegsOn
    <2>2. Wired(Link(d))
      BY DEF LinksWired
    <2> QED BY <2>1, <2>2, <1>0, <1>2, <1>t, SameLink
  <1> QED BY <1>1, <1>2

(* The subscribe handler touches its own device only.                      *)
LEMMA HandledElsewhere ==
    ASSUME TypeInv, NEW c \in Devices, NEW k, NEW s, NEW queued,
           HandleSubscribe(c, k, s, queued), NEW d \in Devices, d # c
    PROVE  /\ down'[d] = down[d] /\ doubled'[d] = doubled[d]
           /\ \A r : r.device = d => (r \in regs' <=> r \in regs)
           /\ \A rd : rd.device = d => (rd \in reads' <=> rd \in reads)
  <1>t. down \in [Devices -> Seq(Frame)] /\ doubled \in [Devices -> BOOLEAN]
    BY DEF TypeInv, TypeOK, ClientTypes, RouterTypes
  <1> PICK rs : rs = regs \ {[device |-> c, conn |-> k, serial |-> subsMap[c]]}
    OBVIOUS
  <1>1. \A r : r.device = d => (r \in rs <=> r \in regs)
    OBVIOUS
  <1>2. ASSUME NEW serial, NEW f, NEW floor, Attach(c, k, serial, rs, queued, f, floor),
               UNCHANGED reads
        PROVE  /\ down'[d] = down[d] /\ doubled'[d] = doubled[d]
               /\ \A r : r.device = d => (r \in regs' <=> r \in regs)
               /\ \A rd : rd.device = d => (rd \in reads' <=> rd \in reads)
    <2>1. /\ down' = [down EXCEPT ![c] = queued \o <<f>> \o EventFrames(Replay(rt, floor))]
          /\ regs' = rs \cup {[device |-> c, conn |-> k, serial |-> serial]}
          /\ doubled' = [doubled EXCEPT ![c] = @ \/ RegsOn(rs, c, k) # {}]
      BY <1>2 DEF Attach
    <2>2. down'[d] = down[d] /\ doubled'[d] = doubled[d]
      BY <2>1, <1>t
    <2>3. \A r : r.device = d => (r \in regs' <=> r \in regs)
      BY <2>1, <1>1
    <2> QED BY <2>2, <2>3, <1>2
  <1>3. ASSUME reads' = reads \cup {[device |-> c, conn |-> k, serial |-> s.serial,
                                      from |-> Len(disks)]},
               regs' = rs, down' = [down EXCEPT ![c] = queued], UNCHANGED doubled
        PROVE  /\ down'[d] = down[d] /\ doubled'[d] = doubled[d]
               /\ \A r : r.device = d => (r \in regs' <=> r \in regs)
               /\ \A rd : rd.device = d => (rd \in reads' <=> rd \in reads)
    BY <1>1, <1>3, <1>t
  <1>4. \/ \E serial, f, floor :
              Attach(c, k, serial, rs, queued, f, floor) /\ UNCHANGED reads
        \/ /\ reads' = reads \cup {[device |-> c, conn |-> k, serial |-> s.serial,
                                    from |-> Len(disks)]}
           /\ regs' = rs /\ down' = [down EXCEPT ![c] = queued] /\ UNCHANGED doubled
    BY DEF HandleSubscribe
  <1> QED BY <1>2, <1>3, <1>4

LEMMA HandledWired ==
    ASSUME TypeInv, NEW c \in Devices, NEW P, LinkType(P), Ready(P),
           P.device = c, P.epoch = epoch, P.log = rt.log, P.doubled = doubled[c],
           P.regs = {r \in regs : r.device = c}, P.reads = {rd \in reads : rd.device = c},
           HandleSubscribe(c, P.conn, P.sub, P.down),
           NEW M, LinkType(M), SameDevice(P, M),
           M.down = down'[c], M.doubled = doubled'[c],
           M.regs = {r \in regs' : r.device = c}, M.reads = {rd \in reads' : rd.device = c}
    PROVE  Wired(M)
  <1>t. /\ down \in [Devices -> Seq(Frame)] /\ doubled \in [Devices -> BOOLEAN]
        /\ GoodRuntime(rt) /\ epoch \in Nat \ {0}
    BY DEF TypeInv, SessionInv, TypeOK, ClientTypes, RouterTypes, DaemonTypes
  <1>r. /\ rt.log \in Seq(Delta) /\ CurrentCursor(rt) = Len(rt.log) /\ Len(rt.log) \in Nat
        /\ rt.settled # NoSettled =>
              rt.settled \in Seq(Delta) /\ rt.settledCursor = Len(rt.log)
    BY <1>t DEF GoodRuntime, Runtime, RingIsLogSuffix, SettledIsCurrent, CurrentCursor
  <1>p. /\ P.sub.serial \in Nat \ {0} /\ P.conn \in Nat \ {0} /\ P.sub.epoch \in Nat
        /\ P.sub.cursor \in Nat \cup {NoCursor}
    BY LinkFields DEF LinkType, Ready
  <1> PICK previous : previous = [device |-> c, conn |-> P.conn, serial |-> subsMap[c]]
    OBVIOUS
  <1> PICK rs : rs = regs \ {previous}
    OBVIOUS
  <1>m. Mine(P) = [device |-> c, conn |-> P.conn, serial |-> P.sub.serial]
    BY DEF Mine
  <1>1. {r \in rs : r.device = c} = P.regs \ {previous}
    OBVIOUS
  <1>2. ASSUME NEW settled \in Seq(Delta), NEW floor \in Nat, NEW recovered \in BOOLEAN,
               floor <= Len(rt.log),
               recovered => /\ P.sub.epoch = epoch /\ floor = P.sub.cursor
                            /\ BufferOk(rt, floor),
               Attach(c, P.conn, P.sub.serial, rs, P.down,
                      Response(P.sub.serial, settled, CurrentCursor(rt), floor, recovered),
                      floor),
               UNCHANGED reads
        PROVE  Wired(M)
    <2> PICK f : f = Response(P.sub.serial, settled, CurrentCursor(rt), floor, recovered)
      OBVIOUS
    <2>1. /\ f.type = "response" /\ f.serial = P.sub.serial /\ f.epoch = epoch
          /\ f.cursor = Len(rt.log) /\ f.floor = floor /\ f.recovered = recovered
      BY <1>r DEF Response
    <2>2. f \in Frame
      BY <1>t, <1>r, <1>p, FrameTypes
    <2>3. Answer(P, rt, f)
      BY <2>1, <2>2, <1>2 DEF Answer
    <2>4. /\ down' = [down EXCEPT ![c] = P.down \o <<f>> \o EventFrames(Replay(rt, floor))]
          /\ regs' = rs \cup {Mine(P)}
          /\ doubled' = [doubled EXCEPT ![c] = @ \/ RegsOn(rs, c, P.conn) # {}]
      BY <1>2, <1>m DEF Attach
    <2>5. M.down = Answering(P.down, f, Replay(rt, f.floor))
      BY <2>1, <2>4, <1>t DEF Answering
    <2>6. M.regs = (P.regs \ {previous}) \cup {Mine(P)}
      <3>1. Mine(P).device = c
        BY <1>m
      <3> QED BY <3>1, <2>4, <1>1
    <2>7. M.doubled = (P.doubled \/ {x \in P.regs \ {previous} : x.conn = P.conn} # {})
      <3>1. RegsOn(rs, c, P.conn) = {x \in P.regs \ {previous} : x.conn = P.conn}
        BY <1>1 DEF RegsOn
      <3> QED BY <3>1, <2>4, <1>t
    <2>8. Answered(P, M, rt, f, previous)
      BY <2>5, <2>6, <2>7, <1>2 DEF Answered
    <2> QED BY <2>3, <2>8, <1>t, AnsweredWired
  <1>3. ASSUME reads' = reads \cup {[device |-> c, conn |-> P.conn,
                                      serial |-> P.sub.serial, from |-> Len(disks)]},
               regs' = rs, down' = [down EXCEPT ![c] = P.down], UNCHANGED doubled
        PROVE  Wired(M)
    <2> PICK rd : rd = [device |-> c, conn |-> P.conn, serial |-> P.sub.serial,
                        from |-> Len(disks)]
      OBVIOUS
    <2>1. rd.device = c /\ rd.conn = P.conn /\ rd.serial = P.sub.serial
      OBVIOUS
    <2>2. rd \in PendingRead
      <3>1. Len(disks) \in Nat
        BY DEF TypeInv, SessionInv
      <3> QED BY <3>1, <1>p DEF PendingRead
    <2>3. M.reads = P.reads \cup {rd} /\ M.regs = P.regs \ {previous}
      BY <2>1, <1>1, <1>3
    <2>4. M.down = P.down /\ M.doubled = P.doubled
      BY <1>3, <1>t
    <2>5. /\ M.device = P.device /\ M.conn = P.conn /\ M.conns = P.conns /\ M.sub = P.sub
          /\ M.owner = P.owner /\ M.coll = P.coll /\ M.epoch = P.epoch /\ M.log = P.log
      BY DEF SameDevice
    <2> QED BY <2>1, <2>2, <2>3, <2>4, <2>5, ReadingWired
  <1>4. CanRecover(P.sub) =>
           /\ P.sub.cursor \in Nat /\ P.sub.cursor <= Len(rt.log)
           /\ P.sub.epoch = epoch /\ BufferOk(rt, P.sub.cursor)
    <2>1. HintTrue(P) /\ P.sub.state = "subscribing"
      BY DEF Ready, Sane
    <2> QED BY <2>1, <1>p, <1>r DEF CanRecover, HintTrue, Current, Mounted
  <1>5. <<>> \in Seq(Delta) /\ 0 \in Nat /\ 0 <= Len(rt.log) /\ Len(rt.log) <= Len(rt.log)
    BY <1>r
  <1> DEFINE Back(settled, floor, recovered) ==
                /\ Attach(c, P.conn, P.sub.serial, rs, P.down,
                      Response(P.sub.serial, settled, CurrentCursor(rt), floor, recovered),
                      floor)
                /\ UNCHANGED reads
  <1>6. \/ Back(<<>>, 0, FALSE)
        \/ rt.settled # NoSettled /\ Back(rt.settled, rt.settledCursor, FALSE)
        \/ CanRecover(P.sub) /\ Back(<<>>, P.sub.cursor, TRUE)
        \/ /\ reads' = reads \cup {[device |-> c, conn |-> P.conn,
                                    serial |-> P.sub.serial, from |-> Len(disks)]}
           /\ regs' = rs /\ down' = [down EXCEPT ![c] = P.down] /\ UNCHANGED doubled
    BY DEF HandleSubscribe
  <1>7. ASSUME Back(<<>>, 0, FALSE) PROVE Wired(M)
    BY <1>2, <1>5, <1>7
  <1>8. ASSUME rt.settled # NoSettled, Back(rt.settled, rt.settledCursor, FALSE)
        PROVE  Wired(M)
    BY <1>2, <1>5, <1>8, <1>r
  <1>9. ASSUME CanRecover(P.sub), Back(<<>>, P.sub.cursor, TRUE) PROVE Wired(M)
    BY <1>2, <1>4, <1>5, <1>9
  <1> HIDE DEF Back
  <1> QED BY <1>3, <1>6, <1>7, <1>8, <1>9

LEMMA Reconnected ==
    ASSUME NEW L, LinkType(L), NEW P, P.device = L.device, P.sub = L.sub,
           P.coll = L.coll, P.doubled = L.doubled, P.regs = L.regs, P.reads = L.reads,
           P.epoch = L.epoch, P.log = L.log, P.down = <<>>,
           P.conn \in Nat, P.conns \in Nat, P.owner \in Nat
    PROVE  LinkType(P)
  <1>1. P.down \in Seq(Frame)
    OBVIOUS
  <1> QED BY <1>1 DEF LinkType

LEMMA ConnectWired ==
    ASSUME TypeInv, TypeInv', LinksWired, NEW c \in Devices, Connect(c)
    PROVE  LinksWired'
  <1> SUFFICES ASSUME NEW d \in Devices PROVE Wired(Link(d))'
    BY DEF LinksWired
  <1> PICK k : k = conns[c] + 1
    OBVIOUS
  <1>0. /\ conn[c] = 0 /\ conn' = [conn EXCEPT ![c] = k] /\ conns' = [conns EXCEPT ![c] = k]
        /\ epoch' = epoch /\ rt' = rt /\ sub' = sub /\ coll' = coll
        /\ \/ /\ sub[c].state = "none" /\ down' = down /\ owner' = owner
              /\ UNCHANGED <<reads, regs, subsMap, doubled>>
           \/ /\ sub[c].state # "none" /\ HandleSubscribe(c, k, sub[c], <<>>)
              /\ owner' = [owner EXCEPT ![c] = sub[c].serial]
    BY DEF Connect, daemonVars, routerVars
  <1>t. /\ conn \in [Devices -> Nat] /\ conns \in [Devices -> Nat]
        /\ owner \in [Devices -> Nat] /\ k \in Nat \ {0}
        /\ sub[c] \in Subscription
    <2>1. /\ conn \in [Devices -> Nat] /\ conns \in [Devices -> Nat]
          /\ owner \in [Devices -> Nat] /\ sub[c] \in Subscription
      BY DEF TypeInv, TypeOK, ClientTypes
    <2>2. conns[c] \in Nat
      BY <2>1
    <2> QED BY <2>1, <2>2
  <1>1. CASE d = c
    <2> PICK L : L = Link(c)
      OBVIOUS
    <2> PICK M : M = Link(c)'
      OBVIOUS
    <2>1. LinkType(L) /\ Wired(L) /\ LinkType(M)
      BY LinkTyped, LinkTypedNext DEF LinksTyped, LinksWired
    <2>l. /\ L.device = c /\ L.conn = 0 /\ L.conns = conns[c] /\ L.down = down[c]
          /\ L.sub = sub[c] /\ L.owner = owner[c] /\ L.coll = coll[c]
          /\ L.doubled = doubled[c] /\ L.regs = {r \in regs : r.device = c}
          /\ L.reads = {rd \in reads : rd.device = c} /\ L.epoch = epoch /\ L.log = rt.log
      BY <1>0 DEF Link
    <2>m. /\ M.device = c /\ M.conn = k /\ M.conns = k /\ M.down = down'[c]
          /\ M.sub = sub[c] /\ M.coll = coll[c] /\ M.owner = owner'[c]
          /\ M.doubled = doubled'[c] /\ M.regs = {r \in regs' : r.device = c}
          /\ M.reads = {rd \in reads' : rd.device = c} /\ M.epoch = epoch /\ M.log = rt.log
      BY <1>0, <1>t DEF Link
    <2>2. CASE sub[c].state = "none"
      <3>1. ~Mounted(L)
        BY <2>2, <2>l DEF Mounted
      <3>2. Wired(M)
        BY <3>1, <2>1, <2>2, <2>l, <2>m, <1>0, BareConnectWired
      <3> QED BY <3>2, <1>1
    <2>3. CASE sub[c].state # "none"
      <3>p. PICK P : P = [M EXCEPT !.down = <<>>, !.regs = L.regs, !.reads = L.reads,
                                   !.doubled = L.doubled]
        OBVIOUS
      <3>1. /\ P.device = c /\ P.conn = k /\ P.conns = k /\ P.down = <<>>
            /\ P.sub = sub[c] /\ P.owner = sub[c].serial /\ P.coll = coll[c]
            /\ P.doubled = doubled[c] /\ P.regs = L.regs /\ P.reads = L.reads
            /\ P.epoch = epoch /\ P.log = rt.log
        BY <3>p, <2>3, <2>l, <2>m, <1>0, <1>t DEF Link
      <3>2. L.down = <<>> /\ Mounted(L)
        BY <2>1, <2>3, <2>l DEF Wired, Sane, Numbered, Mounted
      <3>3. LinkType(P)
        <4>1. P.owner \in Nat
          BY <3>1, <1>t DEF Subscription
        <4>2. P.conn \in Nat /\ P.conns \in Nat
          BY <3>1, <1>t
        <4>3. P.device = L.device /\ P.coll = L.coll /\ P.doubled = L.doubled
              /\ P.regs = L.regs /\ P.reads = L.reads
              /\ P.epoch = L.epoch /\ P.log = L.log /\ P.sub = L.sub
          BY <3>1, <2>l
        <4> QED BY <4>1, <4>2, <4>3, <3>1, <2>1, Reconnected
      <3>4. Ready(P)
        <4>1. Resent(L, P)
          <5>1. P.conn = L.conns + 1 /\ P.conns = L.conns + 1
            BY <3>1, <2>l
          <5>2. P.regs = L.regs /\ P.reads = L.reads /\ P.down = L.down
            BY <3>1, <3>2
          <5>3. /\ P.owner = L.sub.serial /\ P.sub = L.sub /\ P.coll = L.coll
                /\ P.epoch = L.epoch /\ P.log = L.log
            BY <3>1, <2>l
          <5> QED BY <5>1, <5>2, <5>3, <2>l DEF Resent
        <4> QED BY <4>1, <3>2, <3>3, <2>1, ConnectReady
      <3>5. SameDevice(P, M)
        BY <3>1, <2>3, <2>m, <1>0, <1>t DEF SameDevice
      <3>6. HandleSubscribe(c, P.conn, P.sub, P.down)
        BY <3>1, <2>3, <1>0
      <3>7. Wired(M)
        BY <3>1, <3>3, <3>4, <3>5, <3>6, <2>1, <2>l, <2>m, HandledWired
      <3> QED BY <3>7, <1>1
    <2> QED BY <2>2, <2>3
  <1>2. CASE d # c
    <2>1. conn'[d] = conn[d] /\ conns'[d] = conns[d] /\ owner'[d] = owner[d]
      BY <1>0, <1>2, <1>t
    <2>2. /\ down'[d] = down[d] /\ doubled'[d] = doubled[d]
          /\ \A r : r.device = d => (r \in regs' <=> r \in regs)
          /\ \A rd : rd.device = d => (rd \in reads' <=> rd \in reads)
      <3>1. CASE HandleSubscribe(c, k, sub[c], <<>>)
        BY <3>1, <1>2, HandledElsewhere
      <3>2. CASE down' = down /\ UNCHANGED <<reads, regs, subsMap, doubled>>
        BY <3>2
      <3> QED BY <3>1, <3>2, <1>0
    <2>3. Wired(Link(d))
      BY DEF LinksWired
    <2> QED BY <2>1, <2>2, <2>3, <1>0, SameLink
  <1> QED BY <1>1, <1>2

LEMMA SubscribeWired ==
    ASSUME TypeInv, TypeInv', LinksWired, NEW c \in Devices, NEW isNew \in BOOLEAN,
           Subscribe(c, isNew)
    PROVE  LinksWired'
  <1> SUFFICES ASSUME NEW d \in Devices PROVE Wired(Link(d))'
    BY DEF LinksWired
  <1>p. PICK s : s = NewSubscription(sub[c].serial + 1, isNew)
    OBVIOUS
  <1>0. /\ sub[c].state = "none" /\ sub' = [sub EXCEPT ![c] = s]
        /\ epoch' = epoch /\ rt' = rt /\ conn' = conn /\ conns' = conns /\ coll' = coll
        /\ \/ /\ conn[c] = 0 /\ down' = down /\ owner' = owner
              /\ UNCHANGED <<reads, regs, subsMap, doubled>>
           \/ /\ conn[c] # 0 /\ HandleSubscribe(c, conn[c], s, down[c])
              /\ owner' = [owner EXCEPT ![c] = s.serial]
    BY <1>p DEF Subscribe, daemonVars, routerVars
  <1>t. /\ conn \in [Devices -> Nat] /\ sub \in [Devices -> Subscription]
        /\ owner \in [Devices -> Nat] /\ sub[c].serial \in Nat
    BY DEF TypeInv, TypeOK, ClientTypes, Subscription
  <1>s. /\ s.state = "subscribing" /\ s.serial = sub[c].serial + 1 /\ s.epoch = 0
        /\ s \in Subscription /\ s.serial \in Nat \ {0}
    BY <1>p, <1>t DEF NewSubscription, Subscription
  <1>1. CASE d = c
    <2> PICK L : L = Link(c)
      OBVIOUS
    <2> PICK M : M = Link(c)'
      OBVIOUS
    <2>1. LinkType(L) /\ Wired(L) /\ LinkType(M)
      BY LinkTyped, LinkTypedNext DEF LinksTyped, LinksWired
    <2>l. /\ L.device = c /\ L.conn = conn[c] /\ L.conns = conns[c] /\ L.down = down[c]
          /\ L.sub = sub[c] /\ L.owner = owner[c] /\ L.coll = coll[c]
          /\ L.doubled = doubled[c] /\ L.regs = {r \in regs : r.device = c}
          /\ L.reads = {rd \in reads : rd.device = c} /\ L.epoch = epoch /\ L.log = rt.log
      BY DEF Link
    <2>m. /\ M.device = c /\ M.conn = conn[c] /\ M.conns = conns[c] /\ M.down = down'[c]
          /\ M.sub = s /\ M.coll = coll[c] /\ M.owner = owner'[c]
          /\ M.doubled = doubled'[c] /\ M.regs = {r \in regs' : r.device = c}
          /\ M.reads = {rd \in reads' : rd.device = c} /\ M.epoch = epoch /\ M.log = rt.log
      BY <1>0, <1>t DEF Link
    <2>2. CASE conn[c] = 0
      <3>1. /\ down' = down /\ owner' = owner /\ regs' = regs /\ reads' = reads
            /\ doubled' = doubled
        BY <2>2, <1>0
      <3>2. Renewed(L, M)
        BY <3>1, <2>l, <2>m, <1>s DEF Renewed
      <3>3. M.conn = 0 /\ M.owner = L.owner
        BY <3>1, <2>2, <2>l, <2>m
      <3>4. Wired(M)
        BY <3>2, <3>3, <2>1, RenewedOffline
      <3> QED BY <3>4, <1>1
    <2>3. CASE conn[c] # 0
      <3>p. PICK P : P = [M EXCEPT !.down = L.down, !.regs = L.regs, !.reads = L.reads,
                                   !.doubled = L.doubled]
        OBVIOUS
      <3>1. /\ P.device = c /\ P.conn = conn[c] /\ P.conns = conns[c] /\ P.down = down[c]
            /\ P.sub = s /\ P.owner = s.serial /\ P.coll = coll[c]
            /\ P.doubled = doubled[c] /\ P.regs = L.regs /\ P.reads = L.reads
            /\ P.epoch = epoch /\ P.log = rt.log
        BY <3>p, <2>3, <2>l, <2>m, <1>0, <1>t DEF Link
      <3>2. LinkType(P)
        BY <3>1, <2>1, <2>l, <1>s DEF LinkType
      <3>3. Renewed(L, P)
        BY <3>1, <2>l, <1>s DEF Renewed
      <3>4. Ready(P)
        BY <3>1, <3>2, <3>3, <2>1, <2>3, RenewedReady
      <3>5. SameDevice(P, M)
        BY <3>1, <2>3, <2>m, <1>0, <1>t DEF SameDevice
      <3>6. HandleSubscribe(c, P.conn, P.sub, P.down)
        BY <3>1, <2>3, <1>0
      <3>7. Wired(M)
        BY <3>1, <3>2, <3>4, <3>5, <3>6, <2>1, <2>l, <2>m, HandledWired
      <3> QED BY <3>7, <1>1
    <2> QED BY <2>2, <2>3
  <1>2. CASE d # c
    <2>1. sub'[d] = sub[d] /\ owner'[d] = owner[d]
      BY <1>0, <1>2, <1>t
    <2>2. /\ down'[d] = down[d] /\ doubled'[d] = doubled[d]
          /\ \A r : r.device = d => (r \in regs' <=> r \in regs)
          /\ \A rd : rd.device = d => (rd \in reads' <=> rd \in reads)
      <3>1. CASE HandleSubscribe(c, conn[c], s, down[c])
        BY <3>1, <1>2, HandledElsewhere
      <3>2. CASE down' = down /\ UNCHANGED <<reads, regs, subsMap, doubled>>
        BY <3>2
      <3> QED BY <3>1, <3>2, <1>0
    <2>3. Wired(Link(d))
      BY DEF LinksWired
    <2> QED BY <2>1, <2>2, <2>3, <1>0, SameLink
  <1> QED BY <1>1, <1>2

LEMMA UnsubscribeWired ==
    ASSUME TypeInv, TypeInv', LinksWired, NEW c \in Devices, Unsubscribe(c)
    PROVE  LinksWired'
  <1> SUFFICES ASSUME NEW d \in Devices PROVE Wired(Link(d))'
    BY DEF LinksWired
  <1>0. /\ sub' = [sub EXCEPT ![c] = [NoSubscription EXCEPT !.serial = sub[c].serial]]
        /\ coll' = [coll EXCEPT ![c] = NoCollection]
        /\ epoch' = epoch /\ rt' = rt /\ conn' = conn /\ conns' = conns /\ down' = down
        /\ reads' = reads /\ doubled' = doubled
        /\ \/ /\ regs' = regs \ {[device |-> c, conn |-> conn[c], serial |-> subsMap[c]]}
              /\ owner' = [owner EXCEPT ![c] = 0]
           \/ regs' = regs /\ owner' = owner
    BY DEF Unsubscribe, HandleUnsubscribe, daemonVars, routerVars
  <1>t. /\ sub \in [Devices -> Subscription] /\ coll \in [Devices -> Collection]
        /\ owner \in [Devices -> Nat]
    BY DEF TypeInv, TypeOK, ClientTypes
  <1>1. CASE d = c
    <2> PICK L : L = Link(c)
      OBVIOUS
    <2> PICK M : M = Link(c)'
      OBVIOUS
    <2>1. LinkType(L) /\ Wired(L) /\ LinkType(M)
      BY LinkTyped, LinkTypedNext DEF LinksTyped, LinksWired
    <2>2. M.sub = [NoSubscription EXCEPT !.serial = sub[c].serial] /\ L.sub = sub[c]
      BY <1>0, <1>t DEF Link
    <2>3. M.sub.state = "none" /\ M.sub.serial = L.sub.serial /\ M.sub.epoch = 0
      BY <2>2 DEF NoSubscription
    <2>4. /\ M.owner \in {0, L.owner} /\ M.regs \subseteq L.regs
          /\ M.conn = L.conn /\ M.conns = L.conns /\ M.down = L.down /\ M.reads = L.reads
          /\ M.epoch = L.epoch /\ M.log = L.log /\ M.doubled = L.doubled
      BY <1>0, <1>t DEF Link
    <2>5. Wired(M)
      BY <2>1, <2>3, <2>4, UnmountedWired
    <2> QED BY <2>5, <1>1
  <1>2. CASE d # c
    <2>1. sub'[d] = sub[d] /\ owner'[d] = owner[d] /\ coll'[d] = coll[d]
      BY <1>0, <1>2, <1>t
    <2>2. \A r : r.device = d => (r \in regs' <=> r \in regs)
      BY <1>0, <1>2
    <2>3. Wired(Link(d))
      BY DEF LinksWired
    <2> QED BY <2>1, <2>2, <2>3, <1>0, SameLink
  <1> QED BY <1>1, <1>2

LEMMA ReadStepWired ==
    ASSUME TypeInv, TypeInv', LinksWired, NEW rd \in reads,
           FailSubscribe(rd) \/ \E n \in DOMAIN disks : ResumeSubscribe(rd, n)
    PROVE  LinksWired'
  <1> SUFFICES ASSUME NEW d \in Devices PROVE Wired(Link(d))'
    BY DEF LinksWired
  <1> PICK c : c = rd.device
    OBVIOUS
  <1>t. /\ down \in [Devices -> Seq(Frame)] /\ doubled \in [Devices -> BOOLEAN]
        /\ c \in Devices /\ rd.conn \in Nat \ {0} /\ rd.serial \in Nat \ {0}
        /\ epoch \in Nat \ {0} /\ disks \in Seq(Seq(Delta))
        /\ Len(rt.log) \in Nat /\ CurrentCursor(rt) = Len(rt.log)
    <2>1. /\ down \in [Devices -> Seq(Frame)] /\ doubled \in [Devices -> BOOLEAN]
          /\ reads \subseteq PendingRead /\ epoch \in Nat \ {0}
      BY DEF TypeInv, TypeOK, ClientTypes, RouterTypes, DaemonTypes
    <2>2. /\ disks \in Seq(Seq(Delta)) /\ rt.log \in Seq(Delta)
          /\ rt.nextCursor = Len(rt.log) + 1
      BY DEF TypeInv, SessionInv, GoodRuntime, Runtime, RingIsLogSuffix
    <2>3. Len(rt.log) \in Nat /\ CurrentCursor(rt) = Len(rt.log)
      BY <2>2 DEF CurrentCursor
    <2>4. c \in Devices /\ rd.conn \in Nat \ {0} /\ rd.serial \in Nat \ {0}
      BY <2>1 DEF PendingRead
    <2> QED BY <2>1, <2>2, <2>3, <2>4
  <1> PICK reg : reg = [device |-> rd.device, conn |-> rd.conn, serial |-> rd.serial]
    OBVIOUS
  <1>r. reg.device = c /\ reg.conn = rd.conn /\ reg.serial = rd.serial
    OBVIOUS
  <1>0. /\ reads' = reads \ {rd} /\ epoch' = epoch /\ rt'.log = rt.log
        /\ conn' = conn /\ conns' = conns /\ sub' = sub /\ owner' = owner /\ coll' = coll
        /\ \E f \in Frame :
              /\ f.serial = rd.serial /\ down' = Queue(c, rd.conn, <<f>>)
              /\ \/ /\ f.type = "response" /\ f.epoch = epoch /\ ~f.recovered
                    /\ f.cursor = Len(rt.log) /\ f.floor = Len(rt.log)
                    /\ regs' = regs \cup {reg}
                    /\ doubled' = [doubled EXCEPT ![c] =
                          @ \/ (conn[c] = rd.conn /\ RegsOn(regs, c, rd.conn) # {})]
                 \/ /\ f.type = "error" /\ regs' = regs /\ doubled' = doubled
    <2>1. CASE FailSubscribe(rd)
      <3>1. /\ ErrorFrame(rd.serial) \in Frame /\ ErrorFrame(rd.serial).serial = rd.serial
            /\ ErrorFrame(rd.serial).type = "error"
        BY <1>t, FrameTypes DEF ErrorFrame
      <3> QED BY <3>1, <2>1 DEF FailSubscribe, daemonVars
    <2>2. ASSUME NEW n \in DOMAIN disks, ResumeSubscribe(rd, n)
          PROVE  /\ reads' = reads \ {rd} /\ epoch' = epoch /\ rt'.log = rt.log
                 /\ conn' = conn /\ conns' = conns /\ sub' = sub
                 /\ owner' = owner /\ coll' = coll
                 /\ \E f \in Frame :
                      /\ f.serial = rd.serial /\ down' = Queue(c, rd.conn, <<f>>)
                      /\ f.type = "response" /\ f.epoch = epoch /\ ~f.recovered
                      /\ f.cursor = Len(rt.log) /\ f.floor = Len(rt.log)
                      /\ regs' = regs \cup {reg}
                      /\ doubled' = [doubled EXCEPT ![c] =
                          @ \/ (conn[c] = rd.conn /\ RegsOn(regs, c, rd.conn) # {})]
      <3> PICK f : f = Response(rd.serial, disks[n], CurrentCursor(rt),
                                CurrentCursor(rt), FALSE)
        OBVIOUS
      <3>1. /\ f.serial = rd.serial /\ f.type = "response" /\ f.epoch = epoch
            /\ ~f.recovered /\ f.cursor = Len(rt.log) /\ f.floor = Len(rt.log)
        BY <1>t DEF Response
      <3>2. f \in Frame
        <4>1. disks[n] \in Seq(Delta)
          BY <1>t
        <4> QED BY <4>1, <1>t, FrameTypes
      <3>3. rt'.log = rt.log
        <4>1. rt' = rt \/ rt' = Memoize(rt, disks[n], n - 1)
          BY <2>2 DEF ResumeSubscribe
        <4>2. rt \in Runtime
          BY DEF TypeInv, SessionInv, GoodRuntime
        <4>3. Memoize(rt, disks[n], n - 1).log = rt.log
          BY <4>2 DEF Memoize, Install, Runtime
        <4> QED BY <4>1, <4>3
      <3>4. /\ down' = Queue(c, rd.conn, <<f>>) /\ regs' = regs \cup {reg}
            /\ doubled' = [doubled EXCEPT ![c] =
                 @ \/ (conn[c] = rd.conn /\ RegsOn(regs, c, rd.conn) # {})]
            /\ reads' = reads \ {rd} /\ epoch' = epoch
            /\ conn' = conn /\ conns' = conns /\ sub' = sub
            /\ owner' = owner /\ coll' = coll
        BY <2>2 DEF ResumeSubscribe
      <3> QED BY <3>1, <3>2, <3>3, <3>4
    <2> QED BY <2>1, <2>2
  <1>f. PICK f \in Frame :
          /\ f.serial = rd.serial /\ down' = Queue(c, rd.conn, <<f>>)
          /\ \/ /\ f.type = "response" /\ f.epoch = epoch /\ ~f.recovered
                /\ f.cursor = Len(rt.log) /\ f.floor = Len(rt.log)
                /\ regs' = regs \cup {reg}
                /\ doubled' = [doubled EXCEPT ![c] =
                      @ \/ (conn[c] = rd.conn /\ RegsOn(regs, c, rd.conn) # {})]
             \/ /\ f.type = "error" /\ regs' = regs /\ doubled' = doubled
    BY <1>0
  <1>1. CASE d = c
    <2> PICK L : L = Link(c)
      OBVIOUS
    <2> PICK M : M = Link(c)'
      OBVIOUS
    <2>1. LinkType(L) /\ Wired(L) /\ LinkType(M)
      BY <1>t, LinkTyped, LinkTypedNext DEF LinksTyped, LinksWired
    <2>l. /\ L.device = c /\ L.conn = conn[c] /\ L.down = down[c]
          /\ L.doubled = doubled[c] /\ L.regs = {r \in regs : r.device = c}
          /\ L.reads = {x \in reads : x.device = c} /\ L.epoch = epoch /\ L.log = rt.log
      BY DEF Link
    <2>m. /\ M.down = down'[c] /\ M.doubled = doubled'[c]
          /\ M.regs = {r \in regs' : r.device = c} /\ M.reads = L.reads \ {rd}
          /\ M.device = L.device /\ M.conn = L.conn /\ M.conns = L.conns
          /\ M.sub = L.sub /\ M.owner = L.owner /\ M.coll = L.coll
          /\ M.epoch = L.epoch /\ M.log = L.log
      BY <1>0 DEF Link
    <2>2. SameDevice(L, M) /\ rd \in L.reads
      BY <2>l, <2>m DEF SameDevice
    <2>3. \/ regs' = regs \cup {reg} /\ M.regs = L.regs \cup {reg}
          \/ regs' = regs /\ M.regs = L.regs
      BY <2>l, <2>m, <1>f, <1>r
    <2>4. CASE conn[c] # rd.conn
      <3>1. M.down = L.down /\ M.doubled = L.doubled
        BY <2>4, <2>l, <2>m, <1>f, <1>t DEF Queue
      <3>2. PICK X \in SUBSET {reg} : M.regs = L.regs \cup X
        <4>1. L.regs = L.regs \cup {} /\ {} \in SUBSET {reg} /\ {reg} \in SUBSET {reg}
          OBVIOUS
        <4> QED BY <4>1, <2>3
      <3>3. \A x \in X : x.conn = rd.conn /\ x.serial = rd.serial
        BY <3>2, <1>r
      <3>4. rd.conn # L.conn
        BY <2>4, <2>l
      <3>5. /\ M.reads = L.reads \ {rd} /\ M.device = L.device /\ M.conn = L.conn
            /\ M.conns = L.conns /\ M.sub = L.sub /\ M.owner = L.owner /\ M.coll = L.coll
            /\ M.epoch = L.epoch /\ M.log = L.log
        BY <2>m
      <3>6. Wired(M)
        BY <3>1, <3>2, <3>3, <3>4, <3>5, <2>1, <2>2, LostAnswerWired
      <3> QED BY <3>6, <1>1
    <2>5. CASE conn[c] = rd.conn
      <3>1. M.down = L.down \o <<f>>
        BY <2>5, <2>l, <2>m, <1>f, <1>t DEF Queue
      <3>2. Callbacks(L) = RegsOn(regs, c, rd.conn)
        BY <2>5, <2>l DEF Callbacks, RegsOn
      <3>3. \/ /\ f.type = "response" /\ f.epoch = L.epoch /\ ~f.recovered
               /\ f.cursor = Len(L.log) /\ f.floor = Len(L.log)
               /\ M.regs = L.regs \cup {reg}
               /\ M.doubled = (L.doubled \/ Callbacks(L) # {})
            \/ f.type = "error" /\ M.regs = L.regs /\ M.doubled = L.doubled
        <4>1. CASE f.type = "response"
          BY <4>1, <3>2, <2>5, <2>l, <2>m, <1>f, <1>r, <1>t
        <4>2. CASE f.type = "error"
          BY <4>2, <2>l, <2>m, <1>f
        <4> QED BY <4>1, <4>2, <1>f
      <3>4. ReadOver(L, M, rd, f)
        BY <3>1, <3>3, <2>2, <2>5, <2>l, <2>m, <1>f DEF ReadOver
      <3>5. Wired(M)
        BY <3>4, <2>1, <2>2, ReadOverWired
      <3> QED BY <3>5, <1>1
    <2> QED BY <2>4, <2>5
  <1>2. CASE d # c
    <2>1. down'[d] = down[d] /\ doubled'[d] = doubled[d]
      BY <1>2, <1>f, <1>t DEF Queue
    <2>2. /\ \A r : r.device = d => (r \in regs' <=> r \in regs)
          /\ \A x : x.device = d => (x \in reads' <=> x \in reads)
      BY <1>0, <1>2, <1>f, <1>r
    <2>3. Wired(Link(d))
      BY DEF LinksWired
    <2> QED BY <2>1, <2>2, <2>3, <1>0, SameLink
  <1> QED BY <1>1, <1>2

LEMMA DeliverWired ==
    ASSUME TypeInv, TypeInv', LinksWired, NEW c \in Devices, Deliver(c)
    PROVE  LinksWired'
  <1> SUFFICES ASSUME NEW d \in Devices PROVE Wired(Link(d))'
    BY DEF LinksWired
  <1>t. /\ down \in [Devices -> Seq(Frame)] /\ sub \in [Devices -> Subscription]
        /\ coll \in [Devices -> Collection] /\ owner \in [Devices -> Nat]
    BY DEF TypeInv, TypeOK, ClientTypes
  <1>0. /\ down[c] # <<>> /\ down' = [down EXCEPT ![c] = Tail(@)]
        /\ epoch' = epoch /\ rt' = rt /\ conn' = conn /\ conns' = conns
    BY DEF Deliver, daemonVars
  <1> PICK f : f = Head(down[c])
    OBVIOUS
  <1>f. f \in Frame /\ f = down[c][1] /\ f.type \in {"event", "response", "error"}
        /\ (f.type # "event" => f.serial \in Nat \ {0})
    <2>1. down[c] \in Seq(Frame) /\ down[c] # <<>>
      BY <1>0, <1>t
    <2>2. f = down[c][1] /\ f \in Frame
      BY <2>1, Dequeued
    <2> QED BY <2>2, FrameKinds
  <1>h. \/ f.type = "event" /\ OnEvent(c, f)
        \/ f.type = "response" /\ OnResponse(c, f)
        \/ f.type = "error" /\ OnError(c, f)
    BY <1>f DEF Deliver
  <1>g. /\ reads' = reads /\ doubled' = doubled
        /\ \/ regs' = regs /\ (owner' = owner \/ f.type = "error")
           \/ /\ regs' = regs \ {[device |-> c, conn |-> conn[c], serial |-> subsMap[c]]}
              /\ f.type = "response" /\ owner' = [owner EXCEPT ![c] = 0]
    BY <1>h DEF OnEvent, OnResponse, OnError, HandleUnsubscribe, routerVars
  <1>o. /\ \A x \in Devices : x # c =>
              sub'[x] = sub[x] /\ coll'[x] = coll[x] /\ owner'[x] = owner[x]
        /\ owner'[c] \in {0, owner[c]}
    BY <1>h, <1>t DEF OnEvent, OnResponse, OnError, routerVars
  <1>1. CASE d = c
    <2> PICK L : L = Link(c)
      OBVIOUS
    <2> PICK M : M = Link(c)'
      OBVIOUS
    <2>1. LinkType(L) /\ Wired(L) /\ LinkType(M)
      BY LinkTyped, LinkTypedNext DEF LinksTyped, LinksWired
    <2>l. /\ L.device = c /\ L.conn = conn[c] /\ L.down = down[c]
          /\ L.sub = sub[c] /\ L.owner = owner[c] /\ L.coll = coll[c]
          /\ L.doubled = doubled[c] /\ L.regs = {r \in regs : r.device = c}
          /\ L.epoch = epoch /\ L.log = rt.log /\ L.down[1] = f
      BY <1>f DEF Link
    <2>m. /\ M.down = Tail(L.down) /\ M.sub = sub'[c] /\ M.coll = coll'[c]
          /\ M.owner = owner'[c]
          /\ M.regs = {r \in regs' : r.device = c} /\ M.reads = L.reads
          /\ M.device = L.device /\ M.conn = L.conn /\ M.conns = L.conns
          /\ M.doubled = L.doubled /\ M.epoch = L.epoch /\ M.log = L.log
      BY <1>0, <1>g, <1>t DEF Link
    <2>r. M.regs \subseteq L.regs /\ (regs' = regs => M.regs = L.regs)
      BY <2>l, <2>m, <1>g
    <2>2. M.sub.serial = L.sub.serial /\ M.sub.isNew = L.sub.isNew => Taken(L, M)
      BY <2>l, <2>m, <2>r, <1>0 DEF Taken
    <2>s. L.sub \in Subscription /\ L.coll \in Collection
      BY <2>1 DEF LinkType
    <2>3. ASSUME M.sub = L.sub, M.coll = L.coll PROVE Taken(L, M)
      BY <2>2, <2>3
    <2>4. CASE f.type = "event"
      <3>0. OnEvent(c, f) /\ regs' = regs /\ owner' = owner
        BY <2>4, <1>h DEF OnEvent, routerVars
      <3>1. CASE L.owner = L.sub.serial /\ Mounted(L)
        <4>1. /\ sub' = [sub EXCEPT ![c].cursor = f.cursor]
              /\ coll' = [coll EXCEPT
                    ![c].view  = FoldDelta(@, f.delta),
                    ![c].sound = (@ \/ f.cursor = coll[c].floor + 1) /\ ~doubled[c]]
          BY <3>0, <3>1, <2>l DEF OnEvent, Mounted
        <4>2. /\ M.sub = [L.sub EXCEPT !.cursor = f.cursor]
              /\ M.coll = [L.coll EXCEPT
                    !.view  = FoldDelta(@, f.delta),
                    !.sound = (@ \/ f.cursor = L.coll.floor + 1) /\ ~L.doubled]
          BY <4>1, <2>l, <2>m, <1>t
        <4>3. /\ M.sub.state = L.sub.state /\ M.sub.epoch = L.sub.epoch
              /\ M.sub.serial = L.sub.serial /\ M.sub.isNew = L.sub.isNew
              /\ M.sub.cursor = f.cursor
          BY <4>2, <2>s DEF Subscription
        <4>4. /\ M.coll.view = FoldDelta(L.coll.view, f.delta)
              /\ M.coll.base = L.coll.base /\ M.coll.floor = L.coll.floor
              /\ M.coll.sound = ((L.coll.sound \/ f.cursor = L.coll.floor + 1)
                                 /\ ~L.doubled)
          BY <4>2, <2>s DEF Collection
        <4>5. Applied(L, M)
          BY <4>3, <4>4, <3>0, <3>1, <2>2, <2>4, <2>l, <2>m, <2>r DEF Applied
        <4> QED BY <4>5, <2>1, <1>1, AppliedWired
      <3>2. CASE ~(L.owner = L.sub.serial /\ Mounted(L))
        <4>1. M.sub = L.sub /\ M.coll = L.coll
          BY <3>0, <3>2, <2>l, <2>m DEF OnEvent, Mounted
        <4>2. M.owner = L.owner /\ M.regs = L.regs
          BY <3>0, <2>l, <2>m, <2>r
        <4>3. Dropped(L, M)
          BY <4>1, <4>2, <3>2, <2>3, <2>4, <2>l DEF Dropped
        <4> QED BY <4>3, <2>1, <1>1, DroppedWired
      <3> QED BY <3>1, <3>2, <1>1
    <2>a. f.type # "event" => (Answers(L, 1) <=> f.serial = L.sub.serial)
      <3>1. 1 \in DOMAIN L.down
        BY <2>1, <2>l, <1>0, Dequeued DEF LinkType
      <3> QED BY <3>1, <2>l DEF Answers
    <2>5. CASE f.type = "response"
      <3>0. OnResponse(c, f)
        BY <2>5, <1>h
      <3>1. CASE Answers(L, 1) /\ Mounted(L)
        <4>0. f.serial = sub[c].serial /\ sub[c].state # "none"
          BY <3>1, <2>5, <2>a, <2>l DEF Mounted
        <4>1. /\ sub' = [sub EXCEPT ![c] = Subscribed(@, f)]
              /\ coll' = IF f.recovered THEN coll
                         ELSE [coll EXCEPT ![c] =
                            [view  |-> f.settled, base |-> f.settled,
                             floor |-> f.floor,
                             sound |-> f.floor = f.cursor /\ ~doubled[c]]]
              /\ owner' = owner /\ regs' = regs
          BY <3>0, <4>0 DEF OnResponse, routerVars
        <4>2. M.sub = Subscribed(L.sub, f)
          BY <4>1, <2>l, <2>m, <1>t
        <4>3. /\ M.sub.state = "subscribed" /\ M.sub.epoch = f.epoch
              /\ M.sub.serial = L.sub.serial /\ M.sub.isNew = L.sub.isNew
              /\ M.sub.cursor = IF f.recovered THEN L.sub.cursor ELSE f.cursor
          BY <4>2, <2>s DEF Subscribed, Subscription
        <4>4. f.recovered => M.coll = L.coll
          BY <4>1, <2>l, <2>m
        <4>5. ~f.recovered =>
                 /\ M.coll.view = M.coll.base /\ M.coll.floor = f.floor
                 /\ M.coll.sound = (f.floor = f.cursor /\ ~L.doubled)
          BY <4>1, <2>l, <2>m, <1>t
        <4>6. Responds(L, 1) /\ M.owner = L.owner /\ M.regs = L.regs
          BY <4>1, <3>1, <2>5, <2>l, <2>m, <2>r DEF Responds
        <4>7. Heard(L, M)
          BY <4>3, <4>4, <4>5, <4>6, <3>1, <2>2, <2>l DEF Heard
        <4> QED BY <4>7, <2>1, <1>1, HeardWired
      <3>2. CASE ~(Answers(L, 1) /\ Mounted(L))
        <4>0. ~(f.serial = sub[c].serial /\ sub[c].state # "none")
          BY <3>2, <2>5, <2>a, <2>l DEF Mounted
        <4>e. /\ IF c \in Phones /\ owner[c] = f.serial
                 THEN HandleUnsubscribe(c) /\ owner' = [owner EXCEPT ![c] = 0]
                 ELSE UNCHANGED <<routerVars, owner>>
              /\ UNCHANGED <<sub, coll>>
          BY <3>0, <4>0, Zenon DEF OnResponse, StillOwns
        <4>1. /\ sub' = sub /\ coll' = coll
              /\ owner[c] = f.serial \/ (owner' = owner /\ regs' = regs)
          BY <4>e DEF routerVars
        <4>2. M.sub = L.sub /\ M.coll = L.coll
          BY <4>1, <2>l, <2>m
        <4>3. /\ M.owner \in {0, L.owner}
              /\ (M.owner = L.owner /\ M.regs = L.regs) \/ L.owner = f.serial
          BY <4>1, <2>l, <2>m, <2>r, <1>o
        <4>4. Dropped(L, M)
          BY <4>2, <4>3, <3>2, <2>3, <2>5, <2>l DEF Dropped
        <4> QED BY <4>4, <2>1, <1>1, DroppedWired
      <3> QED BY <3>1, <3>2, <1>1
    <2>6. CASE f.type = "error"
      <3>1. /\ sub' = sub /\ coll' = coll /\ regs' = regs
            /\ owner' = [owner EXCEPT ![c] =
                   IF c \in Phones /\ @ = f.serial THEN 0 ELSE @]
        BY <2>6, <1>h DEF OnError, routerVars
      <3>2. M.sub = L.sub /\ M.coll = L.coll /\ M.regs = L.regs
        BY <3>1, <2>l, <2>m, <2>r
      <3>3. M.owner \in {0, L.owner} /\ (M.owner = L.owner \/ L.owner = f.serial)
        BY <3>1, <2>l, <2>m, <1>t
      <3>4. Dropped(L, M)
        BY <3>2, <3>3, <2>3, <2>6, <2>l DEF Dropped
      <3>5. Wired(M)
        BY <3>4, <2>1, DroppedWired
      <3> QED BY <3>5, <1>1
    <2> QED BY <2>4, <2>5, <2>6, <1>f
  <1>2. CASE d # c
    <2>1. down'[d] = down[d] /\ sub'[d] = sub[d] /\ coll'[d] = coll[d]
          /\ owner'[d] = owner[d]
      BY <1>0, <1>2, <1>o, <1>t
    <2>2. \A r : r.device = d => (r \in regs' <=> r \in regs)
      BY <1>2, <1>g
    <2>3. Wired(Link(d))
      BY DEF LinksWired
    <2> QED BY <2>1, <2>2, <2>3, <1>0, <1>g, SameLink
  <1> QED BY <1>1, <1>2

LEMMA LinksWiredInit == Init => LinksWired
  <1> SUFFICES ASSUME Init, NEW c \in Devices PROVE Wired(Link(c))
    BY DEF LinksWired
  <1> PICK L : L = Link(c)
    OBVIOUS
  <1>1. /\ L.conn = 0 /\ L.conns = 0 /\ L.down = <<>> /\ L.owner = 0 /\ L.regs = {}
        /\ L.reads = {} /\ L.epoch = 1
        /\ L.sub = NoSubscription
    BY DEF Init, Link
  <1>2. L.sub.state = "none" /\ L.sub.epoch = 0
    BY <1>1 DEF NoSubscription
  <1>3. ~Mounted(L) /\ ~Current(L) /\ Callbacks(L) = {} /\ DOMAIN L.down = {}
    BY <1>1, <1>2 DEF Mounted, Current, Callbacks
  <1>4. Numbered(L) /\ Solo(L) /\ FramesTrue(L) /\ HintTrue(L) /\ ViewTrue(L)
    BY <1>1, <1>2, <1>3 DEF Numbered, Solo, FramesTrue, HintTrue, ViewTrue
  <1> QED BY <1>3, <1>4 DEF Wired, Sane

LEMMA LinksWiredStep == TypeInv /\ TypeInv' /\ LinksWired /\ [Next]_vars => LinksWired'
  <1> SUFFICES ASSUME TypeInv, TypeInv', LinksWired, [Next]_vars PROVE LinksWired'
    OBVIOUS
  <1>1. CASE \/ \E mode \in {"create", "resume"} : SendPrompt(mode)
             \/ RefusePrompt \/ SdkMessage \/ LoopEnd \/ DisposeQuery \/ Flush
    BY <1>1, SessionStepWired
  <1>2. CASE Restart
    BY <1>2, RestartWired
  <1>3. ASSUME NEW rd \in reads,
               (\E n \in DOMAIN disks : ResumeSubscribe(rd, n)) \/ FailSubscribe(rd)
        PROVE  LinksWired'
    BY <1>3, ReadStepWired
  <1>4. ASSUME NEW c \in Devices,
               \/ Connect(c) \/ Disconnect(c)
               \/ \E isNew \in BOOLEAN : Subscribe(c, isNew)
               \/ Unsubscribe(c) \/ Deliver(c)
        PROVE  LinksWired'
    BY <1>4, ConnectWired, DisconnectWired, SubscribeWired, UnsubscribeWired, DeliverWired
  <1>5. CASE UNCHANGED vars
    <2> SUFFICES ASSUME NEW c \in Devices PROVE Wired(Link(c))'
      BY DEF LinksWired
    <2>1. Link(c)' = Link(c)
      BY <1>5 DEF Link, vars, daemonVars, routerVars, clientVars
    <2> QED BY <2>1 DEF LinksWired
  <1> QED BY <1>1, <1>2, <1>3, <1>4, <1>5 DEF Next

LEMMA StreamAlways == Spec => [](TypeInv /\ LinksWired)
  <1>1. TypeInv /\ [Next]_vars => TypeInv'
    BY TypeInvStep
  <1> QED BY <1>1, TypeInvInit, LinksWiredInit, LinksWiredStep, PTL DEF Spec

(* What a device shows is its last full snapshot with every later event up *)
(* to its resume cursor, each folded once and in order, whatever is lost,  *)
(* replayed or restarted.                                                  *)
THEOREM ViewIsTheLog == Spec => []ViewMatchesCursor
  <1>1. TypeInv /\ LinksWired => ViewMatchesCursor
    <2> SUFFICES ASSUME TypeInv, LinksWired, NEW c \in Devices,
                        coll[c].sound, sub[c].state # "none", sub[c].epoch = epoch
                 PROVE  coll[c].view = FoldDeltas(coll[c].base,
                              SubSeq(rt.log, coll[c].floor + 1, sub[c].cursor))
      BY DEF ViewMatchesCursor
    <2> PICK L : L = Link(c)
      OBVIOUS
    <2>1. L.coll = coll[c] /\ L.sub = sub[c] /\ L.epoch = epoch /\ L.log = rt.log
      BY DEF Link
    <2>2. ViewTrue(L)
      BY DEF LinksWired, Wired, Sane
    <2> QED BY <2>1, <2>2 DEF ViewTrue, Current, Mounted
  <1> QED BY <1>1, StreamAlways, PTL

(* Between the replay that answered a device and the live tail there is no *)
(* gap, no duplicate and no disorder.                                      *)
THEOREM WireHasNoGap == Spec => []WireContiguous
  <1>1. TypeInv /\ LinksWired => WireContiguous
    <2> SUFFICES ASSUME TypeInv, LinksWired, NEW c \in Devices,
                        sub[c].state = "subscribed", coll[c].sound, ~doubled[c]
                 PROVE  Carries(down[c], 0, sub[c].cursor + 1, CurrentCursor(rt))
      BY DEF WireContiguous
    <2> PICK L : L = Link(c)
      OBVIOUS
    <2>1. /\ L.coll = coll[c] /\ L.sub = sub[c] /\ L.log = rt.log
          /\ L.down = down[c] /\ L.doubled = doubled[c]
      BY DEF Link
    <2>2. Mounted(L)
      BY <2>1 DEF Mounted
    <2>3. StreamContinues(L)
      BY <2>2 DEF LinksWired, Wired, Attended
    <2>4. CurrentCursor(rt) = Len(rt.log)
      BY DEF TypeInv, SessionInv, GoodRuntime, Runtime, RingIsLogSuffix, CurrentCursor
    <2> QED BY <2>1, <2>3, <2>4 DEF StreamContinues
  <1> QED BY <1>1, StreamAlways, PTL

(* A warm answer is only given to a view built in this daemon process, and *)
(* every event past that view follows it.                                  *)
THEOREM RecoveryIsWhole == Spec => []RecoveryIsComplete
  <1>1. TypeInv /\ LinksWired => RecoveryIsComplete
    <2> SUFFICES ASSUME TypeInv, LinksWired, NEW c \in Devices, NEW i \in DOMAIN down[c],
                        down[c][i].type = "response", down[c][i].recovered,
                        down[c][i].serial = sub[c].serial, sub[c].state # "none"
                 PROVE  /\ sub[c].epoch = epoch
                        /\ ~doubled[c] =>
                              Carries(down[c], i, down[c][i].floor + 1, CurrentCursor(rt))
      BY DEF RecoveryIsComplete
    <2> PICK L : L = Link(c)
      OBVIOUS
    <2>1. /\ L.coll = coll[c] /\ L.sub = sub[c] /\ L.log = rt.log /\ L.epoch = epoch
          /\ L.down = down[c] /\ L.doubled = doubled[c]
      BY DEF Link
    <2>2. Mounted(L) /\ Responds(L, i)
      BY <2>1 DEF Mounted, Responds, Answers
    <2>3. ContinuesAnswer(L, i)
      BY <2>1, <2>2 DEF LinksWired, Wired, Attended, AnswerContinues
    <2>4. CurrentCursor(rt) = Len(rt.log)
      BY DEF TypeInv, SessionInv, GoodRuntime, Runtime, RingIsLogSuffix, CurrentCursor
    <2> QED BY <2>1, <2>3, <2>4 DEF ContinuesAnswer
  <1> QED BY <1>1, StreamAlways, PTL

=============================================================================
