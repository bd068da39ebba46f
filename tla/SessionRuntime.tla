--------------------------- MODULE SessionRuntime ---------------------------
(***************************************************************************)
(* The event log of one session inside the daemon: the ring buffer, the    *)
(* cursor counter and the continuously folded `settled` snapshot of class  *)
(* SessionRuntime (daemon/src/runtime/session-runtime.ts).                 *)
(*                                                                         *)
(* A runtime is a record and every method is an operator from records to   *)
(* records, so that a handler that calls several methods in one            *)
(* synchronous segment is the composition of their operators.              *)
(*                                                                         *)
(* An EventDelta is abstracted to what the transcript reducers tell apart: *)
(* it appends a timeline item, patches one, or is a marker (turn_started,  *)
(* turn_completed, ...) that takes a cursor and touches no item.  A        *)
(* timeline is the sequence of deltas that took effect on it.              *)
(***************************************************************************)
EXTENDS Integers, Sequences

CONSTANTS BufferCap,   \* events kept in the ring (500 in production)
          NoSettled    \* runtime.settled === null

ASSUME BufferCapAssumption == BufferCap \in Nat \ {0}

Delta == [kind : {"append", "patch", "marker"}, item : Nat]

AppendItem(n) == [kind |-> "append", item |-> n]
PatchItem(n)  == [kind |-> "patch", item |-> n]
Marker        == [kind |-> "marker", item |-> 0]

Event == [cursor : Nat, delta : Delta]

ASSUME NoSettledAssumption == NoSettled \notin Seq(Delta)

Has(timeline, n) ==
    \E i \in DOMAIN timeline : timeline[i] = AppendItem(n)

(* foldEventDelta: an append always lands, a patch lands only on an item   *)
(* the timeline holds, a marker never does.                                *)
FoldDelta(timeline, d) ==
    IF d.kind = "append" \/ (d.kind = "patch" /\ Has(timeline, d.item))
    THEN Append(timeline, d)
    ELSE timeline

FoldDeltas(timeline, ds) ==
    LET fold[i \in 0 .. Len(ds)] ==
            IF i = 0 THEN timeline ELSE FoldDelta(fold[i - 1], ds[i])
    IN fold[Len(ds)]

-----------------------------------------------------------------------------
(* Three fields are history.  `log`: every delta added in this daemon      *)
(* process, at the index of its cursor, those the ring has evicted         *)
(* included.  `held` and `start` say what the snapshot lacks: the events   *)
(* past `held` up to `start`, those a read had not found on disk when it   *)
(* was memoized; both are 0 when it lacks none.                            *)
NewRuntime ==
    [log |-> <<>>, buffer |-> <<>>, nextCursor |-> 1,
     settled |-> NoSettled, settledCursor |-> 0, held |-> 0, start |-> 0]

CurrentCursor(r) == r.nextCursor - 1

(* addEvent: number the event, push it, evict the oldest over capacity,    *)
(* fold it into the snapshot if there is one.                              *)
Evict(buffer) ==
    IF Len(buffer) > BufferCap THEN Tail(buffer) ELSE buffer

AddEvent(r, d) ==
    LET event == [cursor |-> r.nextCursor, delta |-> d] IN
    [log           |-> Append(r.log, d),
     buffer        |-> Evict(Append(r.buffer, event)),
     nextCursor    |-> r.nextCursor + 1,
     settled       |-> IF r.settled = NoSettled THEN NoSettled
                       ELSE FoldDelta(r.settled, d),
     settledCursor |-> IF r.settled = NoSettled THEN r.settledCursor
                       ELSE r.nextCursor,
     held          |-> r.held,
     start         |-> r.start]

(* Mutant: the event at the resume cursor itself is replayed again.        *)
Replay_Inclusive(r, sinceCursor) ==
    LET past == {i \in DOMAIN r.buffer : r.buffer[i].cursor >= sinceCursor} IN
    IF past = {} THEN <<>>
    ELSE LET start == CHOOSE i \in past : \A j \in past : i <= j
         IN SubSeq(r.buffer, start, Len(r.buffer))

(* The events a subscribe(cb, sinceCursor) replays: the slice of the ring  *)
(* from the first event past sinceCursor.                                  *)
Replay(r, sinceCursor) ==
    LET past == {i \in DOMAIN r.buffer : r.buffer[i].cursor > sinceCursor} IN
    IF past = {} THEN <<>>
    ELSE LET start == CHOOSE i \in past : \A j \in past : i <= j
         IN SubSeq(r.buffer, start, Len(r.buffer))

(* Mutant: the completeness check is one event too generous.               *)
BufferOk_OffByOne(r, sinceCursor) ==
    IF r.buffer = <<>>
    THEN sinceCursor >= CurrentCursor(r)
    ELSE sinceCursor + 2 >= r.buffer[1].cursor

(* Can the ring serve every event past sinceCursor?  (router.ts bufferOk)  *)
BufferOk(r, sinceCursor) ==
    IF r.buffer = <<>>
    THEN sinceCursor >= CurrentCursor(r)
    ELSE sinceCursor + 1 >= r.buffer[1].cursor

(* A snapshot that holds the first `held` events, installed now.           *)
Install(r, timeline, cursor, held) ==
    LET whole == held = CurrentCursor(r) IN
    [r EXCEPT !.settled = timeline, !.settledCursor = cursor,
              !.held  = IF whole THEN 0 ELSE held,
              !.start = IF whole THEN 0 ELSE CurrentCursor(r)]

(* Mutant: a later read does not replace the snapshot, only its cursor.    *)
Memoize_KeepsItems(r, timeline, held) ==
    Install(r, IF r.settled = NoSettled THEN timeline ELSE r.settled,
            CurrentCursor(r), held)

(* ensureSessionLoop in create mode seeds an empty snapshot at cursor 0;   *)
(* the loop's finally drops the snapshot; the lazy read memoizes what the  *)
(* file held, under the cursor of the moment it comes back.                *)
SeedSettled(r)  == Install(r, <<>>, 0, 0)
ClearSettled(r) == [r EXCEPT !.settled = NoSettled, !.settledCursor = 0,
                             !.held = 0, !.start = 0]
Memoize(r, timeline, held) == Install(r, timeline, CurrentCursor(r), held)

-----------------------------------------------------------------------------
Runtime == [log : Seq(Delta), buffer : Seq(Event), nextCursor : Nat \ {0},
            settled : Seq(Delta) \cup {NoSettled}, settledCursor : Nat,
            held : Nat, start : Nat]

HoldsNewest(buffer, log) ==
    /\ Len(buffer) = IF Len(log) < BufferCap THEN Len(log) ELSE BufferCap
    /\ \A i \in 1 .. Len(buffer) :
          LET k == (Len(log) - Len(buffer)) + i
          IN buffer[i] = [cursor |-> k, delta |-> log[k]]

(* The ring is exactly the last BufferCap events of the log, under their   *)
(* own cursors: what warm resumption (session-runtime.ts addEvent) relies  *)
(* on for every event since an arbitrary cursor.                           *)
RingIsLogSuffix(r) ==
    /\ r.nextCursor = Len(r.log) + 1
    /\ HoldsNewest(r.buffer, r.log)

(* The snapshot carries the newest event's cursor, so the cold path serves *)
(* it with an empty replay window (session-runtime.ts addEvent): what it   *)
(* does not hold a subscriber never gets.                                  *)
SettledIsCurrent(r) ==
    r.settled # NoSettled => r.settledCursor = CurrentCursor(r)

(* What it does hold, over the timeline `found` the process found on disk: *)
(* every event of the log, each folded once and in order, but those that   *)
(* came before it was installed and were not in the read it comes from.    *)
SettledHolds(r, found) ==
    r.settled # NoSettled =>
       /\ r.held <= r.start /\ r.start <= CurrentCursor(r)
       /\ r.settled = FoldDeltas(FoldDeltas(found, SubSeq(r.log, 1, r.held)),
                                 SubSeq(r.log, r.start + 1, Len(r.log)))

=============================================================================
