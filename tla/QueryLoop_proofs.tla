-------------------------- MODULE QueryLoop_proofs --------------------------
(***************************************************************************)
(* Proofs about QueryLoop, for every set of prompts and watchers and every *)
(* bound: all its safety properties.  Type correctness is inductive by     *)
(* itself, and so are the two invariants of the teardown timer; the others *)
(* are inductive together with type correctness once strengthened          *)
(* (OwnedIsOpen, InterruptBudget, TurnIsKnown).                            *)
(***************************************************************************)
EXTENDS QueryLoop, TLAPS

(* What a query's record is.                                               *)
Sdk == [live : BOOLEAN, closed : BOOLEAN, looping : BOOLEAN,
        inbox : Seq(Prompts), turn : Turns, out : Seq(Messages)]

-----------------------------------------------------------------------------
(* The operators on queries keep their type.                               *)

LEMMA FreshType == Fresh \in Sdk /\ Unborn \in Sdk
  <1>1. << >> \in Seq(Prompts) /\ << >> \in Seq(Messages)
    OBVIOUS
  <1> QED BY <1>1 DEF Fresh, Unborn, Sdk, Turns

LEMMA CloseType ==
  ASSUME sdk \in [Queries -> Sdk], NEW q \in Queries
  PROVE  /\ Close(q) \in [Queries -> Sdk]
         /\ \A r \in Queries : Close(q)[r].looping = sdk[r].looping
  BY DEF Close, Sdk

LEMMA TakeType ==
  ASSUME sdk \in [Queries -> Sdk], NEW q \in Queries, sdk[q].out # << >>
  PROVE  /\ Take(q) \in [Queries -> Sdk]
         /\ \A r \in Queries : /\ Take(q)[r].looping = sdk[r].looping
                               /\ Take(q)[r].closed = sdk[r].closed
  <1>1. sdk[q].out \in Seq(Messages)
    BY DEF Sdk
  <1>2. Tail(sdk[q].out) \in Seq(Messages)
    BY <1>1
  <1> QED BY <1>2 DEF Take, Sdk

LEMMA YieldType ==
  ASSUME sdk \in [Queries -> Sdk], NEW q \in Queries, NEW msg \in Messages,
         NEW turn \in Turns, NEW inbox \in Seq(Prompts), Yield(q, msg, turn, inbox)
  PROVE  /\ sdk' \in [Queries -> Sdk]
         /\ \A r \in Queries : /\ sdk'[r].looping = sdk[r].looping
                               /\ sdk'[r].closed = sdk[r].closed
  <1>1. sdk[q].out \in Seq(Messages)
    BY DEF Sdk
  <1> DEFINE out == Append(sdk[q].out, msg)
             next == IF msg = "frame" THEN turn ELSE NoTurn
             rec == [sdk[q] EXCEPT !.out = out, !.turn = next, !.inbox = inbox]
  <1>2. out \in Seq(Messages) /\ next \in Turns
    BY <1>1 DEF Turns
  <1>3. sdk' = [sdk EXCEPT ![q] = rec]
    BY DEF Yield
  <1> HIDE DEF out, next
  <1>4. rec \in Sdk /\ rec.looping = sdk[q].looping /\ rec.closed = sdk[q].closed
    BY <1>2 DEF Sdk
  <1> QED BY <1>3, <1>4

(* Every message a query yields leaves its flags alone.                    *)
LEMMA TurnType ==
  ASSUME TypeOK, NEW q \in Queries,
         BeginTurn(q) \/ Wake(q) \/ YieldFrame(q) \/ YieldResult(q)
  PROVE  /\ sdk' \in [Queries -> Sdk]
         /\ \A r \in Queries : /\ sdk'[r].looping = sdk[r].looping
                               /\ sdk'[r].closed = sdk[r].closed
         /\ UNCHANGED <<spawned, runtimeVars, handlerVars>>
  <1>1. sdk \in [Queries -> Sdk] /\ sdk[q].inbox \in Seq(Prompts) /\ sdk[q].turn \in Turns
    BY DEF TypeOK, Sdk
  <1>2. CASE BeginTurn(q)
    <2>1. PICK msg \in Messages : Yield(q, msg, Head(sdk[q].inbox), Tail(sdk[q].inbox))
      BY <1>2 DEF BeginTurn
    <2>2. Head(sdk[q].inbox) \in Turns /\ Tail(sdk[q].inbox) \in Seq(Prompts)
      BY <1>1, <1>2 DEF BeginTurn, Turns
    <2> QED BY <1>1, <2>1, <2>2, YieldType DEF Yield
  <1>3. CASE Wake(q)
    BY <1>1, <1>3, YieldType DEF Wake, Yield, Turns, Messages
  <1>4. CASE YieldFrame(q)
    BY <1>1, <1>4, YieldType DEF YieldFrame, Yield, Messages
  <1>5. CASE YieldResult(q)
    <2>1. PICK msg \in Messages \ {"frame"} : Yield(q, msg, NoTurn, sdk[q].inbox)
      BY <1>5 DEF YieldResult
    <2> QED BY <1>1, <2>1, YieldType DEF Yield, Turns
  <1> QED BY <1>2, <1>3, <1>4, <1>5

-----------------------------------------------------------------------------
(* Type correctness.                                                       *)

(* Every variable but the queries and the counters.                        *)
RuntimeType ==
    /\ activity \in {"idle", "running"}
    /\ interrupted \in BOOLEAN /\ timer \in BOOLEAN
    /\ watchers \subseteq Watchers
    /\ prompts \in [Prompts -> {"unsent", "awaiting", "inbound", "refused", "pushed"}]
    /\ interrupting \in Queries \cup {NoQuery}
    /\ shuttingDown \in BOOLEAN

HistoryType ==
    /\ interrupts \in 0 .. MaxInterrupts
    /\ wakes \in 0 .. MaxWakes
    /\ swallowed \in Nat
    /\ lost \subseteq Prompts
    /\ strayed \in BOOLEAN

SlotType ==
    /\ sdk \in [Queries -> Sdk]
    /\ spawned \in 0 .. MaxQueries
    /\ slot \in 0 .. spawned
    /\ slot # NoQuery => sdk[slot].looping

LEMMA TypeParts == TypeOK <=> RuntimeType /\ HistoryType /\ SlotType
  BY DEF TypeOK, RuntimeType, HistoryType, SlotType, Sdk

LEMMA SlotIsQuery ==
  ASSUME SlotType, slot # NoQuery
  PROVE  slot \in Queries
  BY BoundsAssumption DEF SlotType, Queries, NoQuery

LEMMA TypeInit == Init => TypeOK
  <1> SUFFICES ASSUME Init PROVE TypeOK
    OBVIOUS
  <1>1. RuntimeType
    BY DEF Init, RuntimeType
  <1>2. HistoryType
    <2>1. interrupts = 0 /\ wakes = 0 /\ swallowed = 0 /\ lost = {} /\ strayed = FALSE
      BY DEF Init
    <2>2. 0 \in 0 .. MaxInterrupts /\ 0 \in 0 .. MaxWakes
      BY BoundsAssumption
    <2> QED BY <2>1, <2>2 DEF HistoryType
  <1>3. SlotType
    BY BoundsAssumption, FreshType DEF Init, SlotType, NoQuery
  <1> QED BY <1>1, <1>2, <1>3, TypeParts

(* What the handlers and the loop do to the runtime and to the histories.  *)
LEMMA RuntimeStep ==
  ASSUME TypeOK, Next
  PROVE  RuntimeType'
  <1> USE DEF RuntimeType
  <1>0. RuntimeType /\ HistoryType /\ SlotType
    BY TypeParts
  <1>1. ASSUME NEW w \in Watchers, Subscribe(w) \/ Unsubscribe(w) PROVE RuntimeType'
    BY <1>0, <1>1 DEF Subscribe, Unsubscribe, ArmTimer, handlerVars
  <1>2. CASE TimerFires
    BY <1>0, <1>2 DEF TimerFires, handlerVars
  <1>3. ASSUME NEW p \in Prompts,
               SendPrompt(p) \/ InboundPrompt(p) \/ RefusePrompt(p) \/ PushPrompt(p)
        PROVE  RuntimeType'
    BY <1>0, <1>3 DEF SendPrompt, InboundPrompt, RefusePrompt, PushPrompt, runtimeVars
  <1>4. CASE Interrupt
    BY <1>0, <1>4, SlotIsQuery DEF Interrupt
  <1>5. CASE InterruptSettles
    BY <1>0, <1>5 DEF InterruptSettles, runtimeVars
  <1>6. ASSUME NEW q \in Queries, BeginTurn(q) \/ Wake(q) \/ YieldFrame(q) \/ YieldResult(q)
        PROVE  RuntimeType'
    BY <1>0, <1>6, TurnType DEF runtimeVars, handlerVars
  <1>7. ASSUME NEW q \in Queries, Exit(q) PROVE RuntimeType'
    BY <1>0, <1>7 DEF Exit, runtimeVars, handlerVars
  <1>8. ASSUME NEW q \in Queries, HandleFrame(q) \/ HandleResult(q) PROVE RuntimeType'
    BY <1>0, <1>8 DEF HandleFrame, HandleResult, MarkActivity, ArmTimer, handlerVars
  <1>9. ASSUME NEW q \in Queries, LoopEnds(q) PROVE RuntimeType'
    BY <1>0, <1>9 DEF LoopEnds, handlerVars
  <1>10. CASE Stop
    BY <1>0, <1>10 DEF Stop, runtimeVars
  <1> QED BY <1>1, <1>2, <1>3, <1>4, <1>5, <1>6, <1>7, <1>8, <1>9, <1>10 DEF Next

LEMMA HistoryStep ==
  ASSUME TypeOK, Next
  PROVE  HistoryType'
  <1> USE DEF HistoryType, historyVars
  <1>0. RuntimeType /\ HistoryType /\ SlotType
    BY TypeParts
  <1>1. ASSUME NEW w \in Watchers, Subscribe(w) \/ Unsubscribe(w) PROVE HistoryType'
    BY <1>0, <1>1 DEF Subscribe, Unsubscribe
  <1>2. CASE TimerFires
    BY <1>0, <1>2 DEF TimerFires
  <1>3. ASSUME NEW p \in Prompts, SendPrompt(p) \/ InboundPrompt(p) \/ RefusePrompt(p)
        PROVE  HistoryType'
    BY <1>0, <1>3 DEF SendPrompt, InboundPrompt, RefusePrompt
  <1>4. ASSUME NEW p \in Prompts, PushPrompt(p) PROVE HistoryType'
    BY <1>0, <1>4 DEF PushPrompt
  <1>5. CASE Interrupt
    BY <1>0, <1>5, BoundsAssumption DEF Interrupt
  <1>6. CASE InterruptSettles
    BY <1>0, <1>6 DEF InterruptSettles
  <1>7. ASSUME NEW q \in Queries, BeginTurn(q) \/ YieldFrame(q) \/ YieldResult(q) \/ Exit(q)
        PROVE  HistoryType'
    BY <1>0, <1>7 DEF BeginTurn, YieldFrame, YieldResult, Exit
  <1>8. ASSUME NEW q \in Queries, Wake(q) PROVE HistoryType'
    BY <1>0, <1>8, BoundsAssumption DEF Wake
  <1>9. ASSUME NEW q \in Queries, HandleFrame(q) \/ HandleResult(q) PROVE HistoryType'
    <2>1. swallowed' \in {swallowed, swallowed + 1}
      BY <1>9 DEF HandleFrame, HandleResult
    <2>2. UNCHANGED <<interrupts, wakes, lost>> /\ strayed' \in BOOLEAN
      BY <1>9 DEF HandleFrame, HandleResult
    <2> QED BY <1>0, <2>1, <2>2
  <1>10. ASSUME NEW q \in Queries, LoopEnds(q) PROVE HistoryType'
    BY <1>0, <1>10 DEF LoopEnds
  <1>11. CASE Stop
    BY <1>0, <1>11 DEF Stop
  <1> QED BY <1>1, <1>2, <1>3, <1>4, <1>5, <1>6, <1>7, <1>8, <1>9, <1>10, <1>11 DEF Next

(* A prompt that is pushed leaves the slot with a query whose loop runs.   *)
LEMMA PushType ==
  ASSUME SlotType, NEW p \in Prompts, PushPrompt(p)
  PROVE  /\ SlotType'
         /\ slot' \in Queries
         /\ slot # NoQuery => slot' = slot /\ spawned' = spawned
         /\ slot = NoQuery => ~sdk'[slot'].closed /\ sdk'[slot'].turn = NoTurn
         /\ \A r \in Queries \ {slot'} : /\ sdk'[r].looping = sdk[r].looping
                                         /\ sdk'[r].closed = sdk[r].closed
         /\ slot # NoQuery => /\ sdk'[slot].looping = sdk[slot].looping
                              /\ sdk'[slot].closed = sdk[slot].closed
  <1> DEFINE q == IF slot = NoQuery THEN spawned + 1 ELSE slot
             with == IF slot = NoQuery THEN [sdk EXCEPT ![q] = Fresh] ELSE sdk
  <1>1. q \in Queries /\ q \in 0 .. spawned' /\ spawned' \in 0 .. MaxQueries /\ slot' = q
    <2>1. CASE slot = NoQuery
      BY <2>1, BoundsAssumption DEF PushPrompt, SlotType, Queries
    <2>2. CASE slot # NoQuery
      BY <2>2, SlotIsQuery DEF PushPrompt, SlotType, Queries
    <2> QED BY <2>1, <2>2
  <1>2. /\ with \in [Queries -> Sdk] /\ with[q].looping
        /\ slot = NoQuery => ~with[q].closed /\ with[q].turn = NoTurn
        /\ \A r \in Queries \ {q} : with[r] = sdk[r]
        /\ slot # NoQuery => with[q] = sdk[q]
    BY <1>1, FreshType DEF SlotType, Fresh, Unborn
  <1>3. sdk' = with \/ sdk' = [with EXCEPT ![q].inbox = Append(@, p)]
    BY DEF PushPrompt
  <1>4. slot # NoQuery => q = slot /\ spawned' = spawned
    BY DEF PushPrompt
  <1> HIDE DEF with, q
  <1>5. with[q].inbox \in Seq(Prompts)
    BY <1>1, <1>2 DEF Sdk
  <1> DEFINE inbox == Append(with[q].inbox, p)
  <1>6. inbox \in Seq(Prompts)
    BY <1>5
  <1>7. sdk' = with \/ sdk' = [with EXCEPT ![q].inbox = inbox]
    BY <1>3
  <1> HIDE DEF inbox
  <1>8. /\ sdk' \in [Queries -> Sdk]
        /\ \A r \in Queries : /\ sdk'[r].looping = with[r].looping
                              /\ sdk'[r].closed = with[r].closed
    BY <1>1, <1>2, <1>6, <1>7 DEF Sdk
  <1>9. sdk'[q].turn = with[q].turn
    BY <1>1, <1>2, <1>6, <1>7 DEF Sdk
  <1> QED BY <1>1, <1>2, <1>4, <1>8, <1>9 DEF SlotType

LEMMA SlotStep ==
  ASSUME TypeOK, Next
  PROVE  SlotType'
  <1>0. RuntimeType /\ HistoryType /\ SlotType
    BY TypeParts
  <1>q. slot # NoQuery => slot \in Queries
    BY <1>0, SlotIsQuery
  <1>1. ASSUME UNCHANGED <<slot, spawned, sdk>> PROVE SlotType'
    BY <1>0, <1>1 DEF SlotType
  <1>2. ASSUME NEW q \in Queries, UNCHANGED <<slot, spawned>>, sdk' = Close(q) PROVE SlotType'
    BY <1>0, <1>q, <1>2, CloseType DEF SlotType
  <1>3. CASE TimerFires
    BY <1>0, <1>3, <1>q, CloseType, BoundsAssumption DEF TimerFires, SlotType, NoQuery
  <1>4. ASSUME NEW p \in Prompts, PushPrompt(p) PROVE SlotType'
    BY <1>0, <1>4, PushType
  <1>5. ASSUME NEW q \in Queries, BeginTurn(q) \/ Wake(q) \/ YieldFrame(q) \/ YieldResult(q)
        PROVE  SlotType'
    BY <1>0, <1>q, <1>5, TurnType DEF SlotType, runtimeVars
  <1>6. ASSUME NEW q \in Queries, Exit(q) PROVE SlotType'
    BY <1>0, <1>q, <1>6 DEF Exit, SlotType, Sdk, Turns, runtimeVars
  <1>7. ASSUME NEW q \in Queries, HandleFrame(q) \/ HandleResult(q) PROVE SlotType'
    BY <1>0, <1>q, <1>7, TakeType DEF HandleFrame, HandleResult, SlotType
  <1>8. ASSUME NEW q \in Queries, LoopEnds(q) PROVE SlotType'
    <2>1. sdk' = [sdk EXCEPT ![q].looping = FALSE]
      BY <1>8 DEF LoopEnds
    <2>2. /\ sdk' \in [Queries -> Sdk]
          /\ \A r \in Queries \ {q} : sdk'[r].looping = sdk[r].looping
      BY <1>0, <2>1 DEF SlotType, Sdk
    <2>3. spawned' = spawned /\ (slot' = NoQuery \/ (slot' = slot /\ slot # q))
      BY <1>8 DEF LoopEnds
    <2> QED BY <1>0, <1>q, <2>2, <2>3 DEF SlotType, NoQuery
  <1>9. CASE Stop
    BY <1>0, <1>q, <1>1, <1>2, <1>9 DEF Stop, runtimeVars
  <1>10. ASSUME NEW w \in Watchers, Subscribe(w) \/ Unsubscribe(w) PROVE SlotType'
    BY <1>1, <1>10 DEF Subscribe, Unsubscribe, sdkVars
  <1>11. ASSUME NEW p \in Prompts, SendPrompt(p) \/ InboundPrompt(p) \/ RefusePrompt(p)
         PROVE  SlotType'
    BY <1>1, <1>11 DEF SendPrompt, InboundPrompt, RefusePrompt, runtimeVars, sdkVars
  <1>12. ASSUME Interrupt \/ InterruptSettles PROVE SlotType'
    BY <1>1, <1>12 DEF Interrupt, InterruptSettles, runtimeVars, sdkVars
  <1> QED
    BY <1>3, <1>4, <1>5, <1>6, <1>7, <1>8, <1>9, <1>10, <1>11, <1>12 DEF Next

(* Every state of the query loop is well typed, and a slot that is set     *)
(* belongs to a loop that is running: run-query.ts's finally and           *)
(* disposeQuery are the only ways a query leaves it.                       *)
THEOREM QueryTypeCorrect == Spec => []TypeOK
  <1>1. ASSUME TypeOK, [Next]_vars PROVE TypeOK'
    <2>1. CASE Next
      <3>1. RuntimeType' /\ HistoryType' /\ SlotType'
        BY <1>1, <2>1, RuntimeStep, HistoryStep, SlotStep
      <3> QED BY <3>1 DEF TypeOK, RuntimeType, HistoryType, SlotType, Sdk
    <2>2. CASE UNCHANGED vars
      BY <1>1, <2>2 DEF TypeOK, vars, runtimeVars, handlerVars, sdkVars, historyVars
    <2> QED BY <1>1, <2>1, <2>2
  <1> QED BY <1>1, TypeInit, PTL DEF Spec

-----------------------------------------------------------------------------
(* The teardown timer.                                                     *)

(* A pending teardown and a watcher or a running turn exclude each other.  *)
THEOREM WarmWhileWatched == Spec => []WatchedStaysWarm
  <1> USE DEF WatchedStaysWarm
  <1>1. Init => WatchedStaysWarm
    BY DEF Init
  <1>2. ASSUME WatchedStaysWarm, [Next]_vars PROVE WatchedStaysWarm'
    <2>1. ASSUME NEW w \in Watchers, Subscribe(w) \/ Unsubscribe(w) PROVE WatchedStaysWarm'
      BY <1>2, <2>1 DEF Subscribe, Unsubscribe, ArmTimer
    <2>2. CASE TimerFires
      BY <2>2 DEF TimerFires
    <2>3. ASSUME NEW p \in Prompts,
                 SendPrompt(p) \/ InboundPrompt(p) \/ RefusePrompt(p) \/ PushPrompt(p)
          PROVE  WatchedStaysWarm'
      BY <1>2, <2>3 DEF SendPrompt, InboundPrompt, RefusePrompt, PushPrompt, runtimeVars
    <2>4. CASE Interrupt \/ InterruptSettles \/ Stop
      BY <1>2, <2>4 DEF Interrupt, InterruptSettles, Stop, runtimeVars
    <2>5. ASSUME NEW q \in Queries,
                 BeginTurn(q) \/ Wake(q) \/ YieldFrame(q) \/ YieldResult(q) \/ Exit(q)
          PROVE  WatchedStaysWarm'
      BY <1>2, <2>5 DEF BeginTurn, Wake, YieldFrame, YieldResult, Exit, Yield, runtimeVars
    <2>6. ASSUME NEW q \in Queries, HandleFrame(q) \/ HandleResult(q) PROVE WatchedStaysWarm'
      BY <1>2, <2>6 DEF HandleFrame, HandleResult, MarkActivity, ArmTimer
    <2>7. ASSUME NEW q \in Queries, LoopEnds(q) PROVE WatchedStaysWarm'
      BY <1>2, <2>7 DEF LoopEnds
    <2>8. CASE UNCHANGED vars
      BY <1>2, <2>8 DEF vars, runtimeVars
    <2> QED BY <1>2, <2>1, <2>2, <2>3, <2>4, <2>5, <2>6, <2>7, <2>8 DEF Next
  <1> QED BY <1>1, <1>2, PTL DEF Spec

(* An idle, unwatched session that has a subprocess has a teardown pending.*)
THEOREM IdleGetsReclaimed == Spec => []IdleIsReclaimed
  <1> USE DEF IdleIsReclaimed
  <1>1. Init => IdleIsReclaimed
    BY DEF Init
  <1>2. ASSUME IdleIsReclaimed, [Next]_vars PROVE IdleIsReclaimed'
    <2>1. ASSUME NEW w \in Watchers, Subscribe(w) \/ Unsubscribe(w) PROVE IdleIsReclaimed'
      BY <1>2, <2>1 DEF Subscribe, Unsubscribe, ArmTimer
    <2>2. CASE TimerFires
      BY <2>2 DEF TimerFires
    <2>3. ASSUME NEW p \in Prompts,
                 SendPrompt(p) \/ InboundPrompt(p) \/ RefusePrompt(p) \/ PushPrompt(p)
          PROVE  IdleIsReclaimed'
      BY <1>2, <2>3 DEF SendPrompt, InboundPrompt, RefusePrompt, PushPrompt, runtimeVars
    <2>4. CASE Interrupt \/ InterruptSettles \/ Stop
      BY <1>2, <2>4 DEF Interrupt, InterruptSettles, Stop, runtimeVars
    <2>5. ASSUME NEW q \in Queries,
                 BeginTurn(q) \/ Wake(q) \/ YieldFrame(q) \/ YieldResult(q) \/ Exit(q)
          PROVE  IdleIsReclaimed'
      BY <1>2, <2>5 DEF BeginTurn, Wake, YieldFrame, YieldResult, Exit, Yield, runtimeVars
    <2>6. ASSUME NEW q \in Queries, HandleFrame(q) \/ HandleResult(q) PROVE IdleIsReclaimed'
      BY <1>2, <2>6 DEF HandleFrame, HandleResult, MarkActivity, ArmTimer
    <2>7. ASSUME NEW q \in Queries, LoopEnds(q) PROVE IdleIsReclaimed'
      BY <1>2, <2>7 DEF LoopEnds
    <2>8. CASE UNCHANGED vars
      BY <1>2, <2>8 DEF vars, runtimeVars
    <2> QED BY <1>2, <2>1, <2>2, <2>3, <2>4, <2>5, <2>6, <2>7, <2>8 DEF Next
  <1> QED BY <1>1, <1>2, PTL DEF Spec

-----------------------------------------------------------------------------
(* Who owns a query.                                                       *)

SameFlags(Q) == \A r \in Q : /\ sdk'[r].looping = sdk[r].looping
                             /\ sdk'[r].closed = sdk[r].closed

(* The ways a step can touch the slot and the flags of a query: not at     *)
(* all; a teardown; a spawn; the end of a loop; a shutdown.                *)
Kept     == slot' = slot /\ SameFlags(Queries) /\ UNCHANGED shuttingDown
TornDown ==
    /\ slot' = NoQuery /\ SameFlags(Queries \ {slot}) /\ UNCHANGED shuttingDown
    /\ slot # NoQuery => sdk'[slot].closed
Born     ==
    /\ slot = NoQuery /\ slot' \in Queries /\ ~sdk'[slot'].closed
    /\ SameFlags(Queries \ {slot'}) /\ UNCHANGED shuttingDown
Ended    == \E q \in Queries :
    /\ ~sdk'[q].looping /\ SameFlags(Queries \ {q})
    /\ slot' = IF slot = q THEN NoQuery ELSE slot
    /\ UNCHANGED shuttingDown
Drained  ==
    /\ slot' = slot /\ SameFlags(Queries \ {slot})
    /\ slot # NoQuery => sdk'[slot].closed
    /\ shuttingDown'

LEMMA CloseFlags ==
  ASSUME SlotType, slot # NoQuery, sdk' = Close(slot)
  PROVE  SameFlags(Queries \ {slot}) /\ sdk'[slot].closed
  BY SlotIsQuery DEF Close, SlotType, Sdk, SameFlags

LEMMA FlagSteps ==
  ASSUME TypeOK, [Next]_vars
  PROVE  Kept \/ TornDown \/ Born \/ Ended \/ Drained
  <1>0. SlotType
    BY TypeParts
  <1>1. ASSUME UNCHANGED <<slot, sdk, shuttingDown>>
        PROVE  Kept
    BY <1>1 DEF Kept, SameFlags
  <1>2. CASE TimerFires
    <2>1. CASE slot = NoQuery
      BY <1>2, <2>1 DEF TimerFires, TornDown, SameFlags, handlerVars
    <2>2. CASE slot # NoQuery
      BY <1>0, <1>2, <2>2, CloseFlags DEF TimerFires, TornDown, handlerVars
    <2> QED BY <2>1, <2>2
  <1>3. ASSUME NEW p \in Prompts, PushPrompt(p)
        PROVE  Kept \/ Born
    <2>1. shuttingDown' = shuttingDown
      BY <1>3 DEF PushPrompt
    <2>2. CASE slot = NoQuery
      BY <1>0, <1>3, <2>1, <2>2, PushType DEF Born, SameFlags
    <2>3. CASE slot # NoQuery
      <3>1. slot' = slot
        BY <1>0, <1>3, <2>3, PushType
      <3>2. \A r \in Queries \ {slot} : /\ sdk'[r].looping = sdk[r].looping
                                        /\ sdk'[r].closed = sdk[r].closed
        BY <1>0, <1>3, <3>1, PushType
      <3>3. sdk'[slot].looping = sdk[slot].looping /\ sdk'[slot].closed = sdk[slot].closed
        BY <1>0, <1>3, <2>3, PushType
      <3> QED BY <2>1, <3>1, <3>2, <3>3 DEF Kept, SameFlags
    <2> QED BY <2>1, <2>2, <2>3
  <1>4. ASSUME NEW q \in Queries, BeginTurn(q) \/ Wake(q) \/ YieldFrame(q) \/ YieldResult(q)
        PROVE  Kept
    BY <1>4, TurnType DEF Kept, SameFlags, runtimeVars, handlerVars
  <1>5. ASSUME NEW q \in Queries, Exit(q)
        PROVE  Kept
    BY <1>0, <1>5 DEF Exit, Kept, SameFlags, SlotType, Sdk, runtimeVars, handlerVars
  <1>6. ASSUME NEW q \in Queries, HandleFrame(q) \/ HandleResult(q)
        PROVE  Kept
    BY <1>0, <1>6, TakeType DEF HandleFrame, HandleResult, Kept, SameFlags, SlotType, handlerVars
  <1>7. ASSUME NEW q \in Queries, LoopEnds(q)
        PROVE  Ended
    <2>1. sdk' = [sdk EXCEPT ![q].looping = FALSE]
      BY <1>7 DEF LoopEnds
    <2>2. ~sdk'[q].looping /\ SameFlags(Queries \ {q})
      BY <1>0, <2>1 DEF SlotType, Sdk, SameFlags
    <2>3. slot' = (IF slot = q THEN NoQuery ELSE slot) /\ shuttingDown' = shuttingDown
      BY <1>7 DEF LoopEnds, handlerVars
    <2> QED BY <2>2, <2>3 DEF Ended
  <1>8. CASE Stop
    <2>1. slot' = slot /\ shuttingDown' = TRUE
      BY <1>8 DEF Stop, runtimeVars
    <2>2. CASE slot = NoQuery
      BY <1>8, <2>1, <2>2 DEF Stop, Drained, SameFlags
    <2>3. CASE slot # NoQuery
      BY <1>0, <1>8, <2>1, <2>3, CloseFlags DEF Stop, Drained
    <2> QED BY <2>1, <2>2, <2>3
  <1>9. ASSUME NEW w \in Watchers, Subscribe(w) \/ Unsubscribe(w)
        PROVE  UNCHANGED <<slot, sdk, shuttingDown>>
    BY <1>9 DEF Subscribe, Unsubscribe, handlerVars, sdkVars
  <1>10. ASSUME NEW p \in Prompts, SendPrompt(p) \/ InboundPrompt(p) \/ RefusePrompt(p)
         PROVE  UNCHANGED <<slot, sdk, shuttingDown>>
    BY <1>10 DEF SendPrompt, InboundPrompt, RefusePrompt, runtimeVars, sdkVars
  <1>11. ASSUME Interrupt \/ InterruptSettles \/ UNCHANGED vars
         PROVE  UNCHANGED <<slot, sdk, shuttingDown>>
    BY <1>11 DEF Interrupt, InterruptSettles, vars, runtimeVars, handlerVars, sdkVars
  <1> QED
    BY <1>1, <1>2, <1>3, <1>4, <1>5, <1>6, <1>7, <1>8, <1>9, <1>10, <1>11 DEF Next

(* A running query that nobody closed is the one the runtime holds, so no  *)
(* late end of an old loop can disown its successor.                       *)
THEOREM LiveQueriesOwned == Spec => []LiveQueryOwned
  <1> USE DEF LiveQueryOwned
  <1>1. Init => LiveQueryOwned
    BY DEF Init, Unborn
  <1>2. ASSUME TypeOK, LiveQueryOwned, [Next]_vars PROVE LiveQueryOwned'
    <2> USE DEF SameFlags
    <2>0. NoQuery \notin Queries
      BY BoundsAssumption DEF NoQuery, Queries
    <2>1. CASE Kept
      BY <1>2, <2>1 DEF Kept
    <2>2. CASE TornDown
      BY <1>2, <2>0, <2>2 DEF TornDown
    <2>3. CASE Born
      BY <1>2, <2>0, <2>3 DEF Born
    <2>4. CASE Ended
      BY <1>2, <2>4 DEF Ended
    <2>5. CASE Drained
      BY <1>2, <2>0, <2>5 DEF Drained
    <2> QED BY <1>2, <2>1, <2>2, <2>3, <2>4, <2>5, FlagSteps
  <1> QED BY <1>1, <1>2, QueryTypeCorrect, PTL DEF Spec

(* Until shutdown the query in the slot is open ...                        *)
OwnedIsOpen == (~shuttingDown /\ slot # NoQuery) => ~sdk[slot].closed

LEMMA OwnedStaysOpen == Spec => []OwnedIsOpen
  <1> USE DEF OwnedIsOpen
  <1>1. Init => OwnedIsOpen
    BY DEF Init
  <1>2. ASSUME TypeOK, OwnedIsOpen, [Next]_vars PROVE OwnedIsOpen'
    <2> USE DEF SameFlags
    <2>0. NoQuery \notin Queries /\ (slot # NoQuery => slot \in Queries)
      BY <1>2, TypeParts, SlotIsQuery, BoundsAssumption DEF NoQuery, Queries
    <2>1. CASE Kept
      BY <1>2, <2>0, <2>1 DEF Kept
    <2>2. CASE TornDown
      BY <2>2 DEF TornDown
    <2>3. CASE Born
      BY <2>3 DEF Born
    <2>4. CASE Ended
      BY <1>2, <2>0, <2>4 DEF Ended
    <2>5. CASE Drained
      BY <2>5 DEF Drained
    <2> QED BY <1>2, <2>1, <2>2, <2>3, <2>4, <2>5, FlagSteps
  <1> QED BY <1>1, <1>2, QueryTypeCorrect, PTL DEF Spec

(* ... so a prompt that races the teardown never meets a closed channel.   *)
THEOREM NoPromptLost == Spec => []NoPromptIntoClosedChannel
  <1> USE DEF NoPromptIntoClosedChannel
  <1>1. Init => NoPromptIntoClosedChannel
    BY DEF Init
  <1>2. ASSUME TypeOK, OwnedIsOpen, NoPromptIntoClosedChannel, [Next]_vars
        PROVE  NoPromptIntoClosedChannel'
    <2>0. SlotType
      BY <1>2, TypeParts
    <2>1. ASSUME NEW p \in Prompts, PushPrompt(p) PROVE NoPromptIntoClosedChannel'
      <3>1. shuttingDown' = shuttingDown
        BY <2>1 DEF PushPrompt
      <3>2. CASE slot = NoQuery
        <4>1. spawned + 1 \in Queries
          BY <2>0, <2>1, <3>2, BoundsAssumption DEF PushPrompt, SlotType, Queries
        <4>2. ~[sdk EXCEPT ![spawned + 1] = Fresh][spawned + 1].closed
          BY <2>0, <4>1 DEF SlotType, Fresh, Unborn
        <4> QED BY <1>2, <2>1, <3>1, <3>2, <4>2 DEF PushPrompt
      <3>3. CASE slot # NoQuery
        BY <1>2, <2>1, <3>1, <3>3 DEF PushPrompt, OwnedIsOpen
      <3> QED BY <3>2, <3>3
    <2>2. ASSUME UNCHANGED lost, shuttingDown' = shuttingDown \/ shuttingDown'
          PROVE  NoPromptIntoClosedChannel'
      BY <1>2, <2>2
    <2>3. ASSUME NEW w \in Watchers, Subscribe(w) \/ Unsubscribe(w)
          PROVE  UNCHANGED <<lost, shuttingDown>>
      BY <2>3 DEF Subscribe, Unsubscribe, handlerVars, historyVars
    <2>4. ASSUME NEW p \in Prompts, SendPrompt(p) \/ InboundPrompt(p) \/ RefusePrompt(p)
          PROVE  UNCHANGED <<lost, shuttingDown>>
      BY <2>4 DEF SendPrompt, InboundPrompt, RefusePrompt, historyVars
    <2>5. ASSUME TimerFires \/ Interrupt \/ InterruptSettles \/ UNCHANGED vars
          PROVE  UNCHANGED <<lost, shuttingDown>>
      BY <2>5 DEF TimerFires, Interrupt, InterruptSettles, vars, handlerVars, historyVars
    <2>6. ASSUME NEW q \in Queries,
                 BeginTurn(q) \/ Wake(q) \/ YieldFrame(q) \/ YieldResult(q) \/ Exit(q)
          PROVE  UNCHANGED <<lost, shuttingDown>>
      BY <2>6 DEF BeginTurn, Wake, YieldFrame, YieldResult, Exit, Yield, handlerVars, historyVars
    <2>7. ASSUME NEW q \in Queries, HandleFrame(q) \/ HandleResult(q) \/ LoopEnds(q)
          PROVE  UNCHANGED <<lost, shuttingDown>>
      BY <2>7 DEF HandleFrame, HandleResult, LoopEnds, handlerVars
    <2>8. CASE Stop
      BY <2>2, <2>8 DEF Stop, historyVars
    <2> QED BY <1>2, <2>1, <2>2, <2>3, <2>4, <2>5, <2>6, <2>7, <2>8 DEF Next
  <1> QED BY <1>1, <1>2, QueryTypeCorrect, OwnedStaysOpen, PTL DEF Spec

-----------------------------------------------------------------------------
(* Interrupts.                                                             *)

(* An interrupt that has not swallowed an error yet may still do so: the   *)
(* flag counts as one.                                                     *)
InterruptBudget ==
    ~strayed => swallowed + (IF interrupted THEN 1 ELSE 0) <= interrupts

(* One interrupt hides at most one error, whatever turns it races.         *)
THEOREM OneErrorPerInterrupt == Spec => []SwallowsBounded
  <1> USE DEF InterruptBudget
  <1>1. Init => InterruptBudget
    BY DEF Init
  <1>2. ASSUME TypeOK, InterruptBudget, [Next]_vars PROVE InterruptBudget'
    <2>0. swallowed \in Nat /\ interrupts \in Nat /\ interrupted \in BOOLEAN
      BY <1>2, BoundsAssumption DEF TypeOK
    <2>1. ASSUME UNCHANGED <<interrupted, interrupts, swallowed, strayed>>
          PROVE  InterruptBudget'
      BY <1>2, <2>1
    <2>2. ASSUME NEW p \in Prompts, PushPrompt(p) PROVE InterruptBudget'
      BY <1>2, <2>0, <2>2 DEF PushPrompt
    <2>3. CASE Interrupt
      BY <1>2, <2>0, <2>3 DEF Interrupt
    <2>4. ASSUME NEW q \in Queries, HandleFrame(q) PROVE InterruptBudget'
      BY <1>2, <2>0, <2>4 DEF HandleFrame
    <2>5. ASSUME NEW q \in Queries, HandleResult(q) PROVE InterruptBudget'
      <3>1. /\ interrupted' = FALSE /\ interrupts' = interrupts
            /\ swallowed' = swallowed \/ (interrupted /\ swallowed' = swallowed + 1)
            /\ strayed => strayed'
        BY <2>5 DEF HandleResult
      <3> QED BY <1>2, <2>0, <3>1
    <2>6. ASSUME NEW q \in Queries, LoopEnds(q) PROVE InterruptBudget'
      <3>1. /\ interrupts' = interrupts
            /\ swallowed' = swallowed \/ (interrupted /\ swallowed' = swallowed + 1)
            /\ strayed => strayed'
            /\ swallowed' # swallowed => strayed' \/ slot = q
            /\ slot = q => interrupted' = FALSE
            /\ slot # q => interrupted' = interrupted
        BY <2>0, <2>6 DEF LoopEnds
      <3>2. CASE slot = q
        BY <1>2, <2>0, <3>1, <3>2
      <3>3. CASE slot # q
        BY <1>2, <2>0, <3>1, <3>3
      <3> QED BY <3>2, <3>3
    <2>7. ASSUME NEW w \in Watchers, Subscribe(w) \/ Unsubscribe(w)
          PROVE  UNCHANGED <<interrupted, interrupts, swallowed, strayed>>
      BY <2>7 DEF Subscribe, Unsubscribe, historyVars
    <2>8. ASSUME NEW p \in Prompts, SendPrompt(p) \/ InboundPrompt(p) \/ RefusePrompt(p)
          PROVE  UNCHANGED <<interrupted, interrupts, swallowed, strayed>>
      BY <2>8 DEF SendPrompt, InboundPrompt, RefusePrompt, runtimeVars, historyVars
    <2>9. ASSUME TimerFires \/ InterruptSettles \/ Stop \/ UNCHANGED vars
          PROVE  UNCHANGED <<interrupted, interrupts, swallowed, strayed>>
      BY <2>9 DEF TimerFires, InterruptSettles, Stop, vars, runtimeVars, historyVars
    <2>10. ASSUME NEW q \in Queries,
                  BeginTurn(q) \/ Wake(q) \/ YieldFrame(q) \/ YieldResult(q) \/ Exit(q)
           PROVE  UNCHANGED <<interrupted, interrupts, swallowed, strayed>>
      BY <2>10 DEF BeginTurn, Wake, YieldFrame, YieldResult, Exit, Yield, runtimeVars, historyVars
    <2> QED
      BY <1>2, <2>1, <2>2, <2>3, <2>4, <2>5, <2>6, <2>7, <2>8, <2>9, <2>10 DEF Next
  <1>3. TypeOK /\ InterruptBudget => SwallowsBounded
    BY BoundsAssumption DEF TypeOK, SwallowsBounded
  <1> QED BY <1>1, <1>2, <1>3, QueryTypeCorrect, PTL DEF Spec

-----------------------------------------------------------------------------
(* The teardown.                                                           *)

LEMMA LastOfTail ==
  ASSUME NEW S, NEW s \in Seq(S), s # << >>, Tail(s) # << >>
  PROVE  Tail(s)[Len(Tail(s))] = s[Len(s)]
  OBVIOUS

LEMMA LastOfAppend ==
  ASSUME NEW S, NEW s \in Seq(S), NEW x \in S
  PROVE  Append(s, x) # << >> /\ Append(s, x)[Len(Append(s, x))] = x
  OBVIOUS

LEMMA TailEmpty ==
  ASSUME NEW S, NEW s \in Seq(S), s # << >>, Tail(s) = << >>
  PROVE  s[Len(s)] = Head(s)
  <1>1. Len(Tail(s)) = Len(s) - 1
    OBVIOUS
  <1>2. Len(<< >>) = 0
    OBVIOUS
  <1>3. Len(Tail(s)) = 0
    BY <1>2, Zenon
  <1>4. Len(s) = 1
    BY <1>1, <1>3
  <1> QED BY <1>4

(* A turn of the query in the slot is known, or a frame that will make it  *)
(* known is the last thing the query has yielded.                          *)
Known(out, state) ==
    IF out = << >> THEN state = "running" ELSE out[Len(out)] = "frame"

TurnIsKnown ==
    (~strayed /\ slot # NoQuery /\ sdk[slot].turn # NoTurn)
        => Known(sdk[slot].out, activity)

(* Steps that leave the slot's query, its turn and the activity alone.     *)
LEMMA KnownFrame ==
  ASSUME TypeOK, TurnIsKnown, slot' = slot, activity' = activity, strayed => strayed',
         slot # NoQuery => /\ sdk'[slot].turn \in {sdk[slot].turn, NoTurn}
                           /\ sdk'[slot].out = sdk[slot].out
  PROVE  TurnIsKnown'
  BY DEF TurnIsKnown

(* What a loop takes is a frame, and the session is running, or a result,  *)
(* and then it was not the last thing yielded.                             *)
LEMMA KnownTake ==
  ASSUME TypeOK, TurnIsKnown, NEW q \in Queries, sdk[q].out # << >>,
         sdk' = Take(q), slot' = slot, strayed' = (strayed \/ slot # q),
         Head(sdk[q].out) = "frame" => activity' = "running"
  PROVE  TurnIsKnown'
  <1> SUFFICES ASSUME ~strayed, slot = q, sdk'[q].turn # NoTurn
               PROVE  Known(sdk'[q].out, activity')
    BY DEF TurnIsKnown
  <1> DEFINE out == sdk[q].out
  <1>1. sdk \in [Queries -> Sdk] /\ out \in Seq(Messages)
    BY DEF TypeOK, Sdk
  <1>2. sdk'[q].turn = sdk[q].turn /\ sdk'[q].out = Tail(out)
    BY <1>1 DEF Take, Sdk
  <1>3. slot # NoQuery
    BY BoundsAssumption DEF NoQuery, Queries
  <1>4. out # << >> /\ out[Len(out)] = "frame"
    BY <1>2, <1>3 DEF TurnIsKnown, Known
  <1>5. Head(out) = "frame" => activity' = "running"
    OBVIOUS
  <1> HIDE DEF out
  <1>6. CASE Tail(out) = << >>
    BY <1>1, <1>2, <1>4, <1>5, <1>6, TailEmpty DEF Known
  <1>7. CASE Tail(out) # << >>
    BY <1>1, <1>2, <1>4, <1>7, LastOfTail DEF Known
  <1> QED BY <1>6, <1>7

(* What a query yields is a frame of a turn, or ends the turn.             *)
LEMMA KnownYield ==
  ASSUME TypeOK, TurnIsKnown, NEW q \in Queries, NEW msg \in Messages,
         NEW turn, NEW inbox, Yield(q, msg, turn, inbox), UNCHANGED strayed
  PROVE  TurnIsKnown'
  <1>1. sdk \in [Queries -> Sdk] /\ sdk[q].out \in Seq(Messages)
    BY DEF TypeOK, Sdk
  <1> DEFINE out == Append(sdk[q].out, msg)
  <1>2. /\ sdk'[q].turn = (IF msg = "frame" THEN turn ELSE NoTurn)
        /\ sdk'[q].out = out
        /\ \A r \in Queries \ {q} : sdk'[r] = sdk[r]
    BY <1>1 DEF Yield, Sdk
  <1>3. slot' = slot /\ activity' = activity
    BY DEF Yield, runtimeVars
  <1>4. slot # NoQuery => slot \in Queries
    BY TypeParts, SlotIsQuery
  <1>5. out # << >> /\ out[Len(out)] = msg
    BY <1>1, LastOfAppend
  <1> HIDE DEF out
  <1>6. CASE slot = q
    BY <1>2, <1>3, <1>5, <1>6 DEF TurnIsKnown, Known
  <1>7. CASE slot # q
    BY <1>2, <1>3, <1>4, <1>7, KnownFrame
  <1> QED BY <1>6, <1>7

LEMMA KnownStep ==
  ASSUME TypeOK, TurnIsKnown, [Next]_vars
  PROVE  TurnIsKnown'
  <1>0. SlotType /\ (slot # NoQuery => slot \in Queries)
    BY TypeParts, SlotIsQuery
  <1>1. ASSUME UNCHANGED <<slot, sdk, activity, strayed>> PROVE TurnIsKnown'
    BY <1>1 DEF TurnIsKnown
  <1>2. CASE TimerFires
    BY <1>2 DEF TimerFires, TurnIsKnown
  <1>3. ASSUME NEW p \in Prompts, PushPrompt(p) PROVE TurnIsKnown'
    <2>1. activity' = "running" /\ strayed' = strayed
      BY <1>3 DEF PushPrompt
    <2>2. CASE slot = NoQuery
      <3>1. sdk'[slot'].turn = NoTurn
        BY <1>0, <1>3, <2>2, PushType
      <3> QED BY <3>1 DEF TurnIsKnown
    <2>3. CASE slot # NoQuery
      <3>1. slot' = slot
        BY <1>3, <2>3 DEF PushPrompt
      <3>2. sdk'[slot].turn = sdk[slot].turn /\ sdk'[slot].out = sdk[slot].out
        BY <1>0, <1>3, <2>3 DEF PushPrompt, SlotType, Sdk
      <3> QED BY <2>1, <2>3, <3>1, <3>2 DEF TurnIsKnown, Known
    <2> QED BY <2>2, <2>3
  <1>4. ASSUME NEW q \in Queries, BeginTurn(q) \/ Wake(q) \/ YieldFrame(q) \/ YieldResult(q)
        PROVE  TurnIsKnown'
    <2>1. UNCHANGED strayed
      BY <1>4 DEF BeginTurn, Wake, YieldFrame, YieldResult, historyVars
    <2>2. \E msg \in Messages : \E turn, inbox : Yield(q, msg, turn, inbox)
      BY <1>4 DEF BeginTurn, Wake, YieldFrame, YieldResult, Messages
    <2> QED BY <2>1, <2>2, KnownYield
  <1>5. ASSUME NEW q \in Queries, Exit(q) PROVE TurnIsKnown'
    <2>1. UNCHANGED <<slot, activity, strayed>>
      BY <1>5 DEF Exit, runtimeVars, historyVars
    <2>2. \A r \in Queries : /\ sdk'[r].turn \in {sdk[r].turn, NoTurn}
                             /\ sdk'[r].out = sdk[r].out
      BY <1>0, <1>5 DEF Exit, SlotType, Sdk
    <2> QED BY <1>0, <2>1, <2>2, KnownFrame
  <1>6. ASSUME NEW q \in Queries, HandleFrame(q) PROVE TurnIsKnown'
    BY <1>6, KnownTake DEF HandleFrame, MarkActivity
  <1>7. ASSUME NEW q \in Queries, HandleResult(q) PROVE TurnIsKnown'
    BY <1>7, KnownTake DEF HandleResult
  <1>8. ASSUME NEW q \in Queries, LoopEnds(q) PROVE TurnIsKnown'
    <2>1. /\ sdk' = [sdk EXCEPT ![q].looping = FALSE] /\ activity' = activity
          /\ strayed => strayed'
          /\ slot' = IF slot = q THEN NoQuery ELSE slot
      BY <1>8 DEF LoopEnds
    <2>2. CASE slot = q
      BY <2>1, <2>2 DEF TurnIsKnown
    <2>3. CASE slot # q
      BY <1>0, <2>1, <2>3, KnownFrame DEF SlotType
    <2> QED BY <2>2, <2>3
  <1>9. CASE Stop
    <2>1. UNCHANGED <<slot, activity, strayed>>
      BY <1>9 DEF Stop, runtimeVars, historyVars
    <2>2. slot # NoQuery => sdk'[slot].turn = sdk[slot].turn /\ sdk'[slot].out = sdk[slot].out
      BY <1>0, <1>9 DEF Stop, Close, SlotType, Sdk
    <2> QED BY <2>1, <2>2, KnownFrame
  <1>10. ASSUME NEW w \in Watchers, Subscribe(w) \/ Unsubscribe(w) PROVE TurnIsKnown'
    BY <1>1, <1>10 DEF Subscribe, Unsubscribe, sdkVars, historyVars
  <1>11. ASSUME NEW p \in Prompts, SendPrompt(p) \/ InboundPrompt(p) \/ RefusePrompt(p)
         PROVE  TurnIsKnown'
    BY <1>1, <1>11 DEF SendPrompt, InboundPrompt, RefusePrompt, runtimeVars, sdkVars, historyVars
  <1>12. CASE Interrupt \/ InterruptSettles \/ UNCHANGED vars
    BY <1>1, <1>12 DEF Interrupt, InterruptSettles, vars, runtimeVars, sdkVars, historyVars
  <1> QED
    BY <1>2, <1>3, <1>4, <1>5, <1>6, <1>7, <1>8, <1>9, <1>10, <1>11, <1>12 DEF Next

(* The idle teardown never ends a query in the middle of a turn.           *)
THEOREM TeardownStaysQuiet == Spec => TeardownIsQuiet
  <1>1. Init => TurnIsKnown
    BY DEF Init, TurnIsKnown
  <1>2. TypeOK /\ TurnIsKnown /\ [Next]_vars => TurnIsKnown'
    BY KnownStep
  <1> DEFINE Cut == slot # NoQuery /\ slot' = NoQuery /\ sdk[slot].live /\ ~shuttingDown /\ ~strayed
  <1>3. ASSUME TypeOK, WatchedStaysWarm, TurnIsKnown, Next, Cut
        PROVE  sdk[slot].turn = NoTurn
    <2>0. slot \in Queries /\ SlotType /\ NoQuery \notin Queries
      BY <1>3, TypeParts, SlotIsQuery, BoundsAssumption DEF NoQuery, Queries
    <2>1. CASE TimerFires
      BY <1>3, <2>1 DEF TimerFires, WatchedStaysWarm, TurnIsKnown, Known
    <2>2. ASSUME NEW q \in Queries, LoopEnds(q) PROVE FALSE
      BY <1>3, <2>2 DEF LoopEnds
    <2>3. ASSUME slot' = slot PROVE FALSE
      BY <1>3, <2>3
    <2>4. ASSUME NEW p \in Prompts, PushPrompt(p) PROVE FALSE
      BY <2>0, <1>3, <2>4, PushType
    <2>5. ASSUME NEW q \in Queries,
                 BeginTurn(q) \/ Wake(q) \/ YieldFrame(q) \/ YieldResult(q) \/ Exit(q)
          PROVE  slot' = slot
      BY <2>5 DEF BeginTurn, Wake, YieldFrame, YieldResult, Exit, Yield, runtimeVars
    <2>6. ASSUME NEW q \in Queries, HandleFrame(q) \/ HandleResult(q) PROVE slot' = slot
      BY <2>6 DEF HandleFrame, HandleResult
    <2>7. ASSUME NEW w \in Watchers, Subscribe(w) \/ Unsubscribe(w) PROVE slot' = slot
      BY <2>7 DEF Subscribe, Unsubscribe
    <2>8. ASSUME NEW p \in Prompts, SendPrompt(p) \/ InboundPrompt(p) \/ RefusePrompt(p)
          PROVE  slot' = slot
      BY <2>8 DEF SendPrompt, InboundPrompt, RefusePrompt, runtimeVars
    <2>9. ASSUME Interrupt \/ InterruptSettles \/ Stop PROVE slot' = slot
      BY <2>9 DEF Interrupt, InterruptSettles, Stop, runtimeVars
    <2> QED
      BY <1>3, <2>1, <2>2, <2>3, <2>4, <2>5, <2>6, <2>7, <2>8, <2>9 DEF Next
  <1>4. TypeOK /\ WatchedStaysWarm /\ TurnIsKnown /\ [Next]_vars
          => [Cut => sdk[slot].turn = NoTurn]_vars
    BY <1>3
  <1> QED
    BY <1>1, <1>2, <1>4, QueryTypeCorrect, WarmWhileWatched, PTL DEF Spec, TeardownIsQuiet

=============================================================================
