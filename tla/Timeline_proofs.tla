-------------------------- MODULE Timeline_proofs --------------------------
(* Theorems about Timeline, for every number of tools, prompts, messages,  *)
(* blocks, deltas and upsets: the snapshot that the daemon folds behaves   *)
(* as a conversation, and the cloud session, the phone and the disk show   *)
(* what the snapshot shows.                                                *)
(* All of it needs that a key is never used again: a text is of the next   *)
(* block of the newest message, a call was not appended, a prompt not      *)
(* pushed, a summary not lifted (Told). For the phone, the frames on their *)
(* way lead from its rows to the snapshot (Shown); for the disk, what is   *)
(* read is beside what is shown at every step (Stored).                    *)
EXTENDS Timeline, FiniteSetTheorems, SequenceTheorems, WellFoundedInduction, TLAPS

-----------------------------------------------------------------------------
(* The strengthening.                                                      *)

Keys == {settled[i].key : i \in DOMAIN settled}
Outcome == [failed : BOOLEAN, detail : Details]
Item == [key : ItemKeys, kind : {"user", "text", "tool"}, text : Nat, result : {Unsettled} \cup Outcome]

\* The kind of an item is told by its key.
Sorted ==
    \A i \in DOMAIN settled : /\ settled[i].kind = "tool" <=> settled[i].key \in Tools
                              /\ settled[i].kind = "text" <=> settled[i].key \in TextKeys

OnceEach == \A i, j \in DOMAIN settled : settled[i].key = settled[j].key => i = j

Opened == sdk.open # NoBlock

\* What streams is the newest message, and its open block the next one.
StreamsNewest ==
    /\ Opened => sdk.streams
    /\ sdk.streams => sdk.message \in 1 .. MaxMessages /\ streaming.current = sdk.message
    /\ Opened => sdk.open = TextItem(<<sdk.message, Len(sdk.blocks) + 1>>, sdk.open.text)
    /\ Opened => Len(sdk.blocks) < MaxBlocks /\ sdk.open.text \in Nat

\* No text is of a block that is still to come.
TextsPassed ==
    \A key \in Keys \cap TextKeys :
        /\ key[1] <= sdk.message
        /\ sdk.streams /\ key[1] = sdk.message => key[2] <= Len(sdk.blocks) \/ (Opened /\ key = sdk.open.key)

\* The text that streams is the last text.
OpenIsLast ==
    Opened => \E i \in DOMAIN settled :
        /\ settled[i].key = sdk.open.key
        /\ \A j \in DOMAIN settled : j > i => settled[j].kind # "text"

\* A call was appended once it is known, and awaits its result while pending.
CallsKnown ==
    /\ Keys \cap Tools \subseteq streaming.appended
    /\ \A t \in streaming.pending :
          \E i \in DOMAIN settled : settled[i].key = t /\ settled[i].result = Unsettled
    /\ sdk.running \subseteq streaming.pending
    /\ \A i \in DOMAIN sdk.blocks : /\ sdk.blocks[i].key \in Keys
                                    /\ sdk.blocks[i].kind = "tool" => sdk.blocks[i].key \in streaming.appended

PromptsDone == \A p \in Keys \cap Prompts : commands[p] = "done"

\* The summary that is to come is not an item yet.
SummaryIsNew ==
    /\ \A k \in 1 .. MaxUpsets : <<Summary, k>> \in Keys => k <= upsets
    /\ streaming.summary <=> sdk.compacting
    /\ sdk.compacting =>
          /\ sdk.turn /\ ~sdk.streams /\ sdk.running = {}
          /\ \E k \in 1 .. upsets : disk = <<UserLine(<<Summary, k>>)>> /\ <<Summary, k>> \notin Keys

\* What the cloud has, or will not get.
CloudHas ==
    /\ \A i \in DOMAIN settled : \/ settled[i].key \in cloud \cup cut
                                 \/ Opened /\ settled[i].key = sdk.open.key
    /\ \A i \in DOMAIN settled :
          settled[i].kind = "tool" /\ settled[i].result # Unsettled => ResultKey(settled[i].key) \in cloud
    /\ cloud \subseteq Keys \cup Outputs \cup {p \in Theirs : commands[p] \in {"orphan", "refused"}}

SdkState ==
    [turn : BOOLEAN, queue : Seq(Prompts), message : 0 .. MaxMessages, streams : BOOLEAN,
     blocks : Seq([key : TextKeys \cup Tools, kind : {"text", "tool"}, text : Nat, result : {Unsettled}]),
     open : {NoBlock} \cup [key : TextKeys, kind : {"text"}, text : Nat, result : {Unsettled}],
     running : SUBSET Tools, compacting : BOOLEAN]
Streaming ==
    [current : 0 .. MaxMessages, texts : SUBSET TextKeys, appended : SUBSET Tools,
     pending : SUBSET Tools, summary : BOOLEAN]
Shape ==
    /\ settled \in Seq(Item)
    /\ sdk \in SdkState
    /\ streaming \in Streaming
    /\ commands \in [Prompts -> {"idle", "sent", "orphan", "done", "refused"}]
    /\ upsets \in 0 .. MaxUpsets

Told ==
    /\ Shape /\ Sorted /\ OnceEach
    /\ StreamsNewest /\ TextsPassed /\ OpenIsLast
    /\ CallsKnown /\ PromptsDone /\ SummaryIsNew /\ CloudHas

-----------------------------------------------------------------------------
(* Keys and items.                                                         *)

LEMMA KeysApart ==
    /\ Prompts \cap Tools = {} /\ TextKeys \cap Prompts = {} /\ TextKeys \cap Tools = {}
    /\ \A k \in Nat : <<Summary, k>> \notin Prompts \cup Tools \cup TextKeys
  BY KeysAssumption, TimelineAssumption DEF Prompts, TextKeys

LEMMA Bounds ==
    MaxMessages \in Nat /\ MaxBlocks \in Nat /\ MaxDeltas \in Nat /\ MaxUpsets \in Nat /\ MaxLag \in Nat
  BY TimelineAssumption

LEMMA UserItemIs ==
    ASSUME NEW p \in Prompts \cup ({Summary} \X (1 .. MaxUpsets))
    PROVE  /\ UserItem(p) \in Item /\ UserItem(p).key = p /\ UserItem(p).kind = "user"
           /\ UserItem(p).text = 0 /\ UserItem(p).result = Unsettled
           /\ p \notin Tools \cup TextKeys
  <1>1. p \in ItemKeys /\ p \notin Tools \cup TextKeys
    BY KeysApart, Bounds DEF ItemKeys
  <1> QED BY <1>1 DEF UserItem, Item

LEMMA TextItemIs ==
    ASSUME NEW key \in TextKeys, NEW n \in Nat
    PROVE  /\ TextItem(key, n) \in Item /\ TextItem(key, n).key = key /\ TextItem(key, n).kind = "text"
           /\ TextItem(key, n).text = n /\ TextItem(key, n).result = Unsettled
           /\ key \notin Prompts \cup Tools
           /\ TextItem(key, n) # NoBlock
           /\ TextItem(key, n) \in [key : TextKeys, kind : {"text"}, text : Nat, result : {Unsettled}]
  <1>1. key \in ItemKeys /\ key \notin Prompts \cup Tools /\ key \in Nat \X Nat
    BY KeysApart, Bounds DEF ItemKeys, TextKeys
  <1>2. TextItem(key, n) # NoBlock
    BY <1>1, KeysAssumption DEF TextItem
  <1> QED BY <1>1, <1>2 DEF TextItem, Item

LEMMA ToolItemIs ==
    ASSUME NEW t \in Tools, NEW r \in {Unsettled} \cup Outcome
    PROVE  /\ ToolItem(t, r) \in Item /\ ToolItem(t, r).key = t /\ ToolItem(t, r).kind = "tool"
           /\ ToolItem(t, r).text = 0 /\ ToolItem(t, r).result = r
           /\ t \notin Prompts \cup TextKeys
  <1>1. t \in ItemKeys /\ t \notin Prompts \cup TextKeys
    BY KeysApart DEF ItemKeys
  <1> QED BY <1>1 DEF ToolItem, Item

LEMMA BuiltIs == ASSUME NEW call \in Calls PROVE BuildDetail(call) \in Details
  <1>1. Unknown \in Details
    BY DEF Unknown, Details, DetailTypes
  <1>2. CASE call.valid /\ call.name \in DOMAIN DetailOf
    <2>1. PICK b : b = [Unknown EXCEPT !.type = DetailOf[call.name],
                                       !.background = (call.name = "Bash" /\ call.background)]
      OBVIOUS
    <2>2. DetailOf[call.name] \in DetailTypes
      BY <1>2 DEF DetailTypes
    <2>3. (call.name = "Bash" /\ call.background) \in BOOLEAN
      OBVIOUS
    <2>4. b \in Details
      BY <1>1, <2>1, <2>2, <2>3 DEF Details
    <2> QED BY <1>2, <2>1, <2>4 DEF BuildDetail
  <1>3. CASE ~(call.valid /\ call.name \in DOMAIN DetailOf)
    BY <1>1, <1>3 DEF BuildDetail
  <1> QED BY <1>2, <1>3

LEMMA CompletedIs ==
    ASSUME NEW t \in Tools, NEW return \in Returns
    PROVE  Completed(t, return) \in Outcome /\ Completed(t, return) # Unsettled
  <1>1. Call[t] \in Calls /\ return.failed \in BOOLEAN /\ return.parsable \in BOOLEAN
    BY TimelineAssumption
  <1>2. PICK call \in Calls : call = Call[t]
    BY <1>1
  <1>3. PICK d \in Details : d = BuildDetail(call)
    BY BuiltIs
  <1>4. AttachOutput(d, return.parsable) \in Details
    BY <1>3 DEF AttachOutput, Details
  <1>5. Completed(t, return) = [failed |-> return.failed, detail |-> AttachOutput(d, return.parsable)]
    BY <1>2, <1>3 DEF Completed
  <1>6. Completed(t, return) \in Outcome
    BY <1>1, <1>4, <1>5 DEF Outcome
  <1> QED BY <1>6, KeysAssumption DEF Outcome

-----------------------------------------------------------------------------
(* Folds of no delta and of one.                                           *)

\* The recursive function that a fold is.
Iterates(f, s, ds) ==
    f = [t \in SUBSET DOMAIN ds |-> IF t = {} THEN s ELSE Fold(f[t \ {Max(t)}], ds[Max(t)])]

LEMMA FoldsAre ==
    ASSUME NEW s, NEW ds, NEW h, Iterates(h, s, ds)
    PROVE  \E f : FoldLeft(Fold, s, ds) = f[DOMAIN ds] /\ Iterates(f, s, ds)
  <1>1. FoldLeft(Fold, s, ds) = (CHOOSE f : Iterates(f, s, ds))[DOMAIN ds]
    BY Zenon DEF FoldLeft, MapThenFoldSet, Iterates
  <1>2. Iterates(CHOOSE f : Iterates(f, s, ds), s, ds)
    BY Zenon
  <1> QED BY <1>1, <1>2, Zenon

LEMMA FoldNone ==
    ASSUME NEW s PROVE FoldLeft(Fold, s, <<>>) = s
  <1>0. PICK ds : ds = <<>>
    OBVIOUS
  <1>1. DOMAIN ds = {} /\ SUBSET DOMAIN ds = {{}}
    BY <1>0
  <1>2. PICK h : h = [t \in SUBSET DOMAIN ds |-> s]
    OBVIOUS
  <1>3. h = [t \in SUBSET DOMAIN ds |-> IF t = {} THEN s ELSE Fold(h[t \ {Max(t)}], ds[Max(t)])]
    BY <1>1, <1>2
  <1>4. PICK iter : FoldLeft(Fold, s, ds) = iter[DOMAIN ds] /\ Iterates(iter, s, ds)
    <2>1. Iterates(h, s, ds)
      BY <1>3, Zenon DEF Iterates
    <2> QED BY <2>1, FoldsAre
  <1>5. iter[DOMAIN ds] = s
    BY <1>1, <1>4 DEF Iterates
  <1> QED BY <1>0, <1>4, <1>5

LEMMA FoldOne ==
    ASSUME NEW s, NEW d PROVE FoldLeft(Fold, s, <<d>>) = Fold(s, d)
  <1>0. PICK ds : ds = <<d>>
    OBVIOUS
  <1>1. DOMAIN ds = {1} /\ ds[1] = d
    BY <1>0
  <1>s. \A t \in SUBSET DOMAIN ds : t # {} => t = {1}
    BY <1>1
  <1>m. Max({1}) = 1
    BY DEF Max
  <1>2. \A t \in SUBSET DOMAIN ds : t # {} => t \ {Max(t)} = {} /\ ds[Max(t)] = d
    <2> SUFFICES ASSUME NEW t \in SUBSET DOMAIN ds, t # {}
                 PROVE  t \ {Max(t)} = {} /\ ds[Max(t)] = d
      OBVIOUS
    <2>1. t = {1}
      BY <1>s
    <2>2. Max(t) = 1
      BY <1>m, <2>1
    <2> QED BY <1>1, <2>1, <2>2
  <1>3. PICK h : h = [t \in SUBSET DOMAIN ds |-> IF t = {} THEN s ELSE Fold(s, d)]
    OBVIOUS
  <1>4. h = [t \in SUBSET DOMAIN ds |-> IF t = {} THEN s ELSE Fold(h[t \ {Max(t)}], ds[Max(t)])]
    <2>1. h[{}] = s
      BY <1>3
    <2>2. \A t \in SUBSET DOMAIN ds : t # {} => Fold(h[t \ {Max(t)}], ds[Max(t)]) = Fold(s, d)
      BY <1>2, <2>1
    <2> QED BY <1>3, <2>2
  <1>5. PICK iter : FoldLeft(Fold, s, ds) = iter[DOMAIN ds] /\ Iterates(iter, s, ds)
    <2>1. Iterates(h, s, ds)
      BY <1>4, Zenon DEF Iterates
    <2> QED BY <2>1, FoldsAre
  <1>6. iter[{}] = s
    BY <1>5 DEF Iterates
  <1>7. iter[DOMAIN ds] = Fold(s, d)
    <2>1. DOMAIN ds # {} /\ DOMAIN ds \in SUBSET DOMAIN ds
      BY <1>1
    <2>2. iter[DOMAIN ds] = Fold(iter[DOMAIN ds \ {Max(DOMAIN ds)}], ds[Max(DOMAIN ds)])
      BY <1>5, <2>1 DEF Iterates
    <2> QED BY <1>2, <1>6, <2>1, <2>2
  <1> QED BY <1>0, <1>5, <1>7

LEMMA SetToSeqNone == SetToSeq({}) = <<>>
  BY FS_EmptySet DEF SetToSeq, IsInjective

LEMMA SetToSeqOne == ASSUME NEW x PROVE SetToSeq({x}) = <<x>>
  <1>1. Cardinality({x}) = 1
    BY FS_Singleton
  <1> QED BY <1>1 DEF SetToSeq, IsInjective

LEMMA EmitIs ==
    /\ Emit(<<>>) => settled' = settled
    /\ \A d : Emit(<<d>>) => settled' = Fold(settled, d)
  BY FoldNone, FoldOne DEF Emit

-----------------------------------------------------------------------------
(* What a delta does to the items: one more item at the end, or one item    *)
(* patched; and either is a step of a conversation.                         *)

\* The position of a key.
LEMMA Patching ==
    ASSUME Shape, OnceEach, NEW i \in DOMAIN settled, NEW d, d.op # "append",
           settled[i].key = d.item.key, settled' = Fold(settled, d)
    PROVE  /\ DOMAIN settled' = DOMAIN settled /\ Len(settled') = Len(settled)
           /\ \A j \in DOMAIN settled : j # i => settled'[j] = settled[j]
           /\ settled'[i] = IF d.op = "patch_text" THEN [settled[i] EXCEPT !.text = @ + 1]
                            ELSE [settled[i] EXCEPT !.result = d.item.result]
  <1>1. settled' = [j \in DOMAIN settled |-> Patched(settled[j], d)]
    BY DEF Fold
  <1>2. settled \in Seq(Item)
    BY DEF Shape
  <1>3. \A j \in DOMAIN settled : j # i => settled[j].key # d.item.key
    BY DEF OnceEach
  <1>4. settled' \in Seq({Patched(settled[j], d) : j \in DOMAIN settled}) /\ Len(settled') = Len(settled)
    BY <1>1, <1>2
  <1>5. \A j \in DOMAIN settled : j # i => settled'[j] = settled[j]
    BY <1>1, <1>3 DEF Patched
  <1>6. settled'[i] = IF d.op = "patch_text" THEN [settled[i] EXCEPT !.text = @ + 1]
                      ELSE [settled[i] EXCEPT !.result = d.item.result]
    BY <1>1 DEF Patched
  <1> QED BY <1>1, <1>4, <1>5, <1>6

LEMMA Appending ==
    ASSUME Shape, Sorted, OnceEach, NEW it \in Item, it.key \notin Keys,
           it.kind = "tool" <=> it.key \in Tools, it.kind = "text" <=> it.key \in TextKeys,
           it.text = 0, it.result = Unsettled, settled' = Append(settled, it)
    PROVE  /\ settled' \in Seq(Item) /\ Sorted' /\ OnceEach' /\ Keys' = Keys \cup {it.key}
           /\ Len(settled) + 1 \notin DOMAIN settled
           /\ DOMAIN settled' = DOMAIN settled \cup {Len(settled) + 1}
           /\ \A j \in DOMAIN settled : settled'[j] = settled[j] /\ j < Len(settled) + 1
           /\ settled'[Len(settled) + 1] = it
           /\ Abstract!Next
  <1>0. settled \in Seq(Item)
    BY DEF Shape
  <1>1. settled' \in Seq(Item) /\ DOMAIN settled' = DOMAIN settled \cup {Len(settled) + 1}
    BY <1>0
  <1>2. \A j \in DOMAIN settled : settled'[j] = settled[j] /\ j < Len(settled) + 1
    BY <1>0
  <1>3. settled'[Len(settled) + 1] = it /\ Len(settled) + 1 \notin DOMAIN settled
    BY <1>0
  <1>4. Keys' = Keys \cup {it.key}
    BY <1>1, <1>2, <1>3 DEF Keys
  <1>5. Sorted'
    BY <1>1, <1>2, <1>3 DEF Sorted
  <1>6. OnceEach'
    BY <1>1, <1>2, <1>3 DEF OnceEach, Keys
  <1>7. Abstract!Next
    <2>1. it = [key |-> it.key, kind |-> it.kind, text |-> 0, result |-> Unsettled]
      BY DEF Item
    <2>2. \A i \in DOMAIN settled : settled[i].key # it.key
      BY DEF Keys
    <2>3. Abstract!Add(it.key, it.kind)
      BY <2>1, <2>2 DEF Abstract!Add
    <2>4. it.key \in ItemKeys /\ it.kind \in {"user", "text", "tool"}
      BY DEF Item
    <2> QED BY <2>3, <2>4 DEF Abstract!Next
  <1> QED BY <1>1, <1>2, <1>3, <1>4, <1>5, <1>6, <1>7

-----------------------------------------------------------------------------
(* Patches, and what has been put out.                                     *)

LEMMA OutputsAre ==
    \A o : o \in Outputs <=> \E i \in DOMAIN settled : /\ settled[i].kind = "tool" /\ settled[i].result # Unsettled
                                                       /\ o = ResultKey(settled[i].key)
  BY DEF Outputs, Range

LEMMA OutputsAreNext ==
    \A o : o \in Outputs' <=> \E i \in DOMAIN settled' : /\ settled'[i].kind = "tool" /\ settled'[i].result # Unsettled
                                                         /\ o = ResultKey(settled'[i].key)
  BY DEF Outputs, Range, ResultKey

LEMMA Alike == ASSUME NEW A, NEW B, \A o : o \in A <=> o \in B PROVE A = B
  OBVIOUS

LEMMA TextPatched ==
    ASSUME Shape, Sorted, OnceEach, NEW i \in DOMAIN settled, settled[i].kind = "text",
           \A j \in DOMAIN settled : j > i => settled[j].kind # "text",
           settled' = Fold(settled, PatchText(settled[i].key))
    PROVE  /\ settled' \in Seq(Item) /\ Sorted' /\ OnceEach' /\ Keys' = Keys /\ Outputs' = Outputs
           /\ DOMAIN settled' = DOMAIN settled
           /\ \A j \in DOMAIN settled : /\ settled'[j].key = settled[j].key
                                        /\ settled'[j].kind = settled[j].kind
                                        /\ settled'[j].result = settled[j].result
           /\ Abstract!Next
  <1>0. settled \in Seq(Item) /\ settled[i] \in Item
    BY DEF Shape
  <1>d. PICK d : d = PatchText(settled[i].key)
    OBVIOUS
  <1>e. d.op = "patch_text" /\ d.item.key = settled[i].key
    BY <1>d DEF PatchText, TextItem
  <1>1. /\ DOMAIN settled' = DOMAIN settled /\ Len(settled') = Len(settled)
        /\ \A j \in DOMAIN settled : j # i => settled'[j] = settled[j]
        /\ settled'[i] = [settled[i] EXCEPT !.text = @ + 1]
    BY <1>d, <1>e, Patching
  <1>2. /\ settled'[i] \in Item /\ settled'[i].key = settled[i].key /\ settled'[i].kind = settled[i].kind
        /\ settled'[i].result = settled[i].result
    BY <1>0, <1>1 DEF Item
  <1>3. \A j \in DOMAIN settled : /\ settled'[j].key = settled[j].key
                                  /\ settled'[j].kind = settled[j].kind
                                  /\ settled'[j].result = settled[j].result
    BY <1>1, <1>2
  <1>4. settled' = [settled EXCEPT ![i] = [settled[i] EXCEPT !.text = @ + 1]]
    <2>1. settled' = [j \in DOMAIN settled |-> Patched(settled[j], d)]
      BY <1>d, <1>e DEF Fold
    <2> QED BY <1>0, <1>1, <2>1
  <1>5. settled' \in Seq(Item)
    <2>1. [settled[i] EXCEPT !.text = @ + 1] \in Item
      BY <1>1, <1>2
    <2> QED BY <1>0, <1>4, <2>1
  <1>6. Keys' = Keys
    BY <1>1, <1>3 DEF Keys
  <1>7. Sorted' /\ OnceEach'
    BY <1>1, <1>3 DEF Sorted, OnceEach
  <1>8. Outputs' = Outputs
    <2>1. \A o : o \in Outputs' => o \in Outputs
      BY <1>1, <1>3, OutputsAre, OutputsAreNext
    <2>2. \A o : o \in Outputs => o \in Outputs'
      BY <1>1, <1>3, OutputsAre, OutputsAreNext
    <2> QED BY <2>1, <2>2, Alike
  <1>9. Abstract!Grow(i)
    BY <1>4 DEF Abstract!Grow
  <1> QED BY <1>1, <1>3, <1>5, <1>6, <1>7, <1>8, <1>9 DEF Abstract!Next

LEMMA CallPatched ==
    ASSUME Shape, Sorted, OnceEach, NEW i \in DOMAIN settled, NEW r \in Outcome, r # Unsettled,
           settled[i].kind = "tool", settled[i].result = Unsettled,
           settled' = Fold(settled, PatchTool(settled[i].key, r))
    PROVE  /\ settled' \in Seq(Item) /\ Sorted' /\ OnceEach' /\ Keys' = Keys
           /\ Outputs' = Outputs \cup {ResultKey(settled[i].key)}
           /\ DOMAIN settled' = DOMAIN settled
           /\ \A j \in DOMAIN settled : /\ settled'[j].key = settled[j].key
                                        /\ settled'[j].kind = settled[j].kind
                                        /\ j # i => settled'[j].result = settled[j].result
           /\ Abstract!Next
  <1>0. settled \in Seq(Item) /\ settled[i] \in Item
    BY DEF Shape
  <1>d. PICK d : d = PatchTool(settled[i].key, r)
    OBVIOUS
  <1>e. d.op = "patch_tool_call" /\ d.item.key = settled[i].key /\ d.item.result = r
    BY <1>d DEF PatchTool, ToolItem
  <1>1. /\ DOMAIN settled' = DOMAIN settled /\ Len(settled') = Len(settled)
        /\ \A j \in DOMAIN settled : j # i => settled'[j] = settled[j]
        /\ settled'[i] = [settled[i] EXCEPT !.result = r]
    <2>1. d.op # "append" /\ d.op # "patch_text"
      BY <1>e
    <2>2. settled' = Fold(settled, d)
      BY <1>d
    <2>3. /\ DOMAIN settled' = DOMAIN settled /\ Len(settled') = Len(settled)
          /\ \A j \in DOMAIN settled : j # i => settled'[j] = settled[j]
          /\ settled'[i] = IF d.op = "patch_text" THEN [settled[i] EXCEPT !.text = @ + 1]
                           ELSE [settled[i] EXCEPT !.result = d.item.result]
      BY <1>e, <2>1, <2>2, Patching
    <2> QED BY <1>e, <2>1, <2>3
  <1>2. /\ settled'[i] \in Item /\ settled'[i].key = settled[i].key /\ settled'[i].kind = settled[i].kind
        /\ settled'[i].result = r
    BY <1>0, <1>1 DEF Item
  <1>3. \A j \in DOMAIN settled : /\ settled'[j].key = settled[j].key
                                  /\ settled'[j].kind = settled[j].kind
                                  /\ j # i => settled'[j].result = settled[j].result
    BY <1>1, <1>2
  <1>4. settled' = [settled EXCEPT ![i] = [settled[i] EXCEPT !.result = r]]
    <2>1. settled' = [j \in DOMAIN settled |-> Patched(settled[j], d)]
      BY <1>d, <1>e DEF Fold
    <2> QED BY <1>0, <1>1, <2>1
  <1>5. settled' \in Seq(Item)
    <2>1. [settled[i] EXCEPT !.result = r] \in Item
      BY <1>1, <1>2
    <2> QED BY <1>0, <1>4, <2>1
  <1>6. Keys' = Keys
    BY <1>1, <1>3 DEF Keys
  <1>7. Sorted' /\ OnceEach'
    BY <1>1, <1>3 DEF Sorted, OnceEach
  <1>8. Outputs' = Outputs \cup {ResultKey(settled[i].key)}
    <2>1. \A o : o \in Outputs' => o \in Outputs \cup {ResultKey(settled[i].key)}
      BY <1>1, <1>3, OutputsAre, OutputsAreNext
    <2>2. \A o : o \in Outputs => o \in Outputs'
      BY <1>1, <1>3, OutputsAre, OutputsAreNext
    <2>3. ResultKey(settled[i].key) \in Outputs'
      <3>1. i \in DOMAIN settled' /\ settled'[i].kind = "tool" /\ settled'[i].result # Unsettled
        BY <1>1, <1>2
      <3>2. PICK o : o = ResultKey(settled[i].key)
        OBVIOUS
      <3>3. o = ResultKey(settled'[i].key)
        BY <1>2, <3>2
      <3> QED BY <3>1, <3>2, <3>3, OutputsAreNext
    <2>4. \A o : o \in Outputs' <=> o \in Outputs \cup {ResultKey(settled[i].key)}
      BY <2>1, <2>2, <2>3
    <2> QED BY <2>4, Alike
  <1>9. Abstract!Settle(i, settled'[i].result)
    <2>1. settled' = [settled EXCEPT ![i].result = settled'[i].result]
      BY <1>2, <1>4
    <2> QED BY <1>2, <2>1 DEF Abstract!Settle
  <1> QED BY <1>1, <1>3, <1>5, <1>6, <1>7, <1>8, <1>9 DEF Abstract!Next

LEMMA OutputsStay ==
    ASSUME Shape, NEW it, it.result = Unsettled, settled' = Append(settled, it)
    PROVE  Outputs' = Outputs
  <1>0. settled \in Seq(Item)
    BY DEF Shape
  <1>1. DOMAIN settled' = DOMAIN settled \cup {Len(settled) + 1} /\ settled'[Len(settled) + 1] = it
        /\ \A j \in DOMAIN settled : settled'[j] = settled[j]
    BY <1>0
  <1>2. Outputs' = Outputs
    <2>1. \A o : o \in Outputs' => o \in Outputs
      BY <1>1, OutputsAre, OutputsAreNext
    <2>2. \A o : o \in Outputs => o \in Outputs'
      BY <1>1, OutputsAre, OutputsAreNext
    <2> QED BY <2>1, <2>2, Alike
  <1> QED BY <1>2

LEMMA QuietIs ==
    ASSUME Told, settled' = settled
    PROVE  Keys' = Keys /\ Outputs' = Outputs /\ Sorted' /\ OnceEach'
  <1>1. Keys' = Keys /\ Sorted' /\ OnceEach'
    BY DEF Told, Keys, Sorted, OnceEach
  <1>2. Outputs' = Outputs
    BY DEF Outputs, ResultKey
  <1> QED BY <1>1, <1>2

-----------------------------------------------------------------------------
(* What happens away from the stream.                                      *)

Goes == Told' /\ [Abstract!Next]_settled

LEMMA Elsewhere ==
    ASSUME Told, UNCHANGED <<sdk, disk, streaming, settled, cut>>,
           upsets' \in 0 .. MaxUpsets, upsets <= upsets',
           commands' \in [Prompts -> {"idle", "sent", "orphan", "done", "refused"}],
           \A p \in Prompts : commands[p] = "done" => commands'[p] = "done",
           \A p \in Theirs : commands[p] \in {"orphan", "refused"} => commands'[p] \in {"orphan", "refused"},
           cloud \subseteq cloud',
           cloud' \subseteq cloud \cup {p \in Theirs : commands'[p] \in {"orphan", "refused"}}
    PROVE  Goes
  <1>1. Keys' = Keys /\ Outputs' = Outputs /\ Sorted' /\ OnceEach'
    BY QuietIs
  <1>2. Shape'
    BY DEF Told, Shape
  <1>3. StreamsNewest' /\ TextsPassed'
    BY <1>1 DEF Told, StreamsNewest, TextsPassed, Opened
  <1>4. OpenIsLast' /\ CallsKnown'
    BY <1>1 DEF Told, OpenIsLast, CallsKnown, Opened
  <1>5. PromptsDone'
    BY <1>1 DEF Told, PromptsDone
  <1>6. SummaryIsNew'
    <2>1. upsets \in Nat /\ upsets' \in Nat
      BY DEF Told, Shape
    <2> QED BY <1>1, <2>1 DEF Told, SummaryIsNew
  <1>7. CloudHas'
    BY <1>1 DEF Told, CloudHas, Opened
  <1> QED BY <1>1, <1>2, <1>3, <1>4, <1>5, <1>6, <1>7 DEF Told, Goes

LEMMA PhoneGoes ==
    ASSUME Told, Deliver \/ Connect \/ Answer
    PROVE  Goes
  <1>1. UNCHANGED <<sdk, disk, streaming, settled, cut, upsets, commands, cloud>>
    BY DEF Deliver, Connect, Answer, history
  <1>2. upsets \in 0 .. MaxUpsets /\ upsets <= upsets
    BY DEF Told, Shape
  <1> QED BY <1>1, <1>2, Elsewhere DEF Told, Shape

LEMMA DropGoes ==
    ASSUME Told, Drop
    PROVE  Goes
  <1>1. UNCHANGED <<sdk, disk, streaming, settled, cut, cloud>> /\ upsets' = upsets + 1 /\ upsets < MaxUpsets
    BY DEF Drop, history
  <1>2. PICK lost \in SUBSET {p \in Mine : commands[p] = "sent"} :
          commands' = [p \in Prompts |->
              IF commands[p] # "sent" THEN commands[p] ELSE IF p \in lost THEN "refused" ELSE "orphan"]
    BY DEF Drop
  <1>3. commands \in [Prompts -> {"idle", "sent", "orphan", "done", "refused"}] /\ upsets \in 0 .. MaxUpsets
    BY DEF Told, Shape
  <1>4. upsets' \in 0 .. MaxUpsets /\ upsets <= upsets'
    BY <1>1, <1>3, Bounds
  <1>5. commands' \in [Prompts -> {"idle", "sent", "orphan", "done", "refused"}]
    BY <1>2, <1>3
  <1>6. \A p \in Prompts : commands[p] # "sent" => commands'[p] = commands[p]
    BY <1>2
  <1>7. Theirs \subseteq Prompts
    BY DEF Prompts
  <1> QED BY <1>1, <1>4, <1>5, <1>6, <1>7, Elsewhere

LEMMA CommandGoes ==
    ASSUME Told, NEW p \in Prompts, Send(p) \/ Typed(p) \/ Refuse(p)
    PROVE  Goes
  <1>1. UNCHANGED <<sdk, disk, streaming, settled, cut, upsets>>
    BY DEF Send, Typed, Refuse, history
  <1>2. commands \in [Prompts -> {"idle", "sent", "orphan", "done", "refused"}] /\ upsets \in 0 .. MaxUpsets
    BY DEF Told, Shape
  <1>3. /\ commands[p] # "done"
        /\ commands' \in [Prompts -> {"idle", "sent", "orphan", "done", "refused"}]
        /\ \A q \in Prompts : q # p => commands'[q] = commands[q]
    BY <1>2 DEF Send, Typed, Refuse
  <1>4. commands[p] \in {"orphan", "refused"} => commands'[p] \in {"orphan", "refused"}
    BY <1>2 DEF Send, Typed, Refuse
  <1>5. cloud' = cloud \/ (cloud' = cloud \cup {p} /\ p \in Theirs /\ commands'[p] \in {"orphan", "refused"})
    BY <1>2 DEF Send, Typed, Refuse
  <1>6. Theirs \subseteq Prompts
    BY DEF Prompts
  <1> QED BY <1>1, <1>2, <1>3, <1>4, <1>5, <1>6, Elsewhere

-----------------------------------------------------------------------------
(* Steps of the SDK that emit nothing.                                     *)

LEMMA Fields ==
    ASSUME Told
    PROVE  /\ sdk.queue \in Seq(Prompts) /\ sdk.message \in 0 .. MaxMessages /\ sdk.running \subseteq Tools
           /\ sdk.blocks \in Seq([key : TextKeys \cup Tools, kind : {"text", "tool"}, text : Nat, result : {Unsettled}])
           /\ sdk.open \in {NoBlock} \cup [key : TextKeys, kind : {"text"}, text : Nat, result : {Unsettled}]
           /\ upsets \in 0 .. MaxUpsets /\ settled \in Seq(Item)
           /\ streaming.current \in 0 .. MaxMessages /\ streaming.texts \subseteq TextKeys
           /\ streaming.appended \subseteq Tools /\ streaming.pending \subseteq Tools
  BY DEF Told, Shape, SdkState, Streaming

LEMMA QuietGoes ==
    ASSUME Told, settled' = settled, commands' = commands, cut \subseteq cut',
           cloud \subseteq cloud', cloud' \subseteq cloud \cup Keys, Shape', StreamsNewest', TextsPassed', SummaryIsNew',
           streaming'.appended = streaming.appended, streaming'.pending = streaming.pending,
           sdk'.running \subseteq sdk.running,
           \/ sdk'.blocks = sdk.blocks \/ sdk'.blocks = <<>>
           \/ \A i \in DOMAIN sdk'.blocks : /\ sdk'.blocks[i].key \in Keys
                                            /\ sdk'.blocks[i].kind = "tool" => sdk'.blocks[i].key \in streaming.appended,
           Opened' => Opened /\ sdk'.open.key = sdk.open.key,
           Opened => sdk.open.key \in cut' \cup cloud' \/ Opened'
    PROVE  Goes
  <1>1. Keys' = Keys /\ Outputs' = Outputs /\ Sorted' /\ OnceEach'
    BY QuietIs
  <1>2. OpenIsLast'
    BY DEF Told, OpenIsLast
  <1>3. CallsKnown'
    <2>1. Keys' \cap Tools \subseteq streaming'.appended /\ sdk'.running \subseteq streaming'.pending
      BY <1>1 DEF Told, CallsKnown
    <2>2. \A t \in streaming'.pending :
             \E i \in DOMAIN settled' : settled'[i].key = t /\ settled'[i].result = Unsettled
      BY DEF Told, CallsKnown
    <2>3. \A i \in DOMAIN sdk'.blocks : /\ sdk'.blocks[i].key \in Keys
                                        /\ sdk'.blocks[i].kind = "tool" => sdk'.blocks[i].key \in streaming.appended
      <3>1. CASE sdk'.blocks = sdk.blocks
        BY <3>1 DEF Told, CallsKnown
      <3>2. CASE sdk'.blocks = <<>>
        BY <3>2
      <3>3. CASE \A i \in DOMAIN sdk'.blocks :
                    /\ sdk'.blocks[i].key \in Keys
                    /\ sdk'.blocks[i].kind = "tool" => sdk'.blocks[i].key \in streaming.appended
        BY <3>3
      <3> QED BY <3>1, <3>2, <3>3
    <2> QED BY <1>1, <2>1, <2>2, <2>3 DEF CallsKnown
  <1>4. PromptsDone'
    BY <1>1 DEF Told, PromptsDone
  <1>5. CloudHas'
    BY <1>1 DEF Told, CloudHas
  <1> QED BY <1>1, <1>2, <1>3, <1>4, <1>5 DEF Told, Goes

LEMMA TurnGoes ==
    ASSUME Told, BeginTurn \/ TurnEnds
    PROVE  Goes
  <1>1. /\ UNCHANGED <<settled, commands, cloud, cut, upsets, streaming>>
        /\ ~sdk.compacting
    BY DEF BeginTurn, TurnEnds, client, history, Told, SummaryIsNew
  <1>2. PICK turn \in BOOLEAN, queue \in Seq(Prompts) : sdk' = [sdk EXCEPT !.turn = turn, !.queue = queue]
    <2>1. CASE BeginTurn
      <3>1. Tail(sdk.queue) \in Seq(Prompts)
        BY <2>1, Fields DEF BeginTurn
      <3> QED BY <2>1, <3>1 DEF BeginTurn
    <2>2. CASE TurnEnds
      <3>1. sdk.queue \in Seq(Prompts)
        BY Fields
      <3>2. [sdk EXCEPT !.turn = FALSE] = [sdk EXCEPT !.turn = FALSE, !.queue = sdk.queue]
        BY DEF Told, Shape, SdkState
      <3> QED BY <2>2, <3>1, <3>2 DEF TurnEnds
    <2> QED BY <2>1, <2>2
  <1>3. /\ sdk' \in SdkState
        /\ sdk'.message = sdk.message /\ sdk'.streams = sdk.streams /\ sdk'.blocks = sdk.blocks
        /\ sdk'.open = sdk.open /\ sdk'.running = sdk.running /\ sdk'.compacting = sdk.compacting
    BY <1>2 DEF Told, Shape, SdkState
  <1>4. Shape'
    BY <1>1, <1>3 DEF Told, Shape
  <1>5. StreamsNewest'
    BY <1>1, <1>3 DEF Told, StreamsNewest, Opened
  <1>6. TextsPassed' /\ SummaryIsNew'
    <2>1. Keys' = Keys
      BY <1>1, QuietIs
    <2> QED BY <1>1, <1>3, <2>1 DEF Told, TextsPassed, SummaryIsNew, Opened
  <1> QED BY <1>1, <1>3, <1>4, <1>5, <1>6, QuietGoes DEF Opened

LEMMA MessageGoes ==
    ASSUME Told, MessageStart \/ MessageStop
    PROVE  Goes
  <1>1. /\ UNCHANGED <<settled, commands, cloud, cut, upsets, disk>>
        /\ ~Opened
    BY DEF MessageStart, MessageStop, client, history, Told, StreamsNewest, Opened
  <1>2. PICK message \in 0 .. MaxMessages, streams \in BOOLEAN, current \in 0 .. MaxMessages :
          /\ sdk'.message = message /\ sdk'.streams = streams /\ sdk.message <= message
          /\ streaming' = [streaming EXCEPT !.current = current]
          /\ streams => message > sdk.message /\ current = message
          /\ streams => ~sdk.compacting
    <2>1. CASE MessageStart
      <3>1. sdk.message + 1 \in 0 .. MaxMessages /\ sdk.message + 1 > sdk.message
        BY <2>1, Fields, Bounds DEF MessageStart
      <3>2. sdk'.message = sdk.message + 1 /\ sdk'.streams = TRUE
        BY <2>1 DEF MessageStart, Told, Shape, SdkState
      <3>3. streaming' = [streaming EXCEPT !.current = sdk.message + 1] /\ ~sdk.compacting
        BY <2>1 DEF MessageStart
      <3>4. sdk.message <= sdk.message + 1
        BY Fields
      <3> QED BY <3>1, <3>2, <3>3, <3>4
    <2>2. CASE MessageStop
      <3>1. sdk'.message = sdk.message /\ sdk'.streams = FALSE
        BY <2>2 DEF MessageStop, Told, Shape, SdkState
      <3>2. streaming' = [streaming EXCEPT !.current = 0] /\ 0 \in 0 .. MaxMessages
        BY <2>2, Bounds DEF MessageStop
      <3>3. sdk.message \in 0 .. MaxMessages /\ sdk.message <= sdk.message
        BY Fields
      <3> QED BY <3>1, <3>2, <3>3
    <2> QED BY <2>1, <2>2
  <1>3. /\ sdk' \in SdkState
        /\ sdk'.blocks = sdk.blocks \/ sdk'.blocks = <<>>
        /\ sdk'.open = sdk.open /\ sdk'.running = sdk.running /\ sdk'.compacting = sdk.compacting
        /\ sdk'.turn = sdk.turn
    <2>1. CASE MessageStart
      <3>1. sdk.message + 1 \in 0 .. MaxMessages
        BY <2>1, Fields, Bounds DEF MessageStart
      <3>2. <<>> \in Seq([key : TextKeys \cup Tools, kind : {"text", "tool"}, text : Nat, result : {Unsettled}])
        OBVIOUS
      <3> QED BY <2>1, <3>1, <3>2 DEF MessageStart, Told, Shape, SdkState
    <2>2. CASE MessageStop
      BY <2>2 DEF MessageStop, Told, Shape, SdkState
    <2> QED BY <2>1, <2>2
  <1>4. /\ streaming' \in Streaming /\ streaming'.appended = streaming.appended
        /\ streaming'.pending = streaming.pending /\ streaming'.summary = streaming.summary
    BY <1>2 DEF Told, Shape, Streaming
  <1>5. Shape'
    BY <1>1, <1>3, <1>4 DEF Told, Shape
  <1>6. ~Opened'
    BY <1>1, <1>3 DEF Opened
  <1>7. StreamsNewest'
    <2>1. streaming'.current = current
      BY <1>2 DEF Told, Shape, Streaming
    <2>2. sdk.message \in Nat
      BY Fields
    <2> QED BY <1>2, <1>6, <2>1, <2>2, Bounds DEF StreamsNewest
  <1>k. Keys' = Keys
    BY <1>1, QuietIs
  <1>8. TextsPassed'
    <2> SUFFICES ASSUME NEW key \in Keys \cap TextKeys
                 PROVE  key[1] <= sdk'.message /\ (sdk'.streams => key[1] # sdk'.message)
      BY <1>k DEF TextsPassed
    <2>1. key[1] <= sdk.message /\ key[1] \in Nat
      BY Bounds DEF Told, TextsPassed, TextKeys
    <2>2. sdk.message \in Nat
      BY Fields
    <2> QED BY <1>2, <2>1, <2>2
  <1>9. SummaryIsNew'
    <2>1. sdk.compacting => ~sdk'.streams
      BY <1>2
    <2> QED BY <1>1, <1>3, <1>4, <1>k, <2>1 DEF Told, SummaryIsNew
  <1> QED BY <1>1, <1>3, <1>4, <1>5, <1>6, <1>7, <1>8, <1>9, QuietGoes

LEMMA InterruptGoes ==
    ASSUME Told, Interrupt
    PROVE  Goes
  <1>1. /\ UNCHANGED <<settled, commands, cloud, streaming>>
        /\ ~sdk.compacting /\ upsets < MaxUpsets /\ upsets' = upsets + 1
        /\ sdk' = [sdk EXCEPT !.turn = FALSE, !.streams = FALSE, !.open = NoBlock, !.running = {}]
        /\ cut \subseteq cut' /\ (Opened => sdk.open.key \in cut')
    BY DEF Interrupt, client, Opened
  <1>2. upsets \in Nat /\ upsets' \in 0 .. MaxUpsets
    BY <1>1, Fields, Bounds
  <1>3. /\ sdk' \in SdkState
        /\ sdk'.message = sdk.message /\ sdk'.streams = FALSE /\ sdk'.blocks = sdk.blocks
        /\ sdk'.open = NoBlock /\ sdk'.running = {} /\ sdk'.compacting = sdk.compacting
    BY <1>1 DEF Told, Shape, SdkState
  <1>4. Shape'
    BY <1>1, <1>2, <1>3 DEF Told, Shape
  <1>5. ~Opened' /\ StreamsNewest'
    BY <1>3 DEF Opened, StreamsNewest
  <1>k. Keys' = Keys
    BY <1>1, QuietIs
  <1>6. TextsPassed'
    BY <1>3, <1>k DEF Told, TextsPassed
  <1>7. SummaryIsNew'
    BY <1>1, <1>2, <1>3, <1>k DEF Told, SummaryIsNew
  <1> QED BY <1>1, <1>3, <1>4, <1>5, <1>6, <1>7, QuietGoes

LEMMA BoundaryGoes ==
    ASSUME Told, CompactBoundary
    PROVE  Goes
  <1>1. /\ UNCHANGED <<settled, commands, cut>>
        /\ sdk.turn /\ ~sdk.streams /\ sdk.running = {}
        /\ upsets < MaxUpsets /\ upsets' = upsets + 1
        /\ sdk' = [sdk EXCEPT !.compacting = TRUE]
        /\ streaming' = [streaming EXCEPT !.summary = TRUE]
        /\ disk' = <<UserLine(<<Summary, upsets + 1>>)>>
    BY DEF CompactBoundary, client
  <1>2. cloud' = cloud
    BY DEF CompactBoundary, Forward, Forwarded
  <1>3. upsets \in Nat /\ upsets' \in 0 .. MaxUpsets /\ upsets' \in 1 .. MaxUpsets
    BY <1>1, Fields, Bounds
  <1>4. /\ sdk' \in SdkState
        /\ sdk'.message = sdk.message /\ sdk'.streams = sdk.streams /\ sdk'.blocks = sdk.blocks
        /\ sdk'.open = sdk.open /\ sdk'.running = sdk.running /\ sdk'.compacting /\ sdk'.turn = sdk.turn
    BY <1>1 DEF Told, Shape, SdkState
  <1>5. /\ streaming' \in Streaming /\ streaming'.appended = streaming.appended
        /\ streaming'.pending = streaming.pending /\ streaming'.summary
        /\ streaming'.current = streaming.current
    BY <1>1 DEF Told, Shape, Streaming
  <1>6. Shape'
    BY <1>1, <1>3, <1>4, <1>5 DEF Told, Shape
  <1>7. StreamsNewest'
    BY <1>4, <1>5 DEF Told, StreamsNewest, Opened
  <1>k. Keys' = Keys
    BY <1>1, QuietIs
  <1>8. TextsPassed'
    BY <1>4, <1>k DEF Told, TextsPassed, Opened
  <1>9. SummaryIsNew'
    <2>1. \A k \in 1 .. MaxUpsets : <<Summary, k>> \in Keys' => k <= upsets'
      BY <1>1, <1>3, <1>k DEF Told, SummaryIsNew
    <2>2. <<Summary, upsets'>> \notin Keys'
      BY <1>1, <1>3, <1>k DEF Told, SummaryIsNew
    <2>3. upsets' \in 1 .. upsets'
      BY <1>3
    <2>4. disk' = <<UserLine(<<Summary, upsets'>>)>>
      BY <1>1
    <2>5. \E k \in 1 .. upsets' : disk' = <<UserLine(<<Summary, k>>)>> /\ <<Summary, k>> \notin Keys'
      BY <2>2, <2>3, <2>4
    <2> QED BY <1>1, <1>4, <1>5, <2>1, <2>5 DEF SummaryIsNew, UserLine, UserItem
  <1> QED BY <1>1, <1>2, <1>4, <1>5, <1>6, <1>7, <1>8, <1>9, QuietGoes DEF Opened

-----------------------------------------------------------------------------
(* Steps that append an item.                                              *)

LEMMA AppendedGoes ==
    ASSUME Told, NEW it \in Item, it.key \notin Keys,
           it.kind = "tool" <=> it.key \in Tools, it.kind = "text" <=> it.key \in TextKeys,
           it.text = 0, it.result = Unsettled, settled' = Append(settled, it),
           sdk' \in SdkState, streaming' \in Streaming, upsets' = upsets, cut' = cut,
           commands' \in [Prompts -> {"idle", "sent", "orphan", "done", "refused"}],
           StreamsNewest',
           \A key \in (Keys \cup {it.key}) \cap TextKeys :
              /\ key[1] <= sdk'.message
              /\ sdk'.streams /\ key[1] = sdk'.message
                    => key[2] <= Len(sdk'.blocks) \/ (Opened' /\ key = sdk'.open.key),
           \/ ~Opened' \/ sdk'.open.key = it.key
           \/ Opened /\ sdk'.open.key = sdk.open.key /\ it.kind # "text",
           streaming.appended \subseteq streaming'.appended,
           it.key \in Tools => it.key \in streaming'.appended,
           streaming'.pending \subseteq streaming.pending \cup {it.key},
           sdk'.running \subseteq streaming'.pending,
           \A i \in DOMAIN sdk'.blocks :
              /\ sdk'.blocks[i].key \in Keys \cup {it.key}
              /\ sdk'.blocks[i].kind = "tool" => sdk'.blocks[i].key \in streaming'.appended,
           \A p \in Prompts : commands[p] = "done" => commands'[p] = "done",
           it.key \in Prompts => commands'[it.key] = "done",
           SummaryIsNew',
           cloud \subseteq cloud', it.key \in cloud' \/ (Opened' /\ it.key = sdk'.open.key),
           Opened => Opened' /\ sdk'.open.key = sdk.open.key,
           cloud' \subseteq cloud \cup Keys \cup {it.key},
           \A p \in Theirs : commands[p] \in {"orphan", "refused"} =>
              p = it.key \/ commands'[p] \in {"orphan", "refused"}
    PROVE  Goes
  <1>0. Shape /\ Sorted /\ OnceEach
    BY DEF Told
  <1>1. /\ settled' \in Seq(Item) /\ Sorted' /\ OnceEach' /\ Keys' = Keys \cup {it.key}
        /\ Len(settled) + 1 \notin DOMAIN settled
        /\ DOMAIN settled' = DOMAIN settled \cup {Len(settled) + 1}
        /\ \A j \in DOMAIN settled : settled'[j] = settled[j] /\ j < Len(settled) + 1
        /\ settled'[Len(settled) + 1] = it
        /\ Abstract!Next
    BY <1>0, Appending
  <1>o. Outputs' = Outputs
    BY <1>0, OutputsStay
  <1>n. PICK n : n = Len(settled) + 1
    OBVIOUS
  <1>2. Shape'
    BY <1>1, Fields DEF Shape
  <1>3. TextsPassed'
    BY <1>1 DEF TextsPassed
  <1>4. OpenIsLast'
    <2>1. CASE Opened' /\ sdk'.open.key = it.key
      <3>1. \A j \in DOMAIN settled' : j = n \/ j < n
        BY <1>1, <1>n
      <3>2. n \in Nat
        BY <1>n, Fields
      <3>3. \A j \in DOMAIN settled' : ~(j > n)
        <4>1. DOMAIN settled' \subseteq Nat
          BY <1>1
        <4> QED BY <3>1, <3>2, <4>1
      <3> QED BY <1>1, <1>n, <2>1, <3>3 DEF OpenIsLast
    <2>2. CASE Opened /\ sdk'.open.key = sdk.open.key /\ it.kind # "text"
      <3>1. PICK i \in DOMAIN settled : /\ settled[i].key = sdk.open.key
                                        /\ \A j \in DOMAIN settled : j > i => settled[j].kind # "text"
        BY <2>2 DEF Told, OpenIsLast
      <3>2. i \in DOMAIN settled' /\ settled'[i].key = sdk'.open.key
        BY <1>1, <2>2, <3>1
      <3>3. \A j \in DOMAIN settled' : j > i => settled'[j].kind # "text"
        BY <1>1, <2>2, <3>1
      <3> QED BY <3>2, <3>3 DEF OpenIsLast
    <2> QED BY <2>1, <2>2 DEF OpenIsLast
  <1>5. CallsKnown'
    <2>1. Keys' \cap Tools \subseteq streaming'.appended
      BY <1>1 DEF Told, CallsKnown
    <2>2. \A t \in streaming'.pending :
             \E i \in DOMAIN settled' : settled'[i].key = t /\ settled'[i].result = Unsettled
      <3> SUFFICES ASSUME NEW t \in streaming'.pending
                   PROVE  \E i \in DOMAIN settled' : settled'[i].key = t /\ settled'[i].result = Unsettled
        OBVIOUS
      <3>1. CASE t \in streaming.pending
        <4>1. PICK i \in DOMAIN settled : settled[i].key = t /\ settled[i].result = Unsettled
          BY <3>1 DEF Told, CallsKnown
        <4> QED BY <1>1, <4>1
      <3>2. CASE t = it.key
        BY <1>1, <3>2
      <3> QED BY <3>1, <3>2
    <2> QED BY <1>1, <2>1, <2>2 DEF CallsKnown
  <1>6. PromptsDone'
    BY <1>1 DEF Told, PromptsDone
  <1>7. CloudHas'
    <2>1. \A i \in DOMAIN settled' : \/ settled'[i].key \in cloud' \cup cut'
                                     \/ Opened' /\ settled'[i].key = sdk'.open.key
      BY <1>1 DEF Told, CloudHas
    <2>2. \A i \in DOMAIN settled' :
             settled'[i].kind = "tool" /\ settled'[i].result # Unsettled => ResultKey(settled'[i].key) \in cloud'
      <3> SUFFICES ASSUME NEW i \in DOMAIN settled', settled'[i].kind = "tool", settled'[i].result # Unsettled
                   PROVE  ResultKey(settled'[i].key) \in cloud'
        OBVIOUS
      <3>1. i \in DOMAIN settled /\ settled'[i] = settled[i]
        BY <1>1
      <3>2. ResultKey(settled[i].key) \in cloud
        BY <3>1 DEF Told, CloudHas
      <3> QED BY <3>1, <3>2
    <2>3. cloud' \subseteq Keys' \cup Outputs' \cup {p \in Theirs : commands'[p] \in {"orphan", "refused"}}
      BY <1>1, <1>o DEF Told, CloudHas
    <2> QED BY <2>1, <2>2, <2>3 DEF CloudHas, ResultKey
  <1> QED BY <1>1, <1>2, <1>3, <1>4, <1>5, <1>6, <1>7 DEF Told, Goes

LEMMA SummaryStays ==
    ASSUME Told, NEW key \in Prompts \cup Tools \cup TextKeys, Keys' \subseteq Keys \cup {key},
           upsets' = upsets, sdk'.compacting = sdk.compacting, streaming'.summary = streaming.summary,
           sdk.compacting => disk' = disk /\ sdk'.turn /\ ~sdk'.streams /\ sdk'.running = {}
    PROVE  SummaryIsNew'
  <1>1. \A k \in Nat : <<Summary, k>> # key
    BY KeysApart
  <1>2. \A k \in 1 .. MaxUpsets : <<Summary, k>> \in Keys' => <<Summary, k>> \in Keys
    BY <1>1, Bounds
  <1>3. \A k \in 1 .. upsets : <<Summary, k>> \in Keys' => <<Summary, k>> \in Keys
    <2>1. upsets \in Nat
      BY Fields
    <2> QED BY <1>1, <2>1
  <1> QED BY <1>2, <1>3 DEF Told, SummaryIsNew

LEMMA AppendIs ==
    ASSUME NEW it
    PROVE  Fold(settled, AppendDelta(it)) = Append(settled, it)
  BY DEF Fold, AppendDelta

LEMMA PushGoes ==
    ASSUME Told, NEW p \in Prompts, Push(p)
    PROVE  Goes
  <1>1. /\ UNCHANGED <<disk, streaming, upsets, cut>>
        /\ commands[p] # "done" /\ commands' = [commands EXCEPT ![p] = "done"]
        /\ sdk' = [sdk EXCEPT !.queue = Append(@, p)]
        /\ cloud' = cloud \cup {p}
    BY DEF Push, Forward, Forwarded
  <1>2. PICK it \in Item : it = UserItem(p)
    BY UserItemIs
  <1>3. /\ it.key = p /\ it.kind = "user" /\ it.text = 0 /\ it.result = Unsettled
        /\ p \notin Tools \cup TextKeys
    BY <1>2, UserItemIs
  <1>4. settled' = Append(settled, it)
    BY <1>2, AppendIs DEF Push
  <1>5. commands' \in [Prompts -> {"idle", "sent", "orphan", "done", "refused"}] /\ commands'[p] = "done"
        /\ \A q \in Prompts : q # p => commands'[q] = commands[q]
    BY <1>1 DEF Told, Shape
  <1>6. /\ sdk' \in SdkState
        /\ sdk'.message = sdk.message /\ sdk'.streams = sdk.streams /\ sdk'.blocks = sdk.blocks
        /\ sdk'.open = sdk.open /\ sdk'.running = sdk.running /\ sdk'.compacting = sdk.compacting
        /\ sdk'.turn = sdk.turn
    <2>1. PICK queue \in Seq(Prompts) : sdk' = [sdk EXCEPT !.queue = queue]
      <3>1. Append(sdk.queue, p) \in Seq(Prompts)
        BY Fields
      <3> QED BY <1>1, <3>1
    <2> QED BY <2>1 DEF Told, Shape, SdkState
  <1>7. p \notin Keys
    BY <1>1 DEF Told, PromptsDone
  <1>8. StreamsNewest'
    BY <1>1, <1>6 DEF Told, StreamsNewest, Opened
  <1>9. Opened' = Opened
    BY <1>6 DEF Opened
  <1>10. SummaryIsNew'
    <2>1. Keys' = Keys \cup {p}
      BY <1>3, <1>4, <1>7, Appending DEF Told
    <2> QED BY <1>1, <1>6, <2>1, SummaryStays DEF Told, SummaryIsNew
  <1>11. \A key \in (Keys \cup {it.key}) \cap TextKeys :
              /\ key[1] <= sdk'.message
              /\ sdk'.streams /\ key[1] = sdk'.message
                    => key[2] <= Len(sdk'.blocks) \/ (Opened' /\ key = sdk'.open.key)
    BY <1>3, <1>6, <1>9 DEF Told, TextsPassed
  <1>12. /\ sdk'.running \subseteq streaming'.pending
         /\ \A i \in DOMAIN sdk'.blocks :
               /\ sdk'.blocks[i].key \in Keys \cup {it.key}
               /\ sdk'.blocks[i].kind = "tool" => sdk'.blocks[i].key \in streaming'.appended
    BY <1>1, <1>6 DEF Told, CallsKnown
  <1>13. streaming' \in Streaming
    BY <1>1 DEF Told, Shape
  <1>14. Theirs \subseteq Prompts
    BY DEF Prompts
  <1> QED BY <1>1, <1>3, <1>4, <1>5, <1>6, <1>7, <1>8, <1>9, <1>10, <1>11, <1>12, <1>13, <1>14, AppendedGoes

LEMMA SummaryGoes ==
    ASSUME Told, CompactSummary
    PROVE  Goes
  <1>1. /\ UNCHANGED <<disk, commands, upsets, cut>>
        /\ sdk.compacting /\ streaming.summary
        /\ sdk' = [sdk EXCEPT !.compacting = FALSE]
        /\ streaming' = [streaming EXCEPT !.summary = FALSE]
        /\ cloud' = cloud \cup {SummaryKey}
    BY DEF CompactSummary, Forward, Forwarded, history, Told, SummaryIsNew
  <1>2. PICK k \in 1 .. upsets : disk = <<UserLine(<<Summary, k>>)>> /\ <<Summary, k>> \notin Keys
    BY <1>1 DEF Told, SummaryIsNew
  <1>3. k \in 1 .. MaxUpsets /\ upsets \in Nat /\ k <= upsets
    BY Fields, Bounds
  <1>4. PICK key \in {Summary} \X (1 .. MaxUpsets) : key = <<Summary, k>>
    BY <1>3
  <1>5. SummaryKey = key
    BY <1>2, <1>4 DEF SummaryKey, UserLine, UserItem
  <1>6. PICK it \in Item : it = UserItem(key)
    BY UserItemIs
  <1>7. /\ it.key = key /\ it.kind = "user" /\ it.text = 0 /\ it.result = Unsettled
        /\ key \notin Tools \cup TextKeys /\ key \notin Prompts
    BY <1>3, <1>4, <1>6, UserItemIs, KeysApart
  <1>8. settled' = Append(settled, it)
    <2>1. Emit(<<AppendDelta(it)>>)
      BY <1>1, <1>5, <1>6 DEF CompactSummary
    <2> QED BY <2>1, AppendIs, EmitIs
  <1>9. /\ sdk' \in SdkState
        /\ sdk'.message = sdk.message /\ sdk'.streams = sdk.streams /\ sdk'.blocks = sdk.blocks
        /\ sdk'.open = sdk.open /\ sdk'.running = sdk.running /\ sdk'.compacting = FALSE
    BY <1>1 DEF Told, Shape, SdkState
  <1>10. /\ streaming' \in Streaming /\ streaming'.appended = streaming.appended
         /\ streaming'.pending = streaming.pending /\ streaming'.summary = FALSE
         /\ streaming'.current = streaming.current
    BY <1>1 DEF Told, Shape, Streaming
  <1>11. StreamsNewest'
    BY <1>9, <1>10 DEF Told, StreamsNewest, Opened
  <1>12. Opened' = Opened
    BY <1>9 DEF Opened
  <1>13. \A x \in (Keys \cup {it.key}) \cap TextKeys :
              /\ x[1] <= sdk'.message
              /\ sdk'.streams /\ x[1] = sdk'.message
                    => x[2] <= Len(sdk'.blocks) \/ (Opened' /\ x = sdk'.open.key)
    BY <1>7, <1>9, <1>12 DEF Told, TextsPassed
  <1>14. /\ sdk'.running \subseteq streaming'.pending
         /\ \A i \in DOMAIN sdk'.blocks :
               /\ sdk'.blocks[i].key \in Keys \cup {it.key}
               /\ sdk'.blocks[i].kind = "tool" => sdk'.blocks[i].key \in streaming'.appended
    BY <1>9, <1>10 DEF Told, CallsKnown
  <1>15. SummaryIsNew'
    <2>1. Keys' = Keys \cup {key}
      <3>1. Shape /\ Sorted /\ OnceEach /\ it.key \notin Keys
        BY <1>2, <1>4, <1>7 DEF Told
      <3>2. (it.kind = "tool" <=> it.key \in Tools) /\ (it.kind = "text" <=> it.key \in TextKeys)
        BY <1>7
      <3>3. Keys' = Keys \cup {it.key}
        BY <1>7, <1>8, <3>1, <3>2, Appending
      <3> QED BY <1>7, <3>3
    <2>2. \A j \in 1 .. MaxUpsets : <<Summary, j>> = key => j <= upsets
      BY <1>3, <1>4
    <2>3. \A j \in 1 .. MaxUpsets : <<Summary, j>> \in Keys' => j <= upsets'
      BY <1>1, <2>1, <2>2 DEF Told, SummaryIsNew
    <2> QED BY <1>9, <1>10, <2>3 DEF SummaryIsNew
  <1>16. commands' \in [Prompts -> {"idle", "sent", "orphan", "done", "refused"}]
    BY <1>1 DEF Told, Shape
  <1>17. key \notin Keys
    BY <1>2, <1>4
  <1> QED BY <1>1, <1>5, <1>7, <1>8, <1>9, <1>10, <1>11, <1>12, <1>13, <1>14, <1>15, <1>16, <1>17,
             AppendedGoes

\* The block that comes next is not an item yet.
LEMMA NextBlock ==
    ASSUME Told, sdk.streams, sdk.open = NoBlock, Len(sdk.blocks) < MaxBlocks
    PROVE  /\ Key(NextIndex) = <<sdk.message, Len(sdk.blocks) + 1>>
           /\ Key(NextIndex) \in TextKeys /\ Key(NextIndex) \notin Keys
  <1>1. Key(NextIndex) = <<sdk.message, Len(sdk.blocks) + 1>>
    BY DEF Key, NextIndex, Told, StreamsNewest
  <1>2. sdk.message \in 1 .. MaxMessages
    BY DEF Told, StreamsNewest
  <1>3. Len(sdk.blocks) \in Nat
    BY Fields
  <1>4. Len(sdk.blocks) + 1 \in 1 .. MaxBlocks
    BY <1>3, Bounds
  <1>5. Key(NextIndex) \in TextKeys
    BY <1>1, <1>2, <1>4 DEF TextKeys
  <1>6. ~(Len(sdk.blocks) + 1 <= Len(sdk.blocks))
    BY <1>3
  <1>7. Key(NextIndex) \notin Keys
    BY <1>1, <1>5, <1>6 DEF Told, TextsPassed, Opened
  <1> QED BY <1>1, <1>5, <1>7

LEMMA TextStartGoes ==
    ASSUME Told, TextStart
    PROVE  Goes
  <1>1. /\ UNCHANGED <<disk, commands, upsets, cloud, cut>>
        /\ sdk.streams /\ sdk.open = NoBlock /\ Len(sdk.blocks) < MaxBlocks
        /\ sdk' = [sdk EXCEPT !.open = TextItem(Key(NextIndex), 0)]
        /\ streaming' = [streaming EXCEPT !.texts = @ \cup {Key(NextIndex)}]
        /\ Emit(<<AppendDelta(TextItem(Key(NextIndex), 0))>>)
    BY DEF TextStart, history
  <1>2. PICK key \in TextKeys : key = Key(NextIndex)
    BY <1>1, NextBlock
  <1>3. key \notin Keys /\ key = <<sdk.message, Len(sdk.blocks) + 1>>
    BY <1>1, <1>2, NextBlock
  <1>4. PICK it \in Item : it = TextItem(key, 0)
    BY TextItemIs
  <1>5. /\ it.key = key /\ it.kind = "text" /\ it.text = 0 /\ it.result = Unsettled
        /\ key \notin Prompts \cup Tools /\ it # NoBlock
        /\ it \in [key : TextKeys, kind : {"text"}, text : Nat, result : {Unsettled}]
    BY <1>4, TextItemIs
  <1>6. settled' = Append(settled, it)
    BY <1>1, <1>2, <1>4, AppendIs, EmitIs
  <1>7. sdk' = [sdk EXCEPT !.open = it]
    BY <1>1, <1>2, <1>4
  <1>8. /\ sdk' \in SdkState
        /\ sdk'.message = sdk.message /\ sdk'.streams = sdk.streams /\ sdk'.blocks = sdk.blocks
        /\ sdk'.open = it /\ sdk'.running = sdk.running /\ sdk'.compacting = sdk.compacting
        /\ sdk'.turn = sdk.turn
    BY <1>5, <1>7 DEF Told, Shape, SdkState
  <1>9. /\ streaming' \in Streaming /\ streaming'.appended = streaming.appended
        /\ streaming'.pending = streaming.pending /\ streaming'.summary = streaming.summary
        /\ streaming'.current = streaming.current
    <2>1. PICK texts \in SUBSET TextKeys : streaming' = [streaming EXCEPT !.texts = texts]
      BY <1>1, <1>2, Fields
    <2> QED BY <2>1 DEF Told, Shape, Streaming
  <1>10. ~Opened /\ Opened'
    BY <1>1, <1>5, <1>8 DEF Opened
  <1>11. StreamsNewest'
    <2>1. sdk'.open = TextItem(<<sdk'.message, Len(sdk'.blocks) + 1>>, sdk'.open.text)
      BY <1>3, <1>4, <1>5, <1>8
    <2>2. sdk'.streams /\ sdk'.message \in 1 .. MaxMessages /\ streaming'.current = sdk'.message
      BY <1>1, <1>8, <1>9 DEF Told, StreamsNewest
    <2>3. Len(sdk'.blocks) < MaxBlocks /\ sdk'.open.text \in Nat
      BY <1>1, <1>5, <1>8
    <2> QED BY <2>1, <2>2, <2>3 DEF StreamsNewest
  <1>12. \A x \in (Keys \cup {it.key}) \cap TextKeys :
              /\ x[1] <= sdk'.message
              /\ sdk'.streams /\ x[1] = sdk'.message
                    => x[2] <= Len(sdk'.blocks) \/ (Opened' /\ x = sdk'.open.key)
    <2>1. key[1] <= sdk.message
      BY <1>3, Fields
    <2> QED BY <1>1, <1>5, <1>8, <1>10, <2>1 DEF Told, TextsPassed
  <1>13. /\ sdk'.running \subseteq streaming'.pending
         /\ \A i \in DOMAIN sdk'.blocks :
               /\ sdk'.blocks[i].key \in Keys \cup {it.key}
               /\ sdk'.blocks[i].kind = "tool" => sdk'.blocks[i].key \in streaming'.appended
    BY <1>8, <1>9 DEF Told, CallsKnown
  <1>14. SummaryIsNew'
    <2>1. Keys' = Keys \cup {key}
      BY <1>3, <1>5, <1>6, Appending DEF Told
    <2> QED BY <1>1, <1>8, <1>9, <2>1, SummaryStays DEF Told, SummaryIsNew
  <1>15. commands' \in [Prompts -> {"idle", "sent", "orphan", "done", "refused"}]
    BY <1>1 DEF Told, Shape
  <1> QED BY <1>1, <1>3, <1>5, <1>6, <1>8, <1>9, <1>10, <1>11, <1>12, <1>13, <1>14, <1>15, AppendedGoes

-----------------------------------------------------------------------------
(* Steps that patch an item, or leave them all.                            *)

LEMMA TextDeltaGoes ==
    ASSUME Told, TextDelta
    PROVE  Goes
  <1>1. /\ UNCHANGED <<disk, streaming, commands, upsets, cloud, cut>>
        /\ Opened /\ sdk' = [sdk EXCEPT !.open.text = @ + 1]
        /\ Emit(IF Key(NextIndex) \in streaming.texts THEN <<PatchText(Key(NextIndex))>> ELSE <<>>)
    BY DEF TextDelta, history, Opened
  <1>2. /\ sdk.streams /\ sdk.message \in 1 .. MaxMessages /\ streaming.current = sdk.message
        /\ sdk.open = TextItem(<<sdk.message, Len(sdk.blocks) + 1>>, sdk.open.text)
        /\ Len(sdk.blocks) < MaxBlocks /\ sdk.open.text \in Nat
    BY <1>1 DEF Told, StreamsNewest
  <1>3. PICK key : key = sdk.open.key
    OBVIOUS
  <1>4. key \in TextKeys /\ Key(NextIndex) = key
    <2>1. key = <<sdk.message, Len(sdk.blocks) + 1>>
      BY <1>2, <1>3 DEF TextItem
    <2>2. sdk.open \in [key : TextKeys, kind : {"text"}, text : Nat, result : {Unsettled}]
      BY <1>1, Fields DEF Opened
    <2> QED BY <1>2, <1>3, <2>1, <2>2 DEF Key, NextIndex
  <1>5. PICK i \in DOMAIN settled : /\ settled[i].key = key
                                    /\ \A j \in DOMAIN settled : j > i => settled[j].kind # "text"
    BY <1>1, <1>3 DEF Told, OpenIsLast
  <1>6. /\ settled' \in Seq(Item) /\ Sorted' /\ OnceEach' /\ Keys' = Keys /\ Outputs' = Outputs
        /\ DOMAIN settled' = DOMAIN settled
        /\ \A j \in DOMAIN settled : /\ settled'[j].key = settled[j].key
                                     /\ settled'[j].kind = settled[j].kind
                                     /\ settled'[j].result = settled[j].result
        /\ [Abstract!Next]_settled
    <2>1. CASE key \in streaming.texts
      <3>1. settled' = Fold(settled, PatchText(settled[i].key))
        BY <1>1, <1>4, <1>5, <2>1, EmitIs
      <3>2. settled[i].kind = "text"
        BY <1>4, <1>5 DEF Told, Sorted
      <3> QED BY <1>5, <3>1, <3>2, TextPatched DEF Told
    <2>2. CASE key \notin streaming.texts
      <3>1. settled' = settled
        BY <1>1, <1>4, <2>2, EmitIs
      <3> QED BY <3>1, QuietIs, Fields
    <2> QED BY <2>1, <2>2
  <1>7. PICK open : open = sdk'.open
    OBVIOUS
  <1>8. /\ sdk' \in SdkState
        /\ sdk'.message = sdk.message /\ sdk'.streams = sdk.streams /\ sdk'.blocks = sdk.blocks
        /\ sdk'.running = sdk.running /\ sdk'.compacting = sdk.compacting /\ sdk'.turn = sdk.turn
        /\ open = TextItem(key, sdk.open.text + 1)
    <2>1. PICK o : o = [sdk.open EXCEPT !.text = @ + 1]
      OBVIOUS
    <2>2. o = TextItem(key, sdk.open.text + 1)
      BY <1>2, <1>3, <2>1 DEF TextItem
    <2>3. o \in [key : TextKeys, kind : {"text"}, text : Nat, result : {Unsettled}]
      BY <1>2, <1>4, <2>2, TextItemIs
    <2>4. sdk' = [sdk EXCEPT !.open = o]
      BY <1>1, <2>1
    <2>5. sdk'.open = o
      BY <2>4 DEF Told, Shape, SdkState
    <2>6. /\ sdk' \in SdkState
          /\ sdk'.message = sdk.message /\ sdk'.streams = sdk.streams /\ sdk'.blocks = sdk.blocks
          /\ sdk'.running = sdk.running /\ sdk'.compacting = sdk.compacting /\ sdk'.turn = sdk.turn
      BY <2>3, <2>4 DEF Told, Shape, SdkState
    <2> QED BY <1>7, <2>2, <2>5, <2>6
  <1>9. open # NoBlock /\ open.key = key /\ open.text \in Nat /\ open = TextItem(key, open.text)
    BY <1>2, <1>4, <1>8, TextItemIs
  <1>10. Opened'
    BY <1>7, <1>9 DEF Opened
  <1>11. Shape'
    BY <1>1, <1>6, <1>8 DEF Told, Shape
  <1>12. StreamsNewest'
    <2>1. key = <<sdk.message, Len(sdk.blocks) + 1>>
      BY <1>2, <1>3 DEF TextItem
    <2> QED BY <1>1, <1>2, <1>7, <1>8, <1>9, <2>1 DEF StreamsNewest
  <1>13. TextsPassed'
    BY <1>1, <1>3, <1>6, <1>7, <1>8, <1>9, <1>10 DEF Told, TextsPassed
  <1>14. OpenIsLast'
    BY <1>5, <1>6, <1>7, <1>9 DEF OpenIsLast
  <1>15. CallsKnown'
    BY <1>1, <1>6, <1>8 DEF Told, CallsKnown
  <1>16. PromptsDone'
    BY <1>1, <1>6 DEF Told, PromptsDone
  <1>17. SummaryIsNew'
    BY <1>1, <1>6, <1>8 DEF Told, SummaryIsNew
  <1>18. CloudHas'
    BY <1>1, <1>3, <1>6, <1>7, <1>9, <1>10 DEF Told, CloudHas
  <1> QED BY <1>6, <1>11, <1>12, <1>13, <1>14, <1>15, <1>16, <1>17, <1>18 DEF Told, Goes

-----------------------------------------------------------------------------
(* The end of a block, and of a call.                                      *)

\* An envelope with the block that has ended has it, and blocks known before.
LEMMA Envelope ==
    ASSUME NEW S, NEW old \in Seq(S), NEW x \in S, NEW from \in {1, Len(old) + 1}
    PROVE  /\ x \in Range(SubSeq(Append(old, x), from, Len(old) + 1))
           /\ \A b \in Range(SubSeq(Append(old, x), from, Len(old) + 1)) :
                 b = x \/ \E i \in DOMAIN old : b = old[i]
  <1>0. Len(old) \in Nat
    OBVIOUS
  <1>1. PICK n \in Nat : n = Len(old)
    BY <1>0
  <1>a. Append(old, x) \in Seq(S)
    OBVIOUS
  <1>2. PICK all \in Seq(S) : all = Append(old, x)
    BY <1>a
  <1>3. Len(all) = n + 1 /\ all[n + 1] = x /\ \A i \in 1 .. n : i \in DOMAIN old /\ all[i] = old[i]
    BY <1>1, <1>2
  <1>4. from \in 1 .. (n + 1)
    BY <1>1
  <1>5. PICK new : new = SubSeq(all, from, n + 1)
    OBVIOUS
  <1>6. new = [i \in 1 .. (n + 1 - from + 1) |-> all[i + from - 1]]
    BY <1>3, <1>4, <1>5, SubSeqProperties
  <1>7. n + 1 - from + 1 \in DOMAIN new /\ new[n + 1 - from + 1] = all[n + 1]
    BY <1>4, <1>6
  <1>8. \A j \in DOMAIN new : \E i \in 1 .. (n + 1) : new[j] = all[i]
    <2> SUFFICES ASSUME NEW j \in DOMAIN new
                 PROVE  \E i \in 1 .. (n + 1) : new[j] = all[i]
      OBVIOUS
    <2>1. j + from - 1 \in 1 .. (n + 1) /\ new[j] = all[j + from - 1]
      BY <1>4, <1>6
    <2> QED BY <2>1
  <1>9. \A i \in 1 .. (n + 1) : i = n + 1 \/ i \in 1 .. n
    OBVIOUS
  <1>10. x \in Range(new)
    BY <1>3, <1>7 DEF Range
  <1>11. \A b \in Range(new) : b = x \/ \E i \in DOMAIN old : b = old[i]
    BY <1>3, <1>8, <1>9 DEF Range
  <1> QED BY <1>1, <1>2, <1>5, <1>10, <1>11

LEMMA HandledIs ==
    ASSUME Told, NEW block, NEW from \in {1, NextIndex},
           block \in [key : TextKeys \cup Tools, kind : {"text", "tool"}, text : Nat, result : {Unsettled}],
           HandleAssistant(SubSeq(Append(sdk.blocks, block), from, NextIndex))
    PROVE  /\ cloud \subseteq cloud' /\ block.key \in cloud' /\ cloud' \subseteq cloud \cup Keys \cup {block.key}
           /\ block.kind = "text" => /\ Emit(<<>>) /\ settled' = settled
                                     /\ streaming' = [streaming EXCEPT !.appended = @ \cup {}, !.pending = @ \cup {}]
           /\ block.kind = "tool" /\ block.key \notin streaming.appended =>
                 /\ Emit(<<AppendDelta(ToolItem(block.key, Unsettled))>>)
                 /\ settled' = Append(settled, ToolItem(block.key, Unsettled))
                 /\ streaming' = [streaming EXCEPT !.appended = @ \cup {block.key}, !.pending = @ \cup {block.key}]
  <1>1. PICK blocks : blocks = SubSeq(Append(sdk.blocks, block), from, NextIndex)
    OBVIOUS
  <1>2. /\ block \in Range(blocks)
        /\ \A b \in Range(blocks) : b = block \/ \E i \in DOMAIN sdk.blocks : b = sdk.blocks[i]
    <2>1. PICK S : S = [key : TextKeys \cup Tools, kind : {"text", "tool"}, text : Nat, result : {Unsettled}]
      OBVIOUS
    <2>2. block \in S /\ sdk.blocks \in Seq(S) /\ NextIndex = Len(sdk.blocks) + 1
      BY <2>1, Fields DEF NextIndex
    <2> QED BY <1>1, <2>2, Envelope
  <1>3. \A i \in DOMAIN sdk.blocks : /\ sdk.blocks[i].key \in Keys
                                     /\ sdk.blocks[i].kind = "tool" => sdk.blocks[i].key \in streaming.appended
    BY DEF Told, CallsKnown
  <1>4. cloud' = cloud \cup {b.key : b \in Range(blocks)}
    BY <1>1 DEF HandleAssistant, Forward, Forwarded
  <1>5. PICK new : new = NewCalls(blocks)
    OBVIOUS
  <1>6. \A t : t \in new <=> \E b \in Range(blocks) : b.kind = "tool" /\ b.key = t /\ t \notin streaming.appended
    BY <1>5 DEF NewCalls
  <1>7. /\ streaming' = [streaming EXCEPT !.appended = @ \cup new, !.pending = @ \cup new]
        /\ Emit(SetToSeq({AppendDelta(ToolItem(t, Unsettled)) : t \in new}))
    BY <1>1, <1>5 DEF HandleAssistant
  <1>8. CASE block.kind = "text"
    <2>1. new = {}
      BY <1>2, <1>3, <1>6, <1>8
    <2>2. {AppendDelta(ToolItem(t, Unsettled)) : t \in new} = {}
      BY <2>1
    <2>3. Emit(<<>>)
      BY <1>7, <2>2, SetToSeqNone
    <2>4. settled' = settled
      BY <2>3, EmitIs
    <2> QED BY <1>2, <1>3, <1>4, <1>7, <1>8, <2>1, <2>3, <2>4
  <1>9. CASE block.kind = "tool" /\ block.key \notin streaming.appended
    <2>1. \A t : t \in new <=> t = block.key
      BY <1>2, <1>3, <1>6, <1>9
    <2>2. new = {block.key}
      BY <2>1
    <2>3. {AppendDelta(ToolItem(t, Unsettled)) : t \in new} = {AppendDelta(ToolItem(block.key, Unsettled))}
      BY <2>2
    <2>4. Emit(<<AppendDelta(ToolItem(block.key, Unsettled))>>)
      BY <1>7, <2>3, SetToSeqOne
    <2>5. settled' = Append(settled, ToolItem(block.key, Unsettled))
      BY <2>4, EmitIs, AppendIs
    <2> QED BY <1>2, <1>3, <1>4, <1>7, <1>9, <2>2, <2>4, <2>5
  <1> QED BY <1>2, <1>3, <1>4, <1>8, <1>9

LEMMA TextStopGoes ==
    ASSUME Told, TextStop
    PROVE  Goes
  <1>1. PICK block : block = sdk.open
    OBVIOUS
  <1>2. /\ Opened /\ UNCHANGED <<commands, upsets, cut>>
        /\ sdk' = [sdk EXCEPT !.open = NoBlock, !.blocks = Append(@, block),
                              !.running = IF block.kind = "tool" THEN @ \cup {block.key} ELSE @]
    BY <1>1 DEF TextStop, BlockStop, history, Opened
  <1>3. PICK from \in {1, NextIndex} : HandleAssistant(SubSeq(Append(sdk.blocks, block), from, NextIndex))
    BY <1>1 DEF TextStop, BlockStop
  <1>4. /\ sdk.streams /\ sdk.message \in 1 .. MaxMessages /\ streaming.current = sdk.message
        /\ sdk.open = TextItem(<<sdk.message, Len(sdk.blocks) + 1>>, sdk.open.text)
        /\ Len(sdk.blocks) < MaxBlocks
    BY <1>2 DEF Told, StreamsNewest
  <1>5. block \in [key : TextKeys, kind : {"text"}, text : Nat, result : {Unsettled}]
    BY <1>1, <1>2, Fields DEF Opened
  <1>6. /\ block.kind = "text" /\ block.key \in TextKeys /\ block.key[1] = sdk.message
        /\ block.key[2] = Len(sdk.blocks) + 1
        /\ block \in [key : TextKeys \cup Tools, kind : {"text", "tool"}, text : Nat, result : {Unsettled}]
    <2>1. block.key = <<sdk.message, Len(sdk.blocks) + 1>>
      BY <1>1, <1>4 DEF TextItem
    <2>2. block \in [key : TextKeys \cup Tools, kind : {"text", "tool"}, text : Nat, result : {Unsettled}]
      BY <1>5
    <2> QED BY <1>5, <2>1, <2>2
  <1>7. /\ cloud \subseteq cloud' /\ block.key \in cloud' /\ cloud' \subseteq cloud \cup Keys \cup {block.key}
        /\ settled' = settled
        /\ streaming' = [streaming EXCEPT !.appended = @ \cup {}, !.pending = @ \cup {}]
    BY <1>3, <1>6, HandledIs
  <1>8. streaming' = streaming
    <2>1. streaming.appended \cup {} = streaming.appended /\ streaming.pending \cup {} = streaming.pending
      OBVIOUS
    <2>2. streaming' = [streaming EXCEPT !.appended = streaming.appended, !.pending = streaming.pending]
      BY <1>7, <2>1
    <2> QED BY <2>2 DEF Told, Shape, Streaming
  <1>9. /\ sdk' \in SdkState
        /\ sdk'.message = sdk.message /\ sdk'.streams = sdk.streams /\ sdk'.blocks = Append(sdk.blocks, block)
        /\ sdk'.open = NoBlock /\ sdk'.running = sdk.running /\ sdk'.compacting = sdk.compacting
        /\ sdk'.turn = sdk.turn
    <2>1. PICK blocks : blocks = Append(sdk.blocks, block)
      OBVIOUS
    <2>2. blocks \in Seq([key : TextKeys \cup Tools, kind : {"text", "tool"}, text : Nat, result : {Unsettled}])
      BY <1>6, <2>1, Fields
    <2>3. sdk' = [sdk EXCEPT !.open = NoBlock, !.blocks = blocks, !.running = sdk.running]
      BY <1>2, <1>6, <2>1
    <2> QED BY <2>1, <2>2, <2>3 DEF Told, Shape, SdkState
  <1>10. ~Opened' /\ Opened
    BY <1>2, <1>9 DEF Opened
  <1>11. /\ Len(sdk'.blocks) = Len(sdk.blocks) + 1 /\ Len(sdk.blocks) \in Nat
         /\ \A i \in DOMAIN sdk'.blocks : sdk'.blocks[i] = block \/ (i \in DOMAIN sdk.blocks /\ sdk'.blocks[i] = sdk.blocks[i])
    BY <1>9, Fields
  <1>12. Shape'
    BY <1>2, <1>7, <1>8, <1>9 DEF Told, Shape
  <1>13. StreamsNewest'
    BY <1>4, <1>8, <1>9, <1>10 DEF StreamsNewest
  <1>k. Keys' = Keys /\ block.key \in Keys
    <2>1. \E i \in DOMAIN settled : settled[i].key = block.key
      BY <1>1, <1>2 DEF Told, OpenIsLast
    <2> QED BY <1>7, <2>1, QuietIs DEF Keys
  <1>14. TextsPassed'
    <2> SUFFICES ASSUME NEW key \in Keys \cap TextKeys
                 PROVE  key[1] <= sdk.message /\ (sdk.streams /\ key[1] = sdk.message => key[2] <= Len(sdk.blocks) + 1)
      BY <1>9, <1>11, <1>k DEF TextsPassed
    <2>1. key[2] \in Nat
      BY Bounds DEF TextKeys
    <2> QED BY <1>1, <1>6, <1>11, <2>1 DEF Told, TextsPassed
  <1>15. SummaryIsNew'
    BY <1>2, <1>4, <1>8, <1>9, <1>k DEF Told, SummaryIsNew
  <1>16. \A i \in DOMAIN sdk'.blocks : /\ sdk'.blocks[i].key \in Keys
                                       /\ sdk'.blocks[i].kind = "tool" => sdk'.blocks[i].key \in streaming.appended
    BY <1>6, <1>11, <1>k DEF Told, CallsKnown
  <1>17. cloud' \subseteq cloud \cup Keys /\ cut \subseteq cut'
    BY <1>2, <1>7, <1>k
  <1> QED BY <1>1, <1>2, <1>7, <1>8, <1>9, <1>10, <1>12, <1>13, <1>14, <1>15, <1>16, <1>17, QuietGoes

LEMMA ToolUseGoes ==
    ASSUME Told, NEW t \in Tools, ToolUse(t)
    PROVE  Goes
  <1>1. PICK it \in Item : it = ToolItem(t, Unsettled)
    BY ToolItemIs
  <1>2. /\ it.key = t /\ it.kind = "tool" /\ it.text = 0 /\ it.result = Unsettled
        /\ t \notin Prompts \cup TextKeys
    BY <1>1, ToolItemIs
  <1>3. /\ UNCHANGED <<commands, upsets, cut>> /\ t \notin streaming.appended
        /\ sdk.streams /\ ~Opened /\ Len(sdk.blocks) < MaxBlocks
        /\ sdk' = [sdk EXCEPT !.open = NoBlock, !.blocks = Append(@, it),
                              !.running = IF it.kind = "tool" THEN @ \cup {it.key} ELSE @]
    BY <1>1 DEF ToolUse, BlockStop, history, Opened, Used
  <1>4. PICK from \in {1, NextIndex} : HandleAssistant(SubSeq(Append(sdk.blocks, it), from, NextIndex))
    BY <1>1 DEF ToolUse, BlockStop
  <1>5. it \in [key : TextKeys \cup Tools, kind : {"text", "tool"}, text : Nat, result : {Unsettled}]
    BY <1>1 DEF ToolItem
  <1>6. /\ cloud \subseteq cloud' /\ t \in cloud' /\ cloud' \subseteq cloud \cup Keys \cup {t}
        /\ settled' = Append(settled, it)
        /\ streaming' = [streaming EXCEPT !.appended = @ \cup {t}, !.pending = @ \cup {t}]
    <2>1. it.key \notin streaming.appended /\ it = ToolItem(it.key, Unsettled)
      BY <1>1, <1>2, <1>3
    <2>2. /\ cloud \subseteq cloud' /\ it.key \in cloud' /\ cloud' \subseteq cloud \cup Keys \cup {it.key}
          /\ settled' = Append(settled, ToolItem(it.key, Unsettled))
          /\ streaming' = [streaming EXCEPT !.appended = @ \cup {it.key}, !.pending = @ \cup {it.key}]
      BY <1>2, <1>4, <1>5, <2>1, HandledIs
    <2> QED BY <1>2, <2>1, <2>2
  <1>7. /\ streaming' \in Streaming /\ streaming'.appended = streaming.appended \cup {t}
        /\ streaming'.pending = streaming.pending \cup {t} /\ streaming'.summary = streaming.summary
        /\ streaming'.current = streaming.current
    <2>1. PICK a \in SUBSET Tools, q \in SUBSET Tools : a = streaming.appended \cup {t} /\ q = streaming.pending \cup {t}
      BY Fields
    <2>2. streaming' = [streaming EXCEPT !.appended = a, !.pending = q]
      BY <1>6, <2>1
    <2> QED BY <2>1, <2>2 DEF Told, Shape, Streaming
  <1>8. /\ sdk' \in SdkState
        /\ sdk'.message = sdk.message /\ sdk'.streams = sdk.streams /\ sdk'.blocks = Append(sdk.blocks, it)
        /\ sdk'.open = NoBlock /\ sdk'.running = sdk.running \cup {t} /\ sdk'.compacting = sdk.compacting
        /\ sdk'.turn = sdk.turn
    <2>1. PICK blocks, running : blocks = Append(sdk.blocks, it) /\ running = sdk.running \cup {t}
      OBVIOUS
    <2>2. blocks \in Seq([key : TextKeys \cup Tools, kind : {"text", "tool"}, text : Nat, result : {Unsettled}])
          /\ running \subseteq Tools
      BY <1>5, <2>1, Fields
    <2>3. sdk' = [sdk EXCEPT !.open = NoBlock, !.blocks = blocks, !.running = running]
      BY <1>2, <1>3, <2>1
    <2> QED BY <2>1, <2>2, <2>3 DEF Told, Shape, SdkState
  <1>9. ~Opened'
    BY <1>8 DEF Opened
  <1>10. /\ Len(sdk'.blocks) = Len(sdk.blocks) + 1 /\ Len(sdk.blocks) \in Nat
         /\ \A i \in DOMAIN sdk'.blocks : sdk'.blocks[i] = it \/ (i \in DOMAIN sdk.blocks /\ sdk'.blocks[i] = sdk.blocks[i])
    BY <1>8, Fields
  <1>11. StreamsNewest'
    BY <1>3, <1>7, <1>8, <1>9 DEF Told, StreamsNewest
  <1>12. t \notin Keys
    BY <1>3 DEF Told, CallsKnown
  <1>13. \A x \in (Keys \cup {it.key}) \cap TextKeys :
              /\ x[1] <= sdk'.message
              /\ sdk'.streams /\ x[1] = sdk'.message
                    => x[2] <= Len(sdk'.blocks) \/ (Opened' /\ x = sdk'.open.key)
    <2> SUFFICES ASSUME NEW x \in Keys \cap TextKeys
                 PROVE  x[1] <= sdk.message /\ (sdk.streams /\ x[1] = sdk.message => x[2] <= Len(sdk.blocks) + 1)
      BY <1>2, <1>8, <1>10
    <2>1. x[2] \in Nat
      BY Bounds DEF TextKeys
    <2> QED BY <1>3, <1>10, <2>1 DEF Told, TextsPassed
  <1>14. /\ sdk'.running \subseteq streaming'.pending
         /\ \A i \in DOMAIN sdk'.blocks :
               /\ sdk'.blocks[i].key \in Keys \cup {it.key}
               /\ sdk'.blocks[i].kind = "tool" => sdk'.blocks[i].key \in streaming'.appended
    BY <1>2, <1>7, <1>8, <1>10 DEF Told, CallsKnown
  <1>15. SummaryIsNew'
    <2>1. Shape /\ Sorted /\ OnceEach
      BY DEF Told
    <2>2. (it.kind = "tool" <=> it.key \in Tools) /\ (it.kind = "text" <=> it.key \in TextKeys)
      BY <1>2
    <2>3. Keys' = Keys \cup {t}
      BY <1>2, <1>6, <1>12, <2>1, <2>2, Appending
    <2>4. ~sdk.compacting
      BY <1>3 DEF Told, SummaryIsNew
    <2> QED BY <1>3, <1>7, <1>8, <2>3, <2>4, SummaryStays
  <1>16. commands' \in [Prompts -> {"idle", "sent", "orphan", "done", "refused"}]
    BY <1>3 DEF Told, Shape
  <1>17. (it.kind = "tool" <=> it.key \in Tools) /\ (it.kind = "text" <=> it.key \in TextKeys)
    BY <1>2
  <1> QED BY <1>2, <1>3, <1>6, <1>7, <1>8, <1>9, <1>11, <1>12, <1>13, <1>14, <1>15, <1>16, <1>17, AppendedGoes

LEMMA ToolResultGoes ==
    ASSUME Told, NEW t \in Tools, ToolResult(t)
    PROVE  Goes
  <1>1. /\ UNCHANGED <<commands, upsets, cut>> /\ t \in sdk.running
        /\ sdk' = [sdk EXCEPT !.running = @ \ {t}]
        /\ cloud' = cloud \cup {ResultKey(t)}
    BY DEF ToolResult, Forward, Forwarded, history
  <1>2. ~streaming.summary /\ ~sdk.compacting /\ t \in streaming.pending
    BY <1>1 DEF Told, SummaryIsNew, CallsKnown
  <1>3. PICK return \in Returns : HandleUser(t, return)
    BY DEF ToolResult
  <1>4. PICK r \in Outcome : r = Completed(t, return) /\ r # Unsettled
    BY CompletedIs
  <1>5. /\ streaming' = [streaming EXCEPT !.pending = @ \ {t}]
        /\ settled' = Fold(settled, PatchTool(t, r))
    BY <1>2, <1>3, <1>4, EmitIs DEF HandleUser
  <1>6. PICK i \in DOMAIN settled : settled[i].key = t /\ settled[i].result = Unsettled
    BY <1>2 DEF Told, CallsKnown
  <1>7. settled[i].kind = "tool"
    BY <1>6 DEF Told, Sorted
  <1>8. /\ settled' \in Seq(Item) /\ Sorted' /\ OnceEach' /\ Keys' = Keys
        /\ Outputs' = Outputs \cup {ResultKey(t)}
        /\ DOMAIN settled' = DOMAIN settled
        /\ \A j \in DOMAIN settled : /\ settled'[j].key = settled[j].key
                                     /\ settled'[j].kind = settled[j].kind
                                     /\ j # i => settled'[j].result = settled[j].result
        /\ Abstract!Next
    BY <1>4, <1>5, <1>6, <1>7, CallPatched DEF Told
  <1>9. /\ sdk' \in SdkState
        /\ sdk'.message = sdk.message /\ sdk'.streams = sdk.streams /\ sdk'.blocks = sdk.blocks
        /\ sdk'.open = sdk.open /\ sdk'.running = sdk.running \ {t} /\ sdk'.compacting = sdk.compacting
        /\ sdk'.turn = sdk.turn
    BY <1>1 DEF Told, Shape, SdkState
  <1>10. /\ streaming' \in Streaming /\ streaming'.appended = streaming.appended
         /\ streaming'.pending = streaming.pending \ {t} /\ streaming'.summary = streaming.summary
         /\ streaming'.current = streaming.current
    BY <1>5 DEF Told, Shape, Streaming
  <1>11. Shape'
    BY <1>1, <1>8, <1>9, <1>10 DEF Told, Shape
  <1>o. Opened' = Opened
    BY <1>9 DEF Opened
  <1>12. StreamsNewest' /\ TextsPassed'
    BY <1>8, <1>9, <1>10, <1>o DEF Told, StreamsNewest, TextsPassed
  <1>13. OpenIsLast'
    BY <1>8, <1>9, <1>o DEF Told, OpenIsLast
  <1>14. CallsKnown'
    <2>1. \A u \in streaming'.pending :
             \E j \in DOMAIN settled' : settled'[j].key = u /\ settled'[j].result = Unsettled
      <3> SUFFICES ASSUME NEW u \in streaming'.pending
                   PROVE  \E j \in DOMAIN settled' : settled'[j].key = u /\ settled'[j].result = Unsettled
        OBVIOUS
      <3>1. u \in streaming.pending /\ u # t
        BY <1>10
      <3>2. PICK j \in DOMAIN settled : settled[j].key = u /\ settled[j].result = Unsettled
        BY <3>1 DEF Told, CallsKnown
      <3> QED BY <1>6, <1>8, <3>1, <3>2
    <2> QED BY <1>8, <1>9, <1>10, <2>1 DEF Told, CallsKnown
  <1>15. PromptsDone'
    BY <1>1, <1>8 DEF Told, PromptsDone
  <1>16. SummaryIsNew'
    BY <1>1, <1>2, <1>8, <1>9, <1>10 DEF Told, SummaryIsNew
  <1>17. CloudHas'
    <2>1. \A j \in DOMAIN settled' : \/ settled'[j].key \in cloud' \cup cut'
                                     \/ Opened' /\ settled'[j].key = sdk'.open.key
      BY <1>1, <1>8, <1>9, <1>o DEF Told, CloudHas
    <2>2. \A j \in DOMAIN settled' :
             settled'[j].kind = "tool" /\ settled'[j].result # Unsettled => ResultKey(settled'[j].key) \in cloud'
      <3> SUFFICES ASSUME NEW j \in DOMAIN settled', settled'[j].kind = "tool", settled'[j].result # Unsettled
                   PROVE  ResultKey(settled'[j].key) \in cloud'
        OBVIOUS
      <3>1. CASE j = i
        <4>1. settled'[j].key = t
          BY <1>6, <1>8, <3>1
        <4> QED BY <1>1, <4>1
      <3>2. CASE j # i
        <4>1. j \in DOMAIN settled /\ settled[j].kind = "tool" /\ settled[j].result # Unsettled
              /\ settled'[j].key = settled[j].key
          BY <1>8, <3>2
        <4>2. ResultKey(settled[j].key) \in cloud
          BY <4>1 DEF Told, CloudHas
        <4> QED BY <1>1, <4>1, <4>2
      <3> QED BY <3>1, <3>2
    <2>3. cloud' \subseteq Keys' \cup Outputs' \cup {p \in Theirs : commands'[p] \in {"orphan", "refused"}}
      BY <1>1, <1>8 DEF Told, CloudHas
    <2> QED BY <2>1, <2>2, <2>3 DEF CloudHas, ResultKey
  <1> QED BY <1>8, <1>11, <1>12, <1>13, <1>14, <1>15, <1>16, <1>17 DEF Told, Goes

-----------------------------------------------------------------------------
(* The theorems.                                                           *)

LEMMA ToldAtFirst == Init => Told
  <1> SUFFICES ASSUME Init PROVE Told
    OBVIOUS
  <1>1. settled = <<>> /\ DOMAIN settled = {} /\ Keys = {}
    BY DEF Init, Keys
  <1>2. streaming = [current |-> 0, texts |-> {}, appended |-> {}, pending |-> {}, summary |-> FALSE]
    BY DEF Init, NewStreamingState
  <1>3. sdk = [turn |-> FALSE, queue |-> <<>>, message |-> 0, streams |-> FALSE, blocks |-> <<>>,
               open |-> NoBlock, running |-> {}, compacting |-> FALSE]
    BY DEF Init
  <1>4. Shape
    <2>1. settled \in Seq(Item)
      BY <1>1
    <2>2. sdk \in SdkState
      BY <1>3, Bounds DEF SdkState
    <2>3. streaming \in Streaming
      BY <1>2, Bounds DEF Streaming
    <2> QED BY <2>1, <2>2, <2>3, Bounds DEF Init, Shape
  <1>5. Sorted /\ OnceEach /\ StreamsNewest /\ TextsPassed /\ OpenIsLast
    BY <1>1, <1>3 DEF Sorted, OnceEach, StreamsNewest, TextsPassed, OpenIsLast, Opened
  <1>6. CallsKnown /\ PromptsDone /\ SummaryIsNew
    BY <1>1, <1>2, <1>3 DEF CallsKnown, PromptsDone, SummaryIsNew
  <1>7. CloudHas
    BY <1>1 DEF CloudHas, Init
  <1> QED BY <1>4, <1>5, <1>6, <1>7 DEF Told

LEMMA ToldStays == Told /\ [Next]_vars => Goes
  <1> SUFFICES ASSUME Told, [Next]_vars PROVE Goes
    OBVIOUS
  <1>p. Mine \subseteq Prompts /\ Theirs \subseteq Prompts
    BY DEF Prompts
  <1>1. CASE Turn
    BY <1>1, TurnGoes, InterruptGoes, BoundaryGoes, SummaryGoes DEF Turn
  <1>2. CASE Stream
    BY <1>2, MessageGoes, TextStartGoes, TextDeltaGoes, TextStopGoes DEF Stream
  <1>3. CASE \E t \in Tools : Tool(t)
    BY <1>3, ToolUseGoes, ToolResultGoes DEF Tool
  <1>4. CASE \E p \in Prompts : Push(p) \/ Refuse(p)
    BY <1>4, PushGoes, CommandGoes
  <1>5. CASE (\E p \in Mine : Send(p)) \/ (\E p \in Theirs : Typed(p))
    BY <1>5, <1>p, CommandGoes
  <1>6. CASE Deliver \/ Connect \/ Answer \/ Drop
    BY <1>6, PhoneGoes, DropGoes
  <1>7. CASE UNCHANGED vars
    <2>1. UNCHANGED <<sdk, disk, streaming, settled, cut, upsets, commands, cloud>>
      BY <1>7 DEF vars, client, history
    <2>2. upsets \in 0 .. MaxUpsets /\ upsets <= upsets
      BY DEF Told, Shape
    <2> QED BY <2>1, <2>2, Elsewhere DEF Told, Shape
  <1> QED BY <1>1, <1>2, <1>3, <1>4, <1>5, <1>6, <1>7 DEF Next

\* No key is used again: what a snapshot, the stream of the SDK and the cloud
\* session know of each other (run-query.ts StreamingState).
THEOREM KeysOnce == Spec => []Told
  <1>1. Told /\ [Next]_vars => Told'
    BY ToldStays DEF Goes
  <1> QED BY <1>1, ToldAtFirst, PTL DEF Spec

\* The deltas of a query make a conversation: whatever is streamed, called,
\* interrupted or compacted, every step of the snapshot adds one new item at
\* the end, grows the last text, or settles one call once.
THEOREM Conversational == Spec => IsConversation
  <1>1. Init => Abstract!Init
    BY DEF Init, Abstract!Init
  <1>2. Told /\ [Next]_vars => [Abstract!Next]_settled
    BY ToldStays DEF Goes
  <1> QED BY <1>1, <1>2, KeysOnce, PTL DEF Spec, IsConversation, Abstract!Spec

\* The cloud session has all that is complete in the snapshot, outputs
\* included, and nothing that is not in it but a message that was not run.
THEOREM CloudComplete == Spec => []CloudShowsAll
  <1>1. Told => CloudShowsAll
    <2> SUFFICES ASSUME Told PROVE CloudShowsAll
      OBVIOUS
    <2>1. Complete \subseteq cloud
      BY DEF Told, CloudHas, Complete, Range, Opened
    <2>2. Outputs \subseteq cloud
      BY OutputsAre DEF Told, CloudHas
    <2> QED BY <2>1, <2>2 DEF Told, CloudHas, CloudShowsAll, Keys
  <1> QED BY <1>1, KeysOnce, PTL

-----------------------------------------------------------------------------
(* The phone: what it shows is the snapshot at its cursor, and the frames  *)
(* on their way to it lead to the newest (Shown). h is the history of the  *)
(* snapshot, event by event.                                               *)

Delta == [op : {"append", "patch_text", "patch_tool_call"}, item : Item]
Frame == [type : {"event"}, delta : Delta]
         \cup [type : {"subscribe.response"}, items : Seq(Item), cursor : Nat]
         \cup [type : {"sendPrompt.response"}, prompt : Prompts]
Rows == [item : Item, order : Nat]
PhoneState == [state : {"live", "away", "joining"}, cursor : Nat, synced : SUBSET Rows, overlay : SUBSET Rows]

Distinct(items) == \A i, j \in DOMAIN items : items[i].key = items[j].key => i = j

\* h: the snapshots that the events of ds have made, the last of them s.
Replays(h, ds, s) ==
    /\ h \in [0 .. Len(ds) -> Seq(Item)]
    /\ \A k \in 0 .. Len(ds) : Distinct(h[k])
    /\ \A k \in 1 .. Len(ds) : h[k] = Fold(h[k - 1], ds[k])
    /\ h[Len(ds)] = s

\* A frame takes the phone from one cursor to another.
Takes(frame, h, ds, m, n) ==
    \/ frame.type = "event" /\ n = m + 1 /\ frame.delta = ds[n]
    \/ frame.type = "subscribe.response" /\ frame.items = h[n] /\ frame.cursor = n
    \/ frame.type = "sendPrompt.response" /\ n = m

\* The frames take it from one cursor to another, by way of those in g.
Path(g, frames, h, ds, from, to) ==
    /\ g \in [0 .. Len(frames) -> 0 .. Len(ds)]
    /\ g[0] = from /\ g[Len(frames)] = to
    /\ \A i \in 1 .. Len(frames) : Takes(frames[i], h, ds, g[i - 1], g[i])
Leads(frames, h, ds, from, to) == \E g : Path(g, frames, h, ds, from, to)

Displays(items, rows) ==
    \E order \in [DOMAIN items -> Nat] : rows = {Row(items[i], order[i]) : i \in DOMAIN items}
InOrder(items, rows) == \A i \in DOMAIN items : Row(items[i], i - 1) \in rows

PhoneShape ==
    /\ log \in Seq(Delta) /\ wire \in Seq(Frame)
    /\ phone \in PhoneState /\ phone.cursor \in 0 .. Len(log)
    /\ IsFiniteSet(phone.overlay)

\* A prompt of its own that the phone shows was sent, and if it is the only
\* one not confirmed, it has the place after all that are.
Unconfirmed == KeysOf(phone.overlay) \ KeysOf(phone.synced)
Waiting ==
    /\ \A r \in phone.overlay : r.item.key \in Prompts /\ commands[r.item.key] # "idle"
    /\ ~crossed => \A r \in phone.overlay :
          Unconfirmed = {r.item.key} => r.order = Cardinality(KeysOf(phone.synced))

\* Who is not subscribed gets nothing but answers.
Answered == \A i \in 1 .. Len(wire) : wire[i].type = "sendPrompt.response"

Caught(h) ==
    /\ Replays(h, log, settled)
    /\ Displays(h[phone.cursor], phone.synced)
    /\ ~crossed => InOrder(h[phone.cursor], phone.synced)
    /\ phone.state = "live" => Leads(wire, h, log, phone.cursor, Len(log))
    /\ phone.state # "live" => Answered
Shown == PhoneShape /\ Waiting /\ \E h : Caught(h)

-----------------------------------------------------------------------------
(* Paths.                                                                  *)

LEMMA PathLonger ==
    ASSUME NEW frames \in Seq(Frame), NEW frame \in Frame, NEW h, NEW ds \in Seq(Delta), NEW from, NEW to,
           Leads(frames, h, ds, from, to), NEW n \in 0 .. Len(ds), Takes(frame, h, ds, to, n)
    PROVE  Leads(Append(frames, frame), h, ds, from, n)
  <1>1. PICK g : Path(g, frames, h, ds, from, to)
    BY DEF Leads
  <1>2. PICK len \in Nat : len = Len(frames)
    OBVIOUS
  <1>a. Append(frames, frame) \in Seq(Frame)
    OBVIOUS
  <1>3. PICK all \in Seq(Frame) : all = Append(frames, frame)
    BY <1>a
  <1>4. Len(all) = len + 1 /\ all[len + 1] = frame /\ \A i \in 1 .. len : all[i] = frames[i]
    BY <1>2, <1>3
  <1>5. PICK g2 : g2 = [i \in 0 .. (len + 1) |-> IF i = len + 1 THEN n ELSE g[i]]
    OBVIOUS
  <1>6. g \in [0 .. len -> 0 .. Len(ds)] /\ g[0] = from /\ g[len] = to
    BY <1>1, <1>2 DEF Path
  <1>7. g2 \in [0 .. (len + 1) -> 0 .. Len(ds)] /\ g2[len + 1] = n /\ \A i \in 0 .. len : g2[i] = g[i]
    BY <1>5, <1>6
  <1>8. g2[0] = from
    BY <1>6, <1>7
  <1>9. \A i \in 1 .. (len + 1) : Takes(all[i], h, ds, g2[i - 1], g2[i])
    <2> SUFFICES ASSUME NEW i \in 1 .. (len + 1)
                 PROVE  Takes(all[i], h, ds, g2[i - 1], g2[i])
      OBVIOUS
    <2>1. CASE i = len + 1
      <3>1. i - 1 = len /\ len \in 0 .. len
        BY <2>1
      <3>2. g2[i - 1] = to /\ g2[i] = n /\ all[i] = frame
        BY <1>4, <1>6, <1>7, <2>1, <3>1
      <3> QED BY <3>2
    <2>2. CASE i # len + 1
      <3>1. i \in 1 .. len /\ i \in 0 .. len /\ i - 1 \in 0 .. len
        BY <2>2
      <3>2. g2[i - 1] = g[i - 1] /\ g2[i] = g[i] /\ all[i] = frames[i]
        BY <1>4, <1>7, <3>1
      <3>3. Takes(frames[i], h, ds, g[i - 1], g[i])
        BY <1>1, <1>2, <3>1 DEF Path
      <3> QED BY <3>2, <3>3
    <2> QED BY <2>1, <2>2
  <1>10. Path(g2, all, h, ds, from, n)
    BY <1>4, <1>7, <1>8, <1>9 DEF Path
  <1> QED BY <1>3, <1>10 DEF Leads

LEMMA PathStays ==
    ASSUME NEW frames \in Seq(Frame), NEW h, NEW h2, NEW ds \in Seq(Delta), NEW ds2 \in Seq(Delta), NEW from, NEW to,
           Leads(frames, h, ds, from, to), Len(ds) <= Len(ds2),
           \A k \in 0 .. Len(ds) : h2[k] = h[k],
           \A k \in 1 .. Len(ds) : ds2[k] = ds[k]
    PROVE  Leads(frames, h2, ds2, from, to)
  <1>1. PICK g : Path(g, frames, h, ds, from, to)
    BY DEF Leads
  <1>2. PICK len \in Nat, n \in Nat, n2 \in Nat : len = Len(frames) /\ n = Len(ds) /\ n2 = Len(ds2)
    OBVIOUS
  <1>3. g \in [0 .. len -> 0 .. n] /\ g[0] = from /\ g[len] = to /\ n <= n2
    BY <1>1, <1>2 DEF Path
  <1>4. g \in [0 .. len -> 0 .. n2]
    BY <1>2, <1>3
  <1>5. \A i \in 1 .. len : Takes(frames[i], h2, ds2, g[i - 1], g[i])
    <2> SUFFICES ASSUME NEW i \in 1 .. len
                 PROVE  Takes(frames[i], h2, ds2, g[i - 1], g[i])
      OBVIOUS
    <2>1. Takes(frames[i], h, ds, g[i - 1], g[i])
      BY <1>1, <1>2 DEF Path
    <2>2. i \in 0 .. len /\ i - 1 \in 0 .. len
      OBVIOUS
    <2>3. g[i] \in 0 .. n /\ g[i - 1] \in 0 .. n
      BY <1>3, <2>2
    <2>4. h2[g[i]] = h[g[i]]
      BY <1>2, <2>3
    <2>5. g[i] = g[i - 1] + 1 => ds2[g[i]] = ds[g[i]]
      BY <1>2, <2>3
    <2> QED BY <2>1, <2>4, <2>5 DEF Takes
  <1> QED BY <1>1, <1>2, <1>3, <1>4, <1>5 DEF Path, Leads

LEMMA PathShorter ==
    ASSUME NEW frames \in Seq(Frame), frames # <<>>, NEW h, NEW ds \in Seq(Delta), NEW from, NEW to,
           Leads(frames, h, ds, from, to)
    PROVE  \E n \in 0 .. Len(ds) : Takes(Head(frames), h, ds, from, n) /\ Leads(Tail(frames), h, ds, n, to)
  <1>1. PICK g : Path(g, frames, h, ds, from, to)
    BY DEF Leads
  <1>2. PICK len \in Nat : len + 1 = Len(frames)
    <2>1. Len(frames) \in Nat /\ Len(frames) # 0
      OBVIOUS
    <2>2. Len(frames) - 1 \in Nat /\ (Len(frames) - 1) + 1 = Len(frames)
      BY <2>1
    <2> QED BY <2>2
  <1>a. Tail(frames) \in Seq(Frame)
    OBVIOUS
  <1>3. PICK rest \in Seq(Frame) : rest = Tail(frames)
    BY <1>a
  <1>4. Len(rest) = len /\ Head(frames) = frames[1] /\ \A i \in 1 .. len : rest[i] = frames[i + 1]
    BY <1>2, <1>3
  <1>5. g \in [0 .. (len + 1) -> 0 .. Len(ds)] /\ g[0] = from /\ g[len + 1] = to
    BY <1>1, <1>2 DEF Path
  <1>6. PICK g2 : g2 = [i \in 0 .. len |-> g[i + 1]]
    OBVIOUS
  <1>7. /\ g2 \in [0 .. len -> 0 .. Len(ds)] /\ g2[len] = to /\ g2[0] = g[1] /\ g[1] \in 0 .. Len(ds)
        /\ \A i \in 0 .. len : g2[i] = g[i + 1]
    BY <1>5, <1>6
  <1>8. Takes(Head(frames), h, ds, from, g[1])
    <2>1. 1 \in 1 .. (len + 1) /\ 1 - 1 = 0
      OBVIOUS
    <2>2. Takes(frames[1], h, ds, g[1 - 1], g[1])
      BY <1>1, <1>2, <2>1 DEF Path
    <2> QED BY <1>4, <1>5, <2>1, <2>2
  <1>9. \A i \in 1 .. len : Takes(rest[i], h, ds, g2[i - 1], g2[i])
    <2> SUFFICES ASSUME NEW i \in 1 .. len
                 PROVE  Takes(rest[i], h, ds, g2[i - 1], g2[i])
      OBVIOUS
    <2>1. i + 1 \in 1 .. (len + 1) /\ (i + 1) - 1 = i /\ i \in 0 .. len /\ i - 1 \in 0 .. len /\ (i - 1) + 1 = i
      OBVIOUS
    <2>2. Takes(frames[i + 1], h, ds, g[(i + 1) - 1], g[i + 1])
      BY <1>1, <1>2, <2>1 DEF Path
    <2>3. g2[i - 1] = g[i] /\ g2[i] = g[i + 1]
      BY <1>7, <2>1
    <2> QED BY <1>4, <2>1, <2>2, <2>3
  <1>10. Path(g2, rest, h, ds, g[1], to)
    BY <1>4, <1>7, <1>9 DEF Path
  <1> QED BY <1>3, <1>7, <1>8, <1>10 DEF Leads

\* The events past a cursor lead to the newest.
LEMMA PathReplays ==
    ASSUME NEW acks \in Seq(Frame), NEW h, NEW ds \in Seq(Delta), NEW from \in 0 .. Len(ds),
           \A i \in 1 .. Len(acks) : acks[i].type = "sendPrompt.response",
           NEW frames, frames = acks \o [i \in 1 .. (Len(ds) - from) |-> Event(ds[from + i])]
    PROVE  frames \in Seq(Frame) /\ Leads(frames, h, ds, from, Len(ds))
  <1>1. PICK len \in Nat, more \in Nat : len = Len(acks) /\ more = Len(ds) - from
    <2>1. Len(acks) \in Nat /\ Len(ds) \in Nat /\ Len(ds) - from \in Nat
      OBVIOUS
    <2> QED BY <2>1
  <1>2. PICK evs : evs = [i \in 1 .. more |-> Event(ds[from + i])]
    OBVIOUS
  <1>3. \A i \in 1 .. more : /\ ds[from + i] \in Delta /\ Event(ds[from + i]) \in Frame
                             /\ Event(ds[from + i]).type = "event" /\ Event(ds[from + i]).delta = ds[from + i]
    <2> SUFFICES ASSUME NEW i \in 1 .. more
                 PROVE  /\ ds[from + i] \in Delta /\ Event(ds[from + i]) \in Frame
                        /\ Event(ds[from + i]).type = "event" /\ Event(ds[from + i]).delta = ds[from + i]
      OBVIOUS
    <2>1. from + i \in 1 .. Len(ds)
      BY <1>1
    <2>2. PICK d \in Delta : d = ds[from + i]
      BY <2>1
    <2>3. Event(d) \in Frame /\ Event(d).type = "event" /\ Event(d).delta = d
      BY DEF Event, Frame
    <2> QED BY <2>2, <2>3
  <1>4. evs \in Seq(Frame) /\ Len(evs) = more
    <2>1. DOMAIN evs = 1 .. more /\ \A i \in 1 .. more : evs[i] \in Frame
      BY <1>2, <1>3
    <2>2. evs = [i \in 1 .. more |-> evs[i]]
      BY <1>2
    <2>3. evs \in [1 .. more -> Frame]
      BY <2>1, <2>2
    <2> QED BY <2>3
  <1>b. frames = acks \o evs
    BY <1>1, <1>2
  <1>5. /\ frames \in Seq(Frame) /\ Len(frames) = len + more
        /\ \A i \in 1 .. len : frames[i] = acks[i]
        /\ \A i \in 1 .. more : frames[len + i] = evs[i]
    <2>1. frames \in Seq(Frame) /\ Len(frames) = Len(acks) + Len(evs)
      BY <1>4, <1>b, ConcatProperties
    <2>2. \A i \in 1 .. Len(acks) + Len(evs) :
             frames[i] = IF i <= Len(acks) THEN acks[i] ELSE evs[i - Len(acks)]
      BY <1>4, <1>b, ConcatProperties
    <2>3. \A i \in 1 .. more : len + i \in 1 .. len + more /\ ~(len + i <= len) /\ (len + i) - len = i
      OBVIOUS
    <2>4. \A i \in 1 .. len : i \in 1 .. len + more /\ i <= len
      OBVIOUS
    <2> QED BY <1>1, <1>4, <2>1, <2>2, <2>3, <2>4
  <1>6. PICK g : g = [i \in 0 .. (len + more) |-> IF i <= len THEN from ELSE from + (i - len)]
    OBVIOUS
  <1>7. g \in [0 .. (len + more) -> 0 .. Len(ds)]
    <2>1. \A i \in 0 .. (len + more) : i > len => from + (i - len) \in 0 .. Len(ds)
      BY <1>1
    <2>2. \A i \in 0 .. (len + more) : g[i] \in 0 .. Len(ds)
      BY <1>6, <2>1
    <2>3. g = [i \in 0 .. (len + more) |-> g[i]]
      BY <1>6
    <2> QED BY <2>2, <2>3
  <1>8. g[0] = from /\ g[len + more] = Len(ds)
    BY <1>1, <1>6
  <1>9. \A i \in 1 .. (len + more) : Takes(frames[i], h, ds, g[i - 1], g[i])
    <2> SUFFICES ASSUME NEW i \in 1 .. (len + more)
                 PROVE  Takes(frames[i], h, ds, g[i - 1], g[i])
      OBVIOUS
    <2>1. CASE i <= len
      <3>1. i \in 1 .. len /\ i - 1 \in 0 .. len /\ i - 1 \in 0 .. (len + more) /\ i \in 0 .. (len + more)
        BY <2>1
      <3>2. g[i] = from /\ g[i - 1] = from /\ frames[i].type = "sendPrompt.response"
        BY <1>1, <1>5, <1>6, <3>1
      <3> QED BY <3>2 DEF Takes
    <2>2. CASE i > len
      <3>1. i - len \in 1 .. more /\ len + (i - len) = i /\ i - 1 \in 0 .. (len + more) /\ i \in 0 .. (len + more)
        BY <2>2
      <3>2. g[i] = from + (i - len) /\ g[i - 1] = from + (i - len) - 1
        <4>1. g[i] = from + (i - len)
          BY <1>6, <2>2, <3>1
        <4>2. CASE i - 1 <= len
          <5>1. g[i - 1] = from /\ i - len = 1
            BY <1>6, <2>2, <3>1, <4>2
          <5> QED BY <4>1, <5>1
        <4>3. CASE i - 1 > len
          <5>1. g[i - 1] = from + ((i - 1) - len)
            BY <1>6, <3>1, <4>3
          <5> QED BY <4>1, <5>1
        <4> QED BY <4>2, <4>3
      <3>3. frames[i].type = "event" /\ frames[i].delta = ds[from + (i - len)]
        <4>1. PICK j \in 1 .. more : j = i - len
          BY <3>1
        <4>2. frames[i] = evs[j] /\ evs[j] = Event(ds[from + j])
          BY <1>2, <1>5, <3>1, <4>1
        <4>3. Event(ds[from + j]).type = "event" /\ Event(ds[from + j]).delta = ds[from + j]
          BY <1>3
        <4> QED BY <4>1, <4>2, <4>3
      <3>4. g[i] = g[i - 1] + 1
        BY <1>1, <3>1, <3>2
      <3>5. frames[i].delta = ds[g[i]]
        BY <3>2, <3>3
      <3> QED BY <3>3, <3>4, <3>5 DEF Takes
    <2>3. i <= len \/ i > len
      OBVIOUS
    <2> QED BY <2>1, <2>2, <2>3, Zenon
  <1>10. Path(g, frames, h, ds, from, Len(ds))
    BY <1>5, <1>7, <1>8, <1>9 DEF Path
  <1> QED BY <1>5, <1>10 DEF Leads

-----------------------------------------------------------------------------
(* Rows.                                                                   *)

\* A displayed timeline has one row for each of its items.
LEMMA RowsCounted ==
    ASSUME NEW items \in Seq(Item), Distinct(items), NEW rows, Displays(items, rows)
    PROVE  /\ IsFiniteSet(rows) /\ Cardinality(rows) = Len(items)
           /\ KeysOf(rows) = {items[i].key : i \in DOMAIN items}
           /\ IsFiniteSet(KeysOf(rows)) /\ Cardinality(KeysOf(rows)) = Len(items)
           /\ rows \subseteq Rows
  <1>1. PICK n \in Nat : n = Len(items) /\ DOMAIN items = 1 .. n
    <2>1. Len(items) \in Nat /\ DOMAIN items = 1 .. Len(items)
      OBVIOUS
    <2> QED BY <2>1
  <1>2. PICK order \in [1 .. n -> Nat] : rows = {Row(items[i], order[i]) : i \in 1 .. n}
    BY <1>1 DEF Displays
  <1>3. PICK f : f = [i \in 1 .. n |-> Row(items[i], order[i])]
    OBVIOUS
  <1>4. PICK q : q = [i \in 1 .. n |-> items[i].key]
    OBVIOUS
  <1>5. \A i \in 1 .. n : /\ items[i] \in Item /\ Row(items[i], order[i]) \in Rows
                          /\ Row(items[i], order[i]).item = items[i]
    <2> SUFFICES ASSUME NEW i \in 1 .. n
                 PROVE  /\ items[i] \in Item /\ Row(items[i], order[i]) \in Rows
                        /\ Row(items[i], order[i]).item = items[i]
      OBVIOUS
    <2>1. items[i] \in Item /\ order[i] \in Nat
      BY <1>1, <1>2
    <2> QED BY <2>1 DEF Row, Rows
  <1>6. \A i, j \in 1 .. n : items[i].key = items[j].key => i = j
    BY <1>1 DEF Distinct
  <1>7. IsFiniteSet(1 .. n) /\ Cardinality(1 .. n) = n
    BY FS_Interval
  <1>8. IsFiniteSet(rows) /\ Cardinality(rows) = n
    <2>1. f \in Surjection(1 .. n, rows)
      BY <1>2, <1>3 DEF Surjection
    <2>2. \A i, j \in 1 .. n : f[i] = f[j] => i = j
      <3> SUFFICES ASSUME NEW i \in 1 .. n, NEW j \in 1 .. n, f[i] = f[j] PROVE i = j
        OBVIOUS
      <3>1. items[i] = items[j]
        BY <1>3, <1>5
      <3> QED BY <1>6, <3>1
    <2>3. f \in Injection(1 .. n, rows)
      BY <2>1, <2>2 DEF Surjection, Injection, IsInjective
    <2> QED BY <1>7, <2>1, <2>3, FS_Surjection
  <1>9. KeysOf(rows) = {items[i].key : i \in 1 .. n}
    <2>1. \A k : k \in KeysOf(rows) <=> \E r \in rows : k = r.item.key
      BY DEF KeysOf
    <2>2. \A k : k \in KeysOf(rows) <=> k \in {items[i].key : i \in 1 .. n}
      <3>1. \A i \in 1 .. n : items[i].key \in KeysOf(rows)
        <4> SUFFICES ASSUME NEW i \in 1 .. n PROVE items[i].key \in KeysOf(rows)
          OBVIOUS
        <4>1. PICK r \in rows : r = Row(items[i], order[i])
          BY <1>2
        <4>2. r.item = items[i]
          BY <1>5, <4>1
        <4> QED BY <2>1, <4>1, <4>2
      <3>2. \A r \in rows : \E i \in 1 .. n : r.item.key = items[i].key
        <4> SUFFICES ASSUME NEW r \in rows PROVE \E i \in 1 .. n : r.item.key = items[i].key
          OBVIOUS
        <4>1. PICK i \in 1 .. n : r = Row(items[i], order[i])
          BY <1>2
        <4> QED BY <1>5, <4>1
      <3>3. PICK keys : keys = {items[i].key : i \in 1 .. n}
        OBVIOUS
      <3>4. \A k : k \in keys <=> \E i \in 1 .. n : k = items[i].key
        BY <3>3
      <3>5. \A k : k \in KeysOf(rows) => k \in keys
        <4> SUFFICES ASSUME NEW r \in rows PROVE r.item.key \in keys
          BY <2>1
        <4> QED BY <3>2, <3>4
      <3>6. \A k : k \in keys => k \in KeysOf(rows)
        <4> SUFFICES ASSUME NEW i \in 1 .. n PROVE items[i].key \in KeysOf(rows)
          BY <3>4
        <4> QED BY <3>1
      <3> QED BY <3>3, <3>5, <3>6, Zenon
    <2> QED BY <2>2, Alike
  <1>10. IsFiniteSet(KeysOf(rows)) /\ Cardinality(KeysOf(rows)) = n
    <2>1. q \in Surjection(1 .. n, KeysOf(rows))
      BY <1>4, <1>9 DEF Surjection
    <2>2. \A i, j \in 1 .. n : q[i] = q[j] => i = j
      BY <1>4, <1>6
    <2>3. q \in Injection(1 .. n, KeysOf(rows))
      BY <2>1, <2>2 DEF Surjection, Injection, IsInjective
    <2> QED BY <1>7, <2>1, <2>3, FS_Surjection
  <1>11. rows \subseteq Rows
    BY <1>2, <1>5
  <1> QED BY <1>1, <1>8, <1>9, <1>10, <1>11

\* The places of an optimistic row: a number, and past the rows of the daemon
\* while there is no other.
LEMMA Sizes ==
    ASSUME Shown
    PROVE  /\ Size \in Nat
           /\ Unconfirmed = {} => Size = Cardinality(KeysOf(phone.synced))
  <1>1. PICK h : Caught(h)
    BY DEF Shown
  <1>2. h[phone.cursor] \in Seq(Item) /\ Distinct(h[phone.cursor])
    BY <1>1 DEF Shown, PhoneShape, Caught, Replays
  <1>3. IsFiniteSet(KeysOf(phone.synced))
    BY <1>1, <1>2, RowsCounted DEF Caught
  <1>4. IsFiniteSet(KeysOf(phone.overlay))
    <2>1. PICK f : f = [r \in phone.overlay |-> r.item.key]
      OBVIOUS
    <2>2. f \in Surjection(phone.overlay, KeysOf(phone.overlay))
      BY <2>1 DEF Surjection, KeysOf
    <2> QED BY <2>2, FS_Surjection DEF Shown, PhoneShape
  <1>5. KeysOf(phone.synced \cup phone.overlay) = KeysOf(phone.synced) \cup KeysOf(phone.overlay)
    BY DEF KeysOf
  <1>6. IsFiniteSet(KeysOf(phone.synced) \cup KeysOf(phone.overlay))
    BY <1>3, <1>4, FS_Union
  <1>7. Size \in Nat
    BY <1>5, <1>6, FS_CardinalityType DEF Size
  <1>8. Unconfirmed = {} => KeysOf(phone.synced) \cup KeysOf(phone.overlay) = KeysOf(phone.synced)
    BY DEF Unconfirmed
  <1> QED BY <1>5, <1>7, <1>8 DEF Size

-----------------------------------------------------------------------------
(* What the daemon emits.                                                  *)

LEMMA Emissions ==
    ASSUME PhoneShape
    PROVE  /\ Emit(<<>>) => log' = log /\ wire' = wire
           /\ \A d \in Delta : Emit(<<d>>) =>
                 /\ log' = Append(log, d)
                 /\ wire' = IF phone.state = "live" THEN Append(wire, Event(d)) ELSE wire
  <1>0. log \in Seq(Delta) /\ wire \in Seq(Frame)
    BY DEF PhoneShape
  <1>1. ASSUME Emit(<<>>) PROVE log' = log /\ wire' = wire
    <2>0. <<>> \in Seq(Delta)
      OBVIOUS
    <2>1. PICK ds \in Seq(Delta) : ds = <<>>
      BY <2>0
    <2>2. log \o ds = log
      BY <1>0, <2>1
    <2>3. [i \in DOMAIN ds |-> Event(ds[i])] = <<>>
      BY <2>1
    <2>4. wire \o <<>> = wire
      BY <1>0
    <2>5. log' = log \o ds
      BY <1>1, <2>1 DEF Emit
    <2>6. wire' = IF phone.state = "live" THEN wire \o [i \in DOMAIN ds |-> Event(ds[i])] ELSE wire
      BY <1>1, <2>1 DEF Emit
    <2> QED BY <2>2, <2>3, <2>4, <2>5, <2>6
  <1>2. ASSUME NEW d \in Delta, Emit(<<d>>)
        PROVE  /\ log' = Append(log, d)
               /\ wire' = IF phone.state = "live" THEN Append(wire, Event(d)) ELSE wire
    <2>0. <<d>> \in Seq(Delta)
      OBVIOUS
    <2>1. PICK ds \in Seq(Delta) : ds = <<d>>
      BY <2>0
    <2>2. log \o ds = Append(log, d)
      BY <1>0, <2>1
    <2>3. PICK ev \in Frame : ev = Event(d)
      BY DEF Event, Frame
    <2>4. [i \in DOMAIN ds |-> Event(ds[i])] = <<ev>>
      <3>1. DOMAIN ds = 1 .. 1 /\ \A i \in DOMAIN ds : ds[i] = d
        BY <2>1
      <3>2. \A i \in DOMAIN ds : Event(ds[i]) = ev
        BY <2>3, <3>1
      <3>3. [i \in DOMAIN ds |-> Event(ds[i])] = [i \in 1 .. 1 |-> ev]
        BY <3>1, <3>2
      <3> QED BY <3>3
    <2>5. wire \o <<ev>> = Append(wire, ev)
      BY <1>0
    <2>6. log' = log \o ds
      BY <1>2, <2>1 DEF Emit
    <2>7. wire' = IF phone.state = "live" THEN wire \o [i \in DOMAIN ds |-> Event(ds[i])] ELSE wire
      BY <1>2, <2>1 DEF Emit
    <2> QED BY <2>2, <2>3, <2>4, <2>5, <2>6, <2>7
  <1> QED BY <1>1, <1>2

LEMMA DeltasAre ==
    /\ \A it \in Item : AppendDelta(it) \in Delta
    /\ \A key \in TextKeys : PatchText(key) \in Delta
    /\ \A t \in Tools, r \in Outcome : PatchTool(t, r) \in Delta
  <1>1. \A it \in Item : AppendDelta(it) \in Delta
    BY DEF AppendDelta, Delta
  <1>2. \A key \in TextKeys : PatchText(key) \in Delta
    <2> SUFFICES ASSUME NEW key \in TextKeys PROVE PatchText(key) \in Delta
      OBVIOUS
    <2>1. PICK it \in Item : it = TextItem(key, 1)
      BY TextItemIs
    <2> QED BY <2>1 DEF PatchText, Delta
  <1>3. \A t \in Tools, r \in Outcome : PatchTool(t, r) \in Delta
    <2> SUFFICES ASSUME NEW t \in Tools, NEW r \in Outcome PROVE PatchTool(t, r) \in Delta
      OBVIOUS
    <2>1. PICK it \in Item : it = ToolItem(t, r)
      BY ToolItemIs
    <2> QED BY <2>1 DEF PatchTool, Delta
  <1> QED BY <1>1, <1>2, <1>3

\* Every step of the SDK emits no delta or one.
LEMMA SdkEmits ==
    ASSUME Told, Turn \/ Stream \/ \E t \in Tools : Tool(t)
    PROVE  /\ UNCHANGED <<phone, crossed, commands>>
           /\ \/ UNCHANGED <<settled, log, wire>>
              \/ Emit(<<>>)
              \/ \E d \in Delta : Emit(<<d>>)
  <1>1. CASE BeginTurn \/ TurnEnds \/ Interrupt \/ CompactBoundary \/ MessageStart \/ MessageStop
    BY <1>1 DEF BeginTurn, TurnEnds, Interrupt, CompactBoundary, MessageStart, MessageStop, client
  <1>2. CASE CompactSummary
    <2>1. PICK k \in 1 .. upsets : disk = <<UserLine(<<Summary, k>>)>>
      BY <1>2 DEF CompactSummary, Told, SummaryIsNew
    <2>2. k \in 1 .. MaxUpsets
      BY Fields, Bounds
    <2>3. SummaryKey \in {Summary} \X (1 .. MaxUpsets)
      BY <2>1, <2>2 DEF SummaryKey, UserLine, UserItem
    <2>4. AppendDelta(UserItem(SummaryKey)) \in Delta
      BY <2>3, UserItemIs, DeltasAre
    <2>5. Emit(IF streaming.summary THEN <<AppendDelta(UserItem(SummaryKey))>> ELSE <<>>)
          /\ UNCHANGED <<phone, crossed, commands>>
      BY <1>2 DEF CompactSummary
    <2> QED BY <2>4, <2>5
  <1>3. CASE TextStart
    <2>1. Key(NextIndex) \in TextKeys
      BY <1>3, NextBlock DEF TextStart
    <2>2. AppendDelta(TextItem(Key(NextIndex), 0)) \in Delta
      BY <2>1, TextItemIs, DeltasAre
    <2>3. Emit(<<AppendDelta(TextItem(Key(NextIndex), 0))>>) /\ UNCHANGED <<phone, crossed, commands>>
      BY <1>3 DEF TextStart
    <2> QED BY <2>2, <2>3
  <1>4. CASE TextDelta
    <2>1. Key(NextIndex) \in streaming.texts => PatchText(Key(NextIndex)) \in Delta
      BY Fields, DeltasAre
    <2>2. Emit(IF Key(NextIndex) \in streaming.texts THEN <<PatchText(Key(NextIndex))>> ELSE <<>>)
          /\ UNCHANGED <<phone, crossed, commands>>
      BY <1>4 DEF TextDelta
    <2> QED BY <2>1, <2>2
  <1>5. CASE TextStop
    <2>1. PICK block : block = sdk.open
      OBVIOUS
    <2>2. PICK from \in {1, NextIndex} : HandleAssistant(SubSeq(Append(sdk.blocks, block), from, NextIndex))
      BY <1>5, <2>1 DEF TextStop, BlockStop
    <2>3. block \in [key : TextKeys, kind : {"text"}, text : Nat, result : {Unsettled}]
      BY <1>5, <2>1, Fields DEF TextStop
    <2>4. block \in [key : TextKeys \cup Tools, kind : {"text", "tool"}, text : Nat, result : {Unsettled}]
          /\ block.kind = "text"
      BY <2>3
    <2>5. Emit(<<>>)
      BY <2>2, <2>4, HandledIs
    <2> QED BY <1>5, <2>5 DEF TextStop, BlockStop
  <1>6. CASE \E t \in Tools : ToolUse(t)
    <2>1. PICK t \in Tools : ToolUse(t)
      BY <1>6
    <2>2. PICK it \in Item : it = ToolItem(t, Unsettled)
      BY ToolItemIs
    <2>3. it.key = t /\ it.kind = "tool"
      BY <2>2, ToolItemIs
    <2>4. PICK from \in {1, NextIndex} : HandleAssistant(SubSeq(Append(sdk.blocks, it), from, NextIndex))
      BY <2>1, <2>2 DEF ToolUse, BlockStop
    <2>5. it \in [key : TextKeys \cup Tools, kind : {"text", "tool"}, text : Nat, result : {Unsettled}]
      BY <2>2 DEF ToolItem
    <2>6. it.key \notin streaming.appended
      BY <2>1, <2>3 DEF ToolUse, Used
    <2>7. Emit(<<AppendDelta(ToolItem(it.key, Unsettled))>>)
      BY <2>3, <2>4, <2>5, <2>6, HandledIs
    <2>8. AppendDelta(ToolItem(it.key, Unsettled)) \in Delta
      BY <2>2, <2>3, DeltasAre
    <2>9. UNCHANGED <<phone, crossed, commands>>
      BY <2>1 DEF ToolUse, BlockStop
    <2> QED BY <2>7, <2>8, <2>9
  <1>7. CASE \E t \in Tools : ToolResult(t)
    <2>1. PICK t \in Tools : ToolResult(t)
      BY <1>7
    <2>2. PICK return \in Returns : HandleUser(t, return)
      BY <2>1 DEF ToolResult
    <2>3. PatchTool(t, Completed(t, return)) \in Delta
      BY CompletedIs, DeltasAre
    <2>4. Emit(<<>>) \/ Emit(<<PatchTool(t, Completed(t, return))>>)
      BY <2>2 DEF HandleUser
    <2>5. UNCHANGED <<phone, crossed, commands>>
      BY <2>1 DEF ToolResult
    <2> QED BY <2>3, <2>4, <2>5
  <1> QED BY <1>1, <1>2, <1>3, <1>4, <1>5, <1>6, <1>7 DEF Turn, Stream, Tool

-----------------------------------------------------------------------------
(* Steps of the daemon, as the phone gets them.                            *)

\* An answer behind the frames moves no cursor.
LEMMA AckedPath ==
    ASSUME NEW w \in Seq(Frame), NEW w2, w2 = w \/ \E p \in Prompts : w2 = Append(w, Ack(p))
    PROVE  /\ w2 \in Seq(Frame)
           /\ \A h : \A ds \in Seq(Delta) : \A from : \A to \in 0 .. Len(ds) :
                 Leads(w, h, ds, from, to) => Leads(w2, h, ds, from, to)
           /\ (\A i \in 1 .. Len(w) : w[i].type = "sendPrompt.response")
                 => \A i \in 1 .. Len(w2) : w2[i].type = "sendPrompt.response"
  <1>1. CASE w2 = w
    BY <1>1
  <1>2. CASE \E p \in Prompts : w2 = Append(w, Ack(p))
    <2>1. PICK p \in Prompts : w2 = Append(w, Ack(p))
      BY <1>2
    <2>2. Ack(p) \in Frame /\ Ack(p).type = "sendPrompt.response"
      BY DEF Ack, Frame
    <2>3. PICK ack \in Frame : ack = Ack(p) /\ ack.type = "sendPrompt.response"
      BY <2>2
    <2>4. w2 \in Seq(Frame) /\ Len(w2) = Len(w) + 1 /\ w2[Len(w) + 1] = ack
          /\ \A i \in 1 .. Len(w) : w2[i] = w[i]
      BY <2>1, <2>3
    <2>5. ASSUME NEW h, NEW ds \in Seq(Delta), NEW from, NEW to \in 0 .. Len(ds), Leads(w, h, ds, from, to)
          PROVE  Leads(w2, h, ds, from, to)
      <3>1. Takes(ack, h, ds, to, to)
        BY <2>3 DEF Takes
      <3>2. Leads(Append(w, ack), h, ds, from, to)
        BY <2>5, <3>1, PathLonger
      <3> QED BY <2>1, <2>3, <3>2
    <2>6. ASSUME \A i \in 1 .. Len(w) : w[i].type = "sendPrompt.response"
          PROVE  \A i \in 1 .. Len(w2) : w2[i].type = "sendPrompt.response"
      <3>1. \A i \in 1 .. Len(w2) : i = Len(w) + 1 \/ i \in 1 .. Len(w)
        <4>1. Len(w) \in Nat
          OBVIOUS
        <4> QED BY <2>4, <4>1
      <3> QED BY <2>3, <2>4, <2>6, <3>1
    <2> QED BY <2>4, <2>5, <2>6
  <1> QED BY <1>1, <1>2

\* Nothing that a phone shows changes while the daemon says nothing.
LEMMA StillShown ==
    ASSUME Shown, UNCHANGED <<settled, log, phone, crossed>>,
           wire' = wire \/ \E p \in Prompts : wire' = Append(wire, Ack(p)),
           \A p \in Prompts : commands[p] # "idle" => commands'[p] # "idle"
    PROVE  Shown'
  <1>1. PICK h : Caught(h)
    BY DEF Shown
  <1>2. log \in Seq(Delta) /\ wire \in Seq(Frame) /\ Len(log) \in 0 .. Len(log)
    BY DEF Shown, PhoneShape
  <1>3. /\ wire' \in Seq(Frame)
        /\ Leads(wire, h, log, phone.cursor, Len(log)) => Leads(wire', h, log, phone.cursor, Len(log))
        /\ Answered => Answered'
    <2>1. PICK w : w = wire'
      OBVIOUS
    <2>2. w = wire \/ \E p \in Prompts : w = Append(wire, Ack(p))
      BY <2>1
    <2>3. /\ w \in Seq(Frame)
          /\ Leads(wire, h, log, phone.cursor, Len(log)) => Leads(w, h, log, phone.cursor, Len(log))
          /\ (\A i \in 1 .. Len(wire) : wire[i].type = "sendPrompt.response")
                => \A i \in 1 .. Len(w) : w[i].type = "sendPrompt.response"
      BY <1>2, <2>2, AckedPath
    <2> QED BY <2>1, <2>3 DEF Answered
  <1>4. PhoneShape'
    BY <1>3 DEF Shown, PhoneShape
  <1>5. Waiting'
    BY DEF Shown, Waiting, Unconfirmed, KeysOf
  <1>6. Caught(h)'
    BY <1>1, <1>3 DEF Caught
  <1> QED BY <1>4, <1>5, <1>6 DEF Shown

\* One more event: the history has one more snapshot, and a phone that is
\* subscribed one more frame.
LEMMA GrowthShown ==
    ASSUME Told, Told', Shown, NEW d \in Delta, settled' = Fold(settled, d), log' = Append(log, d),
           UNCHANGED <<phone, crossed>>,
           NEW w, w = (IF phone.state = "live" THEN Append(wire, Event(d)) ELSE wire),
           wire' = w \/ \E p \in Prompts : wire' = Append(w, Ack(p)),
           \A p \in Prompts : commands[p] # "idle" => commands'[p] # "idle"
    PROVE  Shown'
  <1>1. PICK h : Caught(h)
    BY DEF Shown
  <1>2. PICK n \in Nat : n = Len(log)
    <2>1. Len(log) \in Nat
      BY DEF Shown, PhoneShape
    <2> QED BY <2>1
  <1>3. log \in Seq(Delta) /\ wire \in Seq(Frame) /\ phone.cursor \in 0 .. n
    BY <1>2 DEF Shown, PhoneShape
  <1>4. PICK ds \in Seq(Delta) : ds = log'
    <2>1. Append(log, d) \in Seq(Delta)
      BY <1>3
    <2> QED BY <2>1
  <1>5. Len(ds) = n + 1 /\ ds[n + 1] = d /\ \A k \in 1 .. n : ds[k] = log[k]
    BY <1>2, <1>3, <1>4
  <1>6. PICK s : s = settled'
    OBVIOUS
  <1>7. s \in Seq(Item) /\ Distinct(s) /\ s = Fold(settled, d)
    BY <1>6 DEF Told, Shape, OnceEach, Distinct
  <1>8. PICK h2 : h2 = [k \in 0 .. (n + 1) |-> IF k = n + 1 THEN s ELSE h[k]]
    OBVIOUS
  <1>9. /\ h \in [0 .. n -> Seq(Item)] /\ h[n] = settled
        /\ \A k \in 0 .. n : Distinct(h[k])
        /\ \A k \in 1 .. n : h[k] = Fold(h[k - 1], log[k])
    BY <1>1, <1>2 DEF Caught, Replays
  <1>10. /\ h2 \in [0 .. (n + 1) -> Seq(Item)] /\ h2[n + 1] = s /\ \A k \in 0 .. n : h2[k] = h[k]
    BY <1>7, <1>8, <1>9
  <1>11. Replays(h2, ds, s)
    <2>1. \A k \in 0 .. (n + 1) : Distinct(h2[k])
      <3> SUFFICES ASSUME NEW k \in 0 .. (n + 1) PROVE Distinct(h2[k])
        OBVIOUS
      <3>1. k = n + 1 \/ k \in 0 .. n
        OBVIOUS
      <3>2. k = n + 1 => h2[k] = s
        BY <1>10
      <3>3. k \in 0 .. n => h2[k] = h[k] /\ Distinct(h[k])
        BY <1>9, <1>10
      <3> QED BY <1>7, <3>1, <3>2, <3>3
    <2>2. \A k \in 1 .. (n + 1) : h2[k] = Fold(h2[k - 1], ds[k])
      <3> SUFFICES ASSUME NEW k \in 1 .. (n + 1) PROVE h2[k] = Fold(h2[k - 1], ds[k])
        OBVIOUS
      <3>1. CASE k = n + 1
        <4>1. k - 1 = n /\ n \in 0 .. n
          BY <3>1
        <4>2. h2[k] = s /\ h2[k - 1] = settled /\ ds[k] = d
          BY <1>5, <1>9, <1>10, <3>1, <4>1
        <4> QED BY <1>7, <4>2
      <3>2. CASE k # n + 1
        <4>1. k \in 1 .. n /\ k \in 0 .. n /\ k - 1 \in 0 .. n
          BY <3>2
        <4>2. h2[k] = h[k] /\ h2[k - 1] = h[k - 1] /\ ds[k] = log[k]
          BY <1>5, <1>10, <4>1
        <4>3. h[k] = Fold(h[k - 1], log[k])
          BY <1>9, <4>1
        <4> QED BY <4>2, <4>3
      <3> QED BY <3>1, <3>2
    <2> QED BY <1>5, <1>10, <2>1, <2>2 DEF Replays
  <1>12. PICK ev \in Frame : ev = Event(d) /\ ev.type = "event" /\ ev.delta = d
    <2>1. Event(d) \in Frame /\ Event(d).type = "event" /\ Event(d).delta = d
      BY DEF Event, Frame
    <2> QED BY <2>1
  <1>13. w \in Seq(Frame)
    BY <1>3, <1>12
  <1>14. phone.state = "live" => Leads(w, h2, ds, phone.cursor, n + 1)
    <2> SUFFICES ASSUME phone.state = "live" PROVE Leads(w, h2, ds, phone.cursor, n + 1)
      OBVIOUS
    <2>1. Leads(wire, h, log, phone.cursor, n)
      BY <1>1, <1>2 DEF Caught
    <2>2. Leads(wire, h2, ds, phone.cursor, n)
      <3>1. Len(log) <= Len(ds)
        BY <1>2, <1>5
      <3>2. /\ \A k \in 0 .. Len(log) : h2[k] = h[k]
            /\ \A k \in 1 .. Len(log) : ds[k] = log[k]
        BY <1>2, <1>5, <1>10
      <3> QED BY <1>3, <2>1, <3>1, <3>2, PathStays
    <2>3. Takes(ev, h2, ds, n, n + 1)
      BY <1>5, <1>12 DEF Takes
    <2>4. n + 1 \in 0 .. Len(ds)
      BY <1>5
    <2>5. Leads(Append(wire, ev), h2, ds, phone.cursor, n + 1)
      BY <1>3, <2>2, <2>3, <2>4, PathLonger
    <2> QED BY <1>12, <2>5
  <1>15. /\ wire' \in Seq(Frame)
         /\ phone.state = "live" => Leads(wire', h2, ds, phone.cursor, n + 1)
         /\ phone.state # "live" => Answered'
    <2>1. PICK w2 : w2 = wire'
      OBVIOUS
    <2>2. w2 = w \/ \E p \in Prompts : w2 = Append(w, Ack(p))
      BY <2>1
    <2>3. n + 1 \in 0 .. Len(ds)
      BY <1>5
    <2>4. /\ w2 \in Seq(Frame)
          /\ Leads(w, h2, ds, phone.cursor, n + 1) => Leads(w2, h2, ds, phone.cursor, n + 1)
          /\ (\A i \in 1 .. Len(w) : w[i].type = "sendPrompt.response")
                => \A i \in 1 .. Len(w2) : w2[i].type = "sendPrompt.response"
      BY <1>13, <2>2, <2>3, AckedPath
    <2>5. phone.state # "live" => \A i \in 1 .. Len(w) : w[i].type = "sendPrompt.response"
      BY <1>1 DEF Caught, Answered
    <2> QED BY <1>14, <2>1, <2>4, <2>5 DEF Answered
  <1>16. PhoneShape'
    <2>1. phone.cursor \in 0 .. Len(ds)
      BY <1>3, <1>5
    <2> QED BY <1>4, <1>15, <2>1 DEF Shown, PhoneShape
  <1>17. Waiting'
    BY DEF Shown, Waiting, Unconfirmed, KeysOf
  <1>18. Caught(h2)'
    <2>1. h2[phone.cursor] = h[phone.cursor]
      BY <1>3, <1>10
    <2> QED BY <1>1, <1>4, <1>5, <1>6, <1>11, <1>15, <2>1 DEF Caught
  <1> QED BY <1>16, <1>17, <1>18 DEF Shown

LEMMA SdkShown ==
    ASSUME Told, Told', Shown, Turn \/ Stream \/ \E t \in Tools : Tool(t)
    PROVE  Shown'
  <1>1. /\ UNCHANGED <<phone, crossed, commands>>
        /\ \/ UNCHANGED <<settled, log, wire>>
           \/ Emit(<<>>)
           \/ \E d \in Delta : Emit(<<d>>)
    BY SdkEmits
  <1>2. CASE UNCHANGED <<settled, log, wire>> \/ Emit(<<>>)
    <2>1. UNCHANGED <<settled, log, wire>>
      BY <1>2, EmitIs, Emissions DEF Shown
    <2> QED BY <1>1, <2>1, StillShown
  <1>3. CASE \E d \in Delta : Emit(<<d>>)
    <2>1. PICK d \in Delta : Emit(<<d>>)
      BY <1>3
    <2>2. settled' = Fold(settled, d)
      BY <2>1, EmitIs
    <2>3. log' = Append(log, d) /\ wire' = (IF phone.state = "live" THEN Append(wire, Event(d)) ELSE wire)
      BY <2>1, Emissions DEF Shown
    <2> QED BY <1>1, <2>2, <2>3, GrowthShown
  <1> QED BY <1>1, <1>2, <1>3

LEMMA PushShown ==
    ASSUME Told, Told', Shown, NEW p \in Prompts, Push(p)
    PROVE  Shown'
  <1>1. PICK it \in Item : it = UserItem(p)
    BY UserItemIs
  <1>2. PICK d \in Delta : d = AppendDelta(it)
    BY DeltasAre
  <1>3. wire \in Seq(Frame) /\ Event(d) \in Frame /\ Ack(p) \in Frame
    BY DEF Shown, PhoneShape, Event, Ack, Frame
  <1>4. PICK w : w = (IF phone.state = "live" THEN Append(wire, Event(d)) ELSE wire)
    OBVIOUS
  <1>5. w \in Seq(Frame)
    BY <1>3, <1>4
  <1>6. wire \o (IF phone.state = "live" THEN <<Event(d)>> ELSE <<>>) = w
    BY <1>3, <1>4
  <1>7. wire' = w \o (IF commands[p] = "sent" THEN <<Ack(p)>> ELSE <<>>)
    <2>1. wire' = (wire \o (IF phone.state = "live" THEN <<Event(d)>> ELSE <<>>))
                       \o (IF commands[p] = "sent" THEN <<Ack(p)>> ELSE <<>>)
      BY <1>1, <1>2 DEF Push
    <2> QED BY <1>6, <2>1
  <1>8. wire' = w \/ wire' = Append(w, Ack(p))
    BY <1>3, <1>5, <1>7
  <1>9. settled' = Fold(settled, d) /\ log' = Append(log, d) /\ UNCHANGED <<phone, crossed>>
    BY <1>1, <1>2 DEF Push
  <1>10. \A q \in Prompts : commands[q] # "idle" => commands'[q] # "idle"
    BY DEF Push, Told, Shape
  <1> QED BY <1>4, <1>8, <1>9, <1>10, GrowthShown

LEMMA CommandShown ==
    ASSUME Told, Shown, NEW p \in Prompts, Typed(p) \/ Refuse(p)
    PROVE  Shown'
  <1>1. UNCHANGED <<settled, log, phone, crossed>>
    BY DEF Typed, Refuse
  <1>2. wire' = wire \/ \E q \in Prompts : wire' = Append(wire, Ack(q))
    BY DEF Typed, Refuse
  <1>3. \A q \in Prompts : commands[q] # "idle" => commands'[q] # "idle"
    BY DEF Typed, Refuse, Told, Shape
  <1> QED BY <1>1, <1>2, <1>3, StillShown

-----------------------------------------------------------------------------
(* Steps of the phone.                                                     *)

LEMMA PhoneFields ==
    ASSUME PhoneShape
    PROVE  /\ phone.state \in {"live", "away", "joining"} /\ phone.cursor \in Nat
           /\ phone.synced \subseteq Rows /\ phone.overlay \subseteq Rows
  BY DEF PhoneShape, PhoneState

LEMMA SendShown ==
    ASSUME Told, Shown, NEW p \in Prompts, Send(p)
    PROVE  Shown'
  <1>1. /\ commands[p] = "idle" /\ commands' = [commands EXCEPT ![p] = "sent"]
        /\ UNCHANGED <<settled, log, wire, crossed>>
    BY DEF Send
  <1>2. PICK it \in Item : it = UserItem(p) /\ it.key = p
    BY UserItemIs
  <1>3. Size \in Nat /\ (Unconfirmed = {} => Size = Cardinality(KeysOf(phone.synced)))
    BY Sizes
  <1>4. PICK row \in Rows : row = Row(it, Size) /\ row.item = it /\ row.order = Size
    <2>1. Row(it, Size) \in Rows /\ Row(it, Size).item = it /\ Row(it, Size).order = Size
      BY <1>2, <1>3 DEF Row, Rows
    <2> QED BY <2>1
  <1>5. phone' = [phone EXCEPT !.overlay = @ \cup {row}]
    BY <1>2, <1>4 DEF Send
  <1>6. /\ phone' \in PhoneState /\ phone'.state = phone.state /\ phone'.cursor = phone.cursor
        /\ phone'.synced = phone.synced /\ phone'.overlay = phone.overlay \cup {row}
    BY <1>5, PhoneFields DEF Shown, PhoneShape, PhoneState
  <1>7. PhoneShape'
    <2>1. IsFiniteSet(phone.overlay \cup {row})
      BY FS_AddElement DEF Shown, PhoneShape
    <2> QED BY <1>1, <1>6, <2>1 DEF Shown, PhoneShape
  <1>8. \A q \in Prompts : commands[q] # "idle" => commands'[q] # "idle"
    BY <1>1 DEF Told, Shape
  <1>9. commands'[p] # "idle"
    BY <1>1 DEF Told, Shape
  <1>10. \A r \in phone'.overlay : r.item.key \in Prompts /\ commands'[r.item.key] # "idle"
    BY <1>2, <1>4, <1>6, <1>8, <1>9 DEF Shown, Waiting
  <1>11. PICK confirmed : confirmed = KeysOf(phone.synced)
    OBVIOUS
  <1>12. KeysOf(phone'.overlay) = KeysOf(phone.overlay) \cup {p}
    BY <1>2, <1>4, <1>6 DEF KeysOf
  <1>13. p \notin KeysOf(phone.overlay)
    BY <1>1 DEF Shown, Waiting, KeysOf
  <1>14. ASSUME ~crossed, NEW r \in phone'.overlay,
                (KeysOf(phone.overlay) \cup {p}) \ confirmed = {r.item.key}
         PROVE  r.order = Cardinality(confirmed)
    <2>1. CASE r \in phone.overlay
      <3>1. r.item.key \in KeysOf(phone.overlay)
        BY <2>1 DEF KeysOf
      <3>2. Unconfirmed = {r.item.key}
        BY <1>11, <1>14, <3>1 DEF Unconfirmed
      <3> QED BY <1>11, <1>14, <2>1, <3>2 DEF Shown, Waiting
    <2>2. CASE r = row
      <3>1. Unconfirmed = {}
        BY <1>2, <1>4, <1>11, <1>13, <1>14, <2>2 DEF Unconfirmed
      <3> QED BY <1>3, <1>4, <1>11, <2>2, <3>1
    <2> QED BY <1>6, <2>1, <2>2
  <1>15. Waiting'
    <2>1. Unconfirmed' = (KeysOf(phone.overlay) \cup {p}) \ confirmed /\ KeysOf(phone'.synced) = confirmed
      BY <1>6, <1>11, <1>12 DEF Unconfirmed, KeysOf
    <2>2. ~crossed => \A r \in phone'.overlay :
             (KeysOf(phone.overlay) \cup {p}) \ confirmed = {r.item.key} => r.order = Cardinality(confirmed)
      BY <1>14
    <2> QED BY <1>1, <1>10, <1>11, <2>1, <2>2 DEF Waiting, KeysOf
  <1>16. PICK h : Caught(h)
    BY DEF Shown
  <1>17. Caught(h)'
    BY <1>1, <1>6, <1>16 DEF Caught, Answered
  <1> QED BY <1>7, <1>15, <1>17 DEF Shown

LEMMA DropShown ==
    ASSUME Told, Shown, Drop
    PROVE  Shown'
  <1>1. /\ UNCHANGED <<settled, log, crossed>> /\ wire' = <<>>
        /\ phone' = [phone EXCEPT !.state = "away", !.overlay = {}]
    BY DEF Drop, NoOverlay
  <1>2. /\ phone' \in PhoneState /\ phone'.state = "away" /\ phone'.cursor = phone.cursor
        /\ phone'.synced = phone.synced /\ phone'.overlay = {}
    BY <1>1, PhoneFields DEF Shown, PhoneShape, PhoneState
  <1>3. PhoneShape'
    <2>1. IsFiniteSet({}) /\ <<>> \in Seq(Frame)
      BY FS_EmptySet
    <2> QED BY <1>1, <1>2, <2>1 DEF Shown, PhoneShape
  <1>4. Waiting'
    BY <1>2 DEF Waiting
  <1>5. PICK h : Caught(h)
    BY DEF Shown
  <1>6. Answered'
    BY <1>1 DEF Answered
  <1>7. Caught(h)'
    BY <1>1, <1>2, <1>5, <1>6 DEF Caught
  <1> QED BY <1>3, <1>4, <1>7 DEF Shown

LEMMA ConnectShown ==
    ASSUME Shown, Connect
    PROVE  Shown'
  <1>1. /\ UNCHANGED <<settled, log, crossed, wire, commands>> /\ phone.state = "away"
        /\ phone' = [phone EXCEPT !.state = "joining"]
    BY DEF Connect
  <1>2. /\ phone' \in PhoneState /\ phone'.state = "joining" /\ phone'.cursor = phone.cursor
        /\ phone'.synced = phone.synced /\ phone'.overlay = phone.overlay
    BY <1>1, PhoneFields DEF Shown, PhoneShape, PhoneState
  <1>3. PhoneShape'
    BY <1>1, <1>2 DEF Shown, PhoneShape
  <1>4. Waiting'
    BY <1>1, <1>2 DEF Shown, Waiting, Unconfirmed, KeysOf
  <1>5. PICK h : Caught(h)
    BY DEF Shown
  <1>6. Caught(h)'
    BY <1>1, <1>2, <1>5 DEF Caught, Answered
  <1> QED BY <1>3, <1>4, <1>6 DEF Shown

LEMMA AnswerShown ==
    ASSUME Shown, Answer
    PROVE  Shown'
  <1>1. /\ UNCHANGED <<settled, log, crossed, commands>> /\ phone.state = "joining"
        /\ phone' = [phone EXCEPT !.state = "live"]
    BY DEF Answer
  <1>2. /\ phone' \in PhoneState /\ phone'.state = "live" /\ phone'.cursor = phone.cursor
        /\ phone'.synced = phone.synced /\ phone'.overlay = phone.overlay
    BY <1>1, PhoneFields DEF Shown, PhoneShape, PhoneState
  <1>3. PICK h : Caught(h)
    BY DEF Shown
  <1>4. Answered /\ wire \in Seq(Frame) /\ log \in Seq(Delta) /\ phone.cursor \in 0 .. Len(log)
        /\ Replays(h, log, settled)
    BY <1>1, <1>3 DEF Shown, PhoneShape, Caught
  <1>5. PICK w : w = wire'
    OBVIOUS
  <1>6. w \in Seq(Frame) /\ Leads(w, h, log, phone.cursor, Len(log))
    <2>1. CASE w = wire \o [i \in 1..(Len(log) - phone.cursor) |-> Event(log[phone.cursor + i])]
      BY <1>4, <2>1, PathReplays DEF Answered
    <2>2. CASE w = Append(wire, Snapshot)
      <3>1. PICK n \in Nat : n = Len(log) /\ n \in 0 .. Len(log)
        BY <1>4
      <3>2. h[n] = settled /\ settled \in Seq(Item)
        <4>1. h \in [0 .. Len(log) -> Seq(Item)] /\ h[Len(log)] = settled
          BY <1>4 DEF Replays
        <4> QED BY <3>1, <4>1
      <3>3. PICK snap : snap = Snapshot
        OBVIOUS
      <3>4. snap \in Frame /\ snap.type = "subscribe.response" /\ snap.items = h[n] /\ snap.cursor = n
        BY <3>1, <3>2, <3>3 DEF Snapshot, Frame
      <3>5. Leads(wire, h, log, phone.cursor, phone.cursor)
        <4>1. PICK m \in 0 .. Len(log) : m = phone.cursor
          BY <1>4
        <4>2. PICK g : g = [i \in 0 .. Len(wire) |-> m]
          OBVIOUS
        <4>3. Len(wire) \in Nat
          BY <1>4
        <4>4. g \in [0 .. Len(wire) -> 0 .. Len(log)] /\ g[0] = m /\ g[Len(wire)] = m
          BY <4>2, <4>3
        <4>5. \A i \in 1 .. Len(wire) : g[i - 1] = m /\ g[i] = m
          BY <4>2, <4>3
        <4>6. \A i \in 1 .. Len(wire) : Takes(wire[i], h, log, g[i - 1], g[i])
          BY <1>4, <4>5 DEF Answered, Takes
        <4>7. Path(g, wire, h, log, m, m)
          BY <4>4, <4>6 DEF Path
        <4> QED BY <4>1, <4>7 DEF Leads
      <3>6. Takes(snap, h, log, phone.cursor, n)
        BY <3>4 DEF Takes
      <3>7. Leads(Append(wire, snap), h, log, phone.cursor, n)
        BY <1>4, <3>1, <3>4, <3>5, <3>6, PathLonger
      <3>8. Append(wire, snap) \in Seq(Frame)
        BY <1>4, <3>4
      <3> QED BY <2>2, <3>1, <3>3, <3>7, <3>8
    <2> QED BY <1>5, <2>1, <2>2 DEF Answer
  <1>7. PhoneShape'
    BY <1>1, <1>2, <1>5, <1>6 DEF Shown, PhoneShape
  <1>8. Waiting'
    BY <1>1, <1>2 DEF Shown, Waiting, Unconfirmed, KeysOf
  <1>9. Caught(h)'
    BY <1>1, <1>2, <1>3, <1>5, <1>6 DEF Caught
  <1> QED BY <1>7, <1>8, <1>9 DEF Shown

-----------------------------------------------------------------------------
(* A frame is taken in.                                                    *)

\* An event appends a row.
LEMMA AppendDisplayed ==
    ASSUME NEW items \in Seq(Item), NEW rows, Displays(items, rows), NEW it \in Item, NEW place \in Nat
    PROVE  /\ Displays(Append(items, it), rows \cup {Row(it, place)})
           /\ InOrder(items, rows) /\ place = Len(items) =>
                 InOrder(Append(items, it), rows \cup {Row(it, place)})
  <1>1. PICK n \in Nat : n = Len(items) /\ DOMAIN items = 1 .. n
    <2>1. Len(items) \in Nat /\ DOMAIN items = 1 .. Len(items)
      OBVIOUS
    <2> QED BY <2>1
  <1>2. PICK order \in [1 .. n -> Nat] : rows = {Row(items[i], order[i]) : i \in 1 .. n}
    BY <1>1 DEF Displays
  <1>3. PICK more : more = Append(items, it)
    OBVIOUS
  <1>4. DOMAIN more = 1 .. (n + 1) /\ more[n + 1] = it /\ \A i \in 1 .. n : more[i] = items[i]
    BY <1>1, <1>3
  <1>5. PICK order2 : order2 = [i \in 1 .. (n + 1) |-> IF i = n + 1 THEN place ELSE order[i]]
    OBVIOUS
  <1>6. order2 \in [1 .. (n + 1) -> Nat] /\ order2[n + 1] = place /\ \A i \in 1 .. n : order2[i] = order[i]
    BY <1>2, <1>5
  <1>7. PICK all : all = {Row(more[i], order2[i]) : i \in 1 .. (n + 1)}
    OBVIOUS
  <1>8. \A i \in 1 .. (n + 1) : i = n + 1 \/ i \in 1 .. n
    OBVIOUS
  <1>9. \A i \in 1 .. n : Row(more[i], order2[i]) = Row(items[i], order[i])
    BY <1>4, <1>6
  <1>10. Row(more[n + 1], order2[n + 1]) = Row(it, place)
    BY <1>4, <1>6
  <1>11. all = rows \cup {Row(it, place)}
    <2>1. \A r : r \in all => r \in rows \cup {Row(it, place)}
      BY <1>2, <1>7, <1>8, <1>9, <1>10
    <2>2. \A r \in rows : r \in all
      <3> SUFFICES ASSUME NEW i \in 1 .. n PROVE Row(items[i], order[i]) \in all
        BY <1>2
      <3>1. i \in 1 .. (n + 1)
        OBVIOUS
      <3> QED BY <1>7, <1>9, <3>1
    <2>3. Row(it, place) \in all
      <3>1. n + 1 \in 1 .. (n + 1)
        OBVIOUS
      <3> QED BY <1>7, <1>10, <3>1
    <2>4. \A r : r \in all <=> r \in rows \cup {Row(it, place)}
      BY <2>1, <2>2, <2>3
    <2> QED BY <2>4, Alike
  <1>12. Displays(more, all)
    BY <1>4, <1>6, <1>7 DEF Displays
  <1>13. ASSUME InOrder(items, rows), place = Len(items)
         PROVE  InOrder(more, all)
    <2> SUFFICES ASSUME NEW i \in 1 .. (n + 1) PROVE Row(more[i], i - 1) \in all
      BY <1>4 DEF InOrder
    <2>1. CASE i = n + 1
      <3>1. i - 1 = place /\ more[i] = it
        BY <1>1, <1>4, <1>13, <2>1
      <3> QED BY <1>11, <3>1
    <2>2. CASE i \in 1 .. n
      <3>1. Row(items[i], i - 1) \in rows /\ more[i] = items[i]
        BY <1>1, <1>4, <1>13, <2>2 DEF InOrder
      <3> QED BY <1>11, <3>1
    <2> QED BY <1>8, <2>1, <2>2
  <1> QED BY <1>3, <1>11, <1>12, <1>13

\* An event patches a row.
LEMMA PatchDisplayed ==
    ASSUME NEW items \in Seq(Item), NEW rows, Displays(items, rows), NEW d, d.op # "append",
           NEW rows2, rows2 = {[r EXCEPT !.item = Patched(@, d)] : r \in rows}
    PROVE  /\ Displays(Fold(items, d), rows2)
           /\ InOrder(items, rows) => InOrder(Fold(items, d), rows2)
  <1>1. PICK n \in Nat : n = Len(items) /\ DOMAIN items = 1 .. n
    <2>1. Len(items) \in Nat /\ DOMAIN items = 1 .. Len(items)
      OBVIOUS
    <2> QED BY <2>1
  <1>2. PICK order \in [1 .. n -> Nat] : rows = {Row(items[i], order[i]) : i \in 1 .. n}
    BY <1>1 DEF Displays
  <1>3. PICK new : new = Fold(items, d)
    OBVIOUS
  <1>4. DOMAIN new = 1 .. n /\ \A i \in 1 .. n : new[i] = Patched(items[i], d)
    BY <1>1, <1>3 DEF Fold
  <1>5. \A it, o : [Row(it, o) EXCEPT !.item = Patched(@, d)] = Row(Patched(it, d), o)
    BY DEF Row
  <1>6. PICK F : F = [r \in rows |-> [r EXCEPT !.item = Patched(@, d)]]
    OBVIOUS
  <1>7. rows2 = {F[r] : r \in rows}
    BY <1>6
  <1>8. \A i \in 1 .. n : \A o : Row(items[i], o) \in rows => F[Row(items[i], o)] = Row(new[i], o)
    BY <1>4, <1>5, <1>6
  <1>9. rows2 = {Row(new[i], order[i]) : i \in 1 .. n}
    <2>1. PICK all : all = {Row(new[i], order[i]) : i \in 1 .. n}
      OBVIOUS
    <2>2. \A i \in 1 .. n : Row(items[i], order[i]) \in rows
      BY <1>2
    <2>3. \A r \in rows : \E i \in 1 .. n : r = Row(items[i], order[i])
      BY <1>2
    <2>4. \A x : x \in rows2 => x \in all
      <3> SUFFICES ASSUME NEW r \in rows PROVE F[r] \in all
        BY <1>7
      <3>1. PICK i \in 1 .. n : r = Row(items[i], order[i])
        BY <2>3
      <3> QED BY <1>8, <2>1, <3>1
    <2>5. \A x : x \in all => x \in rows2
      <3> SUFFICES ASSUME NEW i \in 1 .. n PROVE Row(new[i], order[i]) \in rows2
        BY <2>1
      <3>1. PICK r \in rows : r = Row(items[i], order[i])
        BY <2>2
      <3>2. F[r] = Row(new[i], order[i])
        BY <1>8, <3>1
      <3> QED BY <1>7, <3>2
    <2>6. rows2 = all
      BY <2>4, <2>5, Alike
    <2> QED BY <2>1, <2>6
  <1>10. Displays(new, rows2)
    BY <1>4, <1>9 DEF Displays
  <1>11. ASSUME InOrder(items, rows) PROVE InOrder(new, rows2)
    <2> SUFFICES ASSUME NEW i \in 1 .. n PROVE Row(new[i], i - 1) \in rows2
      BY <1>4 DEF InOrder
    <2>1. PICK r \in rows : r = Row(items[i], i - 1)
      BY <1>1, <1>11 DEF InOrder
    <2>2. F[r] = Row(new[i], i - 1)
      BY <1>8, <2>1
    <2> QED BY <1>7, <2>2
  <1> QED BY <1>3, <1>10, <1>11

\* Where the next frame takes the phone.
LEMMA Arrives ==
    ASSUME Shown, Deliver, NEW h, Caught(h)
    PROVE  /\ UNCHANGED <<settled, log, commands>> /\ wire # <<>> /\ wire' = Tail(wire) /\ wire' \in Seq(Frame)
           /\ Head(wire) \in Frame
           /\ \E n \in 0 .. Len(log) :
                 /\ Takes(Head(wire), h, log, phone.cursor, n)
                 /\ phone.state = "live" => Leads(wire', h, log, n, Len(log))
           /\ phone.state # "live" => Answered' /\ Head(wire).type = "sendPrompt.response"
  <1>1. UNCHANGED <<settled, log, commands>> /\ wire # <<>> /\ wire' = Tail(wire)
    BY DEF Deliver
  <1>2. wire \in Seq(Frame) /\ log \in Seq(Delta) /\ phone.cursor \in 0 .. Len(log)
    BY DEF Shown, PhoneShape
  <1>3. PICK w : w = wire'
    OBVIOUS
  <1>4. w \in Seq(Frame) /\ Head(wire) \in Frame /\ Head(wire) = wire[1] /\ 1 \in 1 .. Len(wire)
        /\ \A i \in 1 .. Len(w) : i + 1 \in 1 .. Len(wire) /\ w[i] = wire[i + 1]
    BY <1>1, <1>2, <1>3
  <1>5. phone.state # "live" => Answered' /\ Head(wire).type = "sendPrompt.response"
    <2> SUFFICES ASSUME phone.state # "live" PROVE Answered' /\ Head(wire).type = "sendPrompt.response"
      OBVIOUS
    <2>1. \A i \in 1 .. Len(wire) : wire[i].type = "sendPrompt.response"
      BY DEF Caught, Answered
    <2>2. \A i \in 1 .. Len(w) : w[i].type = "sendPrompt.response"
      BY <1>4, <2>1
    <2> QED BY <1>3, <1>4, <2>1, <2>2 DEF Answered
  <1>6. \E n \in 0 .. Len(log) : /\ Takes(Head(wire), h, log, phone.cursor, n)
                                 /\ phone.state = "live" => Leads(w, h, log, n, Len(log))
    <2>1. CASE phone.state = "live"
      <3>1. Leads(wire, h, log, phone.cursor, Len(log))
        BY <2>1 DEF Caught
      <3>2. \E n \in 0 .. Len(log) : Takes(Head(wire), h, log, phone.cursor, n) /\ Leads(Tail(wire), h, log, n, Len(log))
        BY <1>1, <1>2, <3>1, PathShorter
      <3> QED BY <1>1, <1>3, <3>2
    <2>2. CASE phone.state # "live"
      BY <1>2, <1>5, <2>2 DEF Takes
    <2> QED BY <2>1, <2>2
  <1> QED BY <1>1, <1>3, <1>4, <1>5, <1>6

\* What is left to show when the phone has taken in a frame.
LEMMA TakenShown ==
    ASSUME Shown, Deliver, NEW h, Caught(h), NEW n \in 0 .. Len(log),
           phone.state = "live" => Leads(wire', h, log, n, Len(log)),
           phone' \in PhoneState, phone'.state = phone.state, phone'.cursor = n,
           IsFiniteSet(phone'.overlay), Waiting',
           Displays(h[n], phone'.synced), ~crossed' => InOrder(h[n], phone'.synced)
    PROVE  Shown'
  <1>1. /\ UNCHANGED <<settled, log, commands>> /\ wire' \in Seq(Frame)
        /\ phone.state # "live" => Answered'
    BY Arrives
  <1>2. PhoneShape'
    BY <1>1 DEF Shown, PhoneShape
  <1>3. Caught(h)'
    BY <1>1 DEF Caught
  <1> QED BY <1>2, <1>3 DEF Shown

LEMMA AckShown ==
    ASSUME Told, Shown, Deliver, NEW h, Caught(h), NEW n \in 0 .. Len(log),
           Takes(Head(wire), h, log, phone.cursor, n),
           phone.state = "live" => Leads(wire', h, log, n, Len(log)),
           Head(wire).type = "sendPrompt.response"
    PROVE  Shown'
  <1>1. n = phone.cursor /\ UNCHANGED <<commands, settled, log>>
    BY Arrives DEF Takes
  <1>2. PICK p : OnAck(p)
    BY DEF Deliver
  <1>3. PICK overlay : overlay = {r \in phone.overlay : r.item.key # p}
    OBVIOUS
  <1>4. /\ phone' = [phone EXCEPT !.overlay = overlay]
        /\ crossed' = (crossed \/ (p \notin KeysOf(phone.synced) /\ KeysOf(phone.overlay) \ {p} # {}))
    BY <1>2, <1>3 DEF OnAck
  <1>5. /\ phone' \in PhoneState /\ phone'.state = phone.state /\ phone'.cursor = phone.cursor
        /\ phone'.synced = phone.synced /\ phone'.overlay = overlay
    BY <1>3, <1>4, PhoneFields DEF Shown, PhoneShape, PhoneState
  <1>6. IsFiniteSet(phone'.overlay)
    BY <1>3, <1>5, FS_Subset DEF Shown, PhoneShape
  <1>7. Waiting'
    <2>1. PICK confirmed : confirmed = KeysOf(phone.synced)
      OBVIOUS
    <2>2. KeysOf(overlay) = KeysOf(phone.overlay) \ {p}
      BY <1>3 DEF KeysOf
    <2>3. \A r \in overlay : r.item.key \in Prompts /\ commands'[r.item.key] # "idle"
      BY <1>1, <1>3 DEF Shown, Waiting
    <2>4. ASSUME ~crossed', NEW r \in overlay, KeysOf(overlay) \ confirmed = {r.item.key}
          PROVE  r.order = Cardinality(confirmed)
      <3>1. r \in phone.overlay /\ r.item.key \in KeysOf(overlay)
        BY <1>3, <2>4 DEF KeysOf
      <3>2. ~crossed /\ p \in confirmed
        BY <1>4, <2>1, <2>2, <2>4, <3>1
      <3>3. Unconfirmed = {r.item.key}
        BY <2>1, <2>2, <2>4, <3>2 DEF Unconfirmed
      <3> QED BY <2>1, <3>1, <3>2, <3>3 DEF Shown, Waiting
    <2>5. KeysOf(phone'.synced) = confirmed /\ Unconfirmed' = KeysOf(overlay) \ confirmed
      BY <1>5, <2>1 DEF Unconfirmed, KeysOf
    <2>6. ~crossed' => \A r \in overlay : KeysOf(overlay) \ confirmed = {r.item.key} => r.order = Cardinality(confirmed)
      BY <2>4
    <2> QED BY <1>5, <2>3, <2>5, <2>6 DEF Waiting, KeysOf
  <1>8. Displays(h[n], phone'.synced) /\ (~crossed' => InOrder(h[n], phone'.synced))
    BY <1>1, <1>4, <1>5 DEF Caught
  <1> QED BY <1>1, <1>5, <1>6, <1>7, <1>8, TakenShown

LEMMA SnapshotShown ==
    ASSUME Told, Shown, Deliver, NEW h, Caught(h), NEW n \in 0 .. Len(log),
           Takes(Head(wire), h, log, phone.cursor, n),
           phone.state = "live" => Leads(wire', h, log, n, Len(log)),
           Head(wire).type = "subscribe.response"
    PROVE  Shown'
  <1>1. PICK items \in Seq(Item) : items = h[n]
    <2>1. h[n] \in Seq(Item)
      BY DEF Caught, Replays
    <2> QED BY <2>1
  <1>2. OnSnapshot(items, n)
    BY <1>1 DEF Deliver, Takes
  <1>3. PICK rows : rows = {Row(items[i], i - 1) : i \in DOMAIN items}
    OBVIOUS
  <1>4. phone' = [phone EXCEPT !.cursor = n, !.synced = rows] /\ crossed' = (phone.overlay # {})
    BY <1>2, <1>3 DEF OnSnapshot
  <1>5. PICK len \in Nat : len = Len(items) /\ DOMAIN items = 1 .. len
    <2>1. Len(items) \in Nat /\ DOMAIN items = 1 .. Len(items)
      BY <1>1
    <2> QED BY <2>1
  <1>6. PICK order \in [1 .. len -> Nat] : order = [i \in 1 .. len |-> i - 1]
    <2>1. [i \in 1 .. len |-> i - 1] \in [1 .. len -> Nat]
      OBVIOUS
    <2> QED BY <2>1
  <1>7. \A i \in 1 .. len : order[i] = i - 1
    BY <1>6
  <1>8. rows = {Row(items[i], order[i]) : i \in 1 .. len}
    BY <1>3, <1>5, <1>7
  <1>9. Displays(items, rows) /\ InOrder(items, rows)
    <2>1. Displays(items, rows)
      BY <1>5, <1>8 DEF Displays
    <2>2. InOrder(items, rows)
      BY <1>3 DEF InOrder
    <2> QED BY <2>1, <2>2
  <1>10. rows \subseteq Rows
    <2>1. Distinct(items)
      BY <1>1 DEF Caught, Replays
    <2> QED BY <1>1, <1>9, <2>1, RowsCounted
  <1>11. n \in Nat
    OBVIOUS
  <1>12. /\ phone' \in PhoneState /\ phone'.state = phone.state /\ phone'.cursor = n
         /\ phone'.synced = rows /\ phone'.overlay = phone.overlay
    BY <1>4, <1>10, <1>11, PhoneFields DEF Shown, PhoneShape, PhoneState
  <1>13. IsFiniteSet(phone'.overlay)
    BY <1>12 DEF Shown, PhoneShape
  <1>14. Waiting'
    <2>1. commands' = commands
      BY Arrives
    <2>2. \A r \in phone'.overlay : r.item.key \in Prompts /\ commands'[r.item.key] # "idle"
      BY <1>12, <2>1 DEF Shown, Waiting
    <2>3. ~crossed' => phone'.overlay = {}
      BY <1>4, <1>12
    <2> QED BY <2>2, <2>3 DEF Waiting
  <1> QED BY <1>1, <1>9, <1>12, <1>13, <1>14, TakenShown

LEMMA EventShown ==
    ASSUME Told, Shown, Deliver, NEW h, Caught(h), NEW n \in 0 .. Len(log),
           Takes(Head(wire), h, log, phone.cursor, n),
           phone.state = "live" => Leads(wire', h, log, n, Len(log)),
           Head(wire).type = "event"
    PROVE  Shown'
  <1>1. n = phone.cursor + 1 /\ Head(wire).delta = log[n] /\ phone.cursor \in Nat /\ n \in 1 .. Len(log)
    BY PhoneFields DEF Takes, Shown, PhoneShape
  <1>2. PICK d \in Delta : d = log[n]
    BY <1>1 DEF Shown, PhoneShape
  <1>3. OnEvent(d)
    BY <1>1, <1>2 DEF Deliver
  <1>4. PICK old \in Seq(Item) : old = h[phone.cursor] /\ Distinct(old)
    <2>1. phone.cursor \in 0 .. Len(log)
      BY DEF Shown, PhoneShape
    <2> QED BY <2>1 DEF Caught, Replays
  <1>5. PICK new \in Seq(Item) : new = h[n] /\ Distinct(new) /\ new = Fold(old, d)
    <2>1. h[n] \in Seq(Item) /\ Distinct(h[n])
      BY DEF Caught, Replays
    <2>2. h[n] = Fold(h[n - 1], log[n]) /\ n - 1 = phone.cursor
      BY <1>1 DEF Caught, Replays
    <2> QED BY <1>2, <1>4, <2>1, <2>2
  <1>6. Displays(old, phone.synced) /\ (~crossed => InOrder(old, phone.synced))
    BY <1>4 DEF Caught
  <1>7. /\ KeysOf(phone.synced) = {old[i].key : i \in DOMAIN old}
        /\ Cardinality(KeysOf(phone.synced)) = Len(old)
    BY <1>4, <1>6, RowsCounted
  <1>c. commands' = commands
    BY Arrives
  <1>8. CASE d.op = "append"
    <2>1. PICK it \in Item : it = d.item
      BY <1>2 DEF Delta
    <2>2. new = Append(old, it)
      BY <1>5, <1>8, <2>1 DEF Fold
    <2>3. it.key \notin KeysOf(phone.synced)
      <3>1. Len(old) \in Nat /\ DOMAIN old = 1 .. Len(old) /\ Len(old) + 1 \in DOMAIN new /\ new[Len(old) + 1] = it
            /\ \A i \in DOMAIN old : i \in DOMAIN new /\ new[i] = old[i] /\ i # Len(old) + 1
        BY <1>4, <2>2
      <3>2. \A i \in DOMAIN old : old[i].key # it.key
        BY <1>5, <3>1 DEF Distinct
      <3> QED BY <1>7, <3>2
    <2>4. PICK place : place = OrderOf(it.key)
      OBVIOUS
    <2>5. /\ phone' = [phone EXCEPT !.cursor = @ + 1, !.synced = @ \cup {Row(it, place)}]
          /\ crossed' = (crossed \/ KeysOf(phone.overlay) \ (KeysOf(phone.synced) \cup {it.key}) # {})
      BY <1>3, <1>8, <2>1, <2>4 DEF OnEvent
    <2>6. \A r \in RowOf(it.key) : r \in phone.overlay /\ r \in Rows /\ r.item.key = it.key
      BY <2>3, PhoneFields DEF RowOf, KeysOf, Shown
    <2>7. /\ RowOf(it.key) # {} => \E r \in RowOf(it.key) : place = r.order
          /\ RowOf(it.key) = {} => place = Size
      <3>1. RowOf(it.key) # {} => (CHOOSE r \in RowOf(it.key) : TRUE) \in RowOf(it.key)
        OBVIOUS
      <3> QED BY <2>4, <3>1 DEF OrderOf
    <2>8. place \in Nat
      BY <2>6, <2>7, Sizes DEF Rows
    <2>9. ~crossed' => place = Len(old)
      <3> SUFFICES ASSUME ~crossed' PROVE place = Len(old)
        OBVIOUS
      <3>1. ~crossed /\ KeysOf(phone.overlay) \subseteq KeysOf(phone.synced) \cup {it.key}
        BY <2>5
      <3>2. CASE RowOf(it.key) # {}
        <4>1. PICK r \in RowOf(it.key) : place = r.order
          BY <2>7, <3>2
        <4>2. r \in phone.overlay /\ r.item.key = it.key
          BY <2>6, <4>1
        <4>3. it.key \in KeysOf(phone.overlay)
          BY <4>2 DEF KeysOf
        <4>4. Unconfirmed = {it.key}
          BY <2>3, <3>1, <4>3 DEF Unconfirmed
        <4> QED BY <1>7, <3>1, <4>1, <4>2, <4>4 DEF Shown, Waiting
      <3>3. CASE RowOf(it.key) = {}
        <4>1. it.key \notin KeysOf(phone.overlay)
          BY <3>3 DEF RowOf, KeysOf
        <4>2. Unconfirmed = {}
          BY <3>1, <4>1 DEF Unconfirmed
        <4> QED BY <1>7, <2>7, <3>3, <4>2, Sizes
      <3> QED BY <3>2, <3>3
    <2>10. /\ Displays(new, phone.synced \cup {Row(it, place)})
           /\ ~crossed' => InOrder(new, phone.synced \cup {Row(it, place)})
      <3>1. ~crossed' => ~crossed
        BY <2>5
      <3>2. /\ Displays(Append(old, it), phone.synced \cup {Row(it, place)})
            /\ InOrder(old, phone.synced) /\ place = Len(old) =>
                  InOrder(Append(old, it), phone.synced \cup {Row(it, place)})
        BY <1>4, <1>6, <2>1, <2>8, AppendDisplayed
      <3> QED BY <1>6, <2>2, <2>9, <3>1, <3>2
    <2>11. PICK rows : rows = phone.synced \cup {Row(it, place)}
      OBVIOUS
    <2>12. rows \subseteq Rows
      BY <1>5, <2>10, <2>11, RowsCounted
    <2>13. /\ phone' \in PhoneState /\ phone'.state = phone.state /\ phone'.cursor = n
           /\ phone'.synced = rows /\ phone'.overlay = phone.overlay
      <3>1. phone' = [phone EXCEPT !.cursor = n, !.synced = rows] /\ n \in Nat
        BY <1>1, <2>5, <2>11
      <3> QED BY <2>12, <3>1, PhoneFields DEF Shown, PhoneShape, PhoneState
    <2>14. Waiting'
      <3>1. \A r \in phone'.overlay : r.item.key \in Prompts /\ commands'[r.item.key] # "idle"
        BY <1>c, <2>13 DEF Shown, Waiting
      <3>2. ~crossed' => Unconfirmed' = {}
        <4>1. KeysOf(rows) = KeysOf(phone.synced) \cup {it.key}
          <5>1. PICK row : row = Row(it, place)
            OBVIOUS
          <5>2. row.item = it
            BY <5>1 DEF Row
          <5> QED BY <2>11, <5>1, <5>2 DEF KeysOf
        <4>2. Unconfirmed' = KeysOf(phone.overlay) \ KeysOf(rows)
          BY <2>13 DEF Unconfirmed, KeysOf
        <4> QED BY <2>5, <4>1, <4>2
      <3> QED BY <3>1, <3>2 DEF Waiting
    <2>15. IsFiniteSet(phone'.overlay)
      BY <2>13 DEF Shown, PhoneShape
    <2> QED BY <1>5, <2>10, <2>11, <2>13, <2>14, <2>15, TakenShown
  <1>9. CASE d.op # "append"
    <2>1. PICK rows : rows = {[r EXCEPT !.item = Patched(@, d)] : r \in phone.synced}
      OBVIOUS
    <2>2. phone' = [phone EXCEPT !.cursor = @ + 1, !.synced = rows] /\ crossed' = crossed
      BY <1>3, <1>9, <2>1 DEF OnEvent
    <2>3. Displays(new, rows) /\ (~crossed => InOrder(new, rows))
      <3>1. PICK before : before = phone.synced
        OBVIOUS
      <3>2. rows = {[r EXCEPT !.item = Patched(@, d)] : r \in before}
        BY <2>1, <3>1
      <3>3. Displays(old, before)
        BY <1>6, <3>1
      <3>4. /\ Displays(Fold(old, d), rows)
            /\ InOrder(old, before) => InOrder(Fold(old, d), rows)
        BY <1>4, <1>9, <3>2, <3>3, PatchDisplayed
      <3> QED BY <1>5, <1>6, <2>2, <3>1, <3>4
    <2>4. /\ rows \subseteq Rows /\ KeysOf(rows) = {new[i].key : i \in DOMAIN new}
      BY <1>5, <2>3, RowsCounted
    <2>5. /\ phone' \in PhoneState /\ phone'.state = phone.state /\ phone'.cursor = n
          /\ phone'.synced = rows /\ phone'.overlay = phone.overlay
      <3>1. phone' = [phone EXCEPT !.cursor = n, !.synced = rows] /\ n \in Nat
        BY <1>1, <2>2
      <3> QED BY <2>4, <3>1, PhoneFields DEF Shown, PhoneShape, PhoneState
    <2>6. KeysOf(rows) = KeysOf(phone.synced)
      <3>1. DOMAIN new = DOMAIN old /\ \A i \in DOMAIN old : new[i] = Patched(old[i], d)
        BY <1>5, <1>9 DEF Fold
      <3>2. \A it \in Item : Patched(it, d).key = it.key
        BY DEF Patched, Item
      <3>3. \A i \in DOMAIN old : new[i].key = old[i].key
        BY <1>4, <3>1, <3>2
      <3> QED BY <1>7, <2>4, <3>1, <3>3
    <2>7. Waiting'
      <3>1. PICK confirmed : confirmed = KeysOf(phone.synced)
        OBVIOUS
      <3>2. KeysOf(phone'.synced) = confirmed /\ Unconfirmed = KeysOf(phone.overlay) \ confirmed
            /\ Unconfirmed' = KeysOf(phone.overlay) \ confirmed
        BY <2>5, <2>6, <3>1 DEF Unconfirmed, KeysOf
      <3> QED BY <1>c, <2>2, <2>5, <3>1, <3>2 DEF Shown, Waiting, KeysOf
    <2>8. IsFiniteSet(phone'.overlay)
      BY <2>5 DEF Shown, PhoneShape
    <2> QED BY <1>5, <2>2, <2>3, <2>5, <2>7, <2>8, TakenShown
  <1> QED BY <1>8, <1>9

LEMMA DeliverShown ==
    ASSUME Told, Shown, Deliver
    PROVE  Shown'
  <1>1. PICK h : Caught(h)
    BY DEF Shown
  <1>2. Head(wire) \in Frame
    BY <1>1, Arrives
  <1>3. PICK n \in 0 .. Len(log) : /\ Takes(Head(wire), h, log, phone.cursor, n)
                                   /\ phone.state = "live" => Leads(wire', h, log, n, Len(log))
    BY <1>1, Arrives
  <1>4. Head(wire).type \in {"event", "subscribe.response", "sendPrompt.response"}
    BY <1>2 DEF Frame
  <1> QED BY <1>1, <1>3, <1>4, EventShown, SnapshotShown, AckShown

LEMMA ShownAtFirst == Init => Shown
  <1> SUFFICES ASSUME Init PROVE Shown
    OBVIOUS
  <1>1. log = <<>> /\ settled = <<>> /\ wire = <<>>
    BY DEF Init
  <1>2. phone = [state |-> "live", cursor |-> 0, synced |-> {}, overlay |-> {}]
    BY DEF Init, NoOverlay
  <1>3. log \in Seq(Delta) /\ wire \in Seq(Frame) /\ settled \in Seq(Item) /\ Len(log) = 0 /\ Len(wire) = 0
    BY <1>1
  <1>4. phone.cursor = 0 /\ phone.synced = {} /\ phone.overlay = {} /\ phone.state = "live"
    BY <1>2
  <1>5. PhoneShape
    <2>1. phone \in PhoneState
      BY <1>2 DEF PhoneState
    <2> QED BY <1>3, <1>4, <2>1, FS_EmptySet DEF PhoneShape
  <1>6. Waiting
    BY <1>4 DEF Waiting
  <1>7. PICK h : h = [k \in 0 .. 0 |-> <<>>]
    OBVIOUS
  <1>8. h[0] = <<>> /\ h \in [0 .. 0 -> Seq(Item)]
    BY <1>7
  <1>9. Replays(h, log, settled)
    <2>1. \A k \in 0 .. 0 : Distinct(h[k])
      BY <1>8 DEF Distinct
    <2>2. 1 .. 0 = {}
      OBVIOUS
    <2> QED BY <1>1, <1>3, <1>8, <2>1, <2>2 DEF Replays
  <1>10. Displays(h[0], {}) /\ InOrder(h[0], {})
    <2>1. DOMAIN h[0] = {}
      BY <1>8
    <2>2. PICK order \in [DOMAIN h[0] -> Nat] : TRUE
      <3>1. [i \in DOMAIN h[0] |-> 0] \in [DOMAIN h[0] -> Nat]
        OBVIOUS
      <3> QED BY <3>1
    <2>3. {} = {Row(h[0][i], order[i]) : i \in DOMAIN h[0]}
      BY <2>1
    <2> QED BY <2>1, <2>2, <2>3 DEF Displays, InOrder
  <1>11. Leads(wire, h, log, 0, 0)
    <2>1. PICK g : g = [i \in 0 .. 0 |-> 0]
      OBVIOUS
    <2>2. g \in [0 .. 0 -> 0 .. 0] /\ g[0] = 0 /\ 1 .. 0 = {}
      BY <2>1
    <2>3. Path(g, wire, h, log, 0, 0)
      BY <1>3, <2>2 DEF Path
    <2> QED BY <2>3 DEF Leads
  <1>12. Caught(h)
    BY <1>3, <1>4, <1>9, <1>10, <1>11 DEF Caught
  <1> QED BY <1>5, <1>6, <1>12 DEF Shown

LEMMA ShownStays == Told /\ Told' /\ Shown /\ [Next]_vars => Shown'
  <1> SUFFICES ASSUME Told, Told', Shown, [Next]_vars PROVE Shown'
    OBVIOUS
  <1>p. Mine \subseteq Prompts /\ Theirs \subseteq Prompts
    BY DEF Prompts
  <1>1. CASE Turn \/ Stream \/ \E t \in Tools : Tool(t)
    BY <1>1, SdkShown
  <1>2. CASE \E p \in Prompts : Push(p) \/ Refuse(p)
    BY <1>2, PushShown, CommandShown
  <1>3. CASE (\E p \in Mine : Send(p)) \/ (\E p \in Theirs : Typed(p))
    BY <1>3, <1>p, SendShown, CommandShown
  <1>4. CASE Answer \/ Deliver \/ Drop \/ Connect
    BY <1>4, AnswerShown, DeliverShown, DropShown, ConnectShown
  <1>5. CASE UNCHANGED vars
    <2>1. UNCHANGED <<settled, log, phone, crossed, wire, commands>>
      BY <1>5 DEF vars, client
    <2> QED BY <2>1, StillShown
  <1> QED BY <1>1, <1>2, <1>3, <1>4, <1>5 DEF Next

LEMMA ShownIsAll == Told /\ Shown => PhoneShowsAll
  <1> SUFFICES ASSUME Told, Shown, phone.state = "live", wire = <<>>
               PROVE  /\ {r.item : r \in phone.synced} = Range(settled)
                      /\ Cardinality(phone.synced) = Len(settled)
                      /\ ~crossed => \A r, s \in phone.synced : \A i, j \in DOMAIN settled :
                            settled[i] = r.item /\ settled[j] = s.item /\ i < j => r.order < s.order
    BY DEF PhoneShowsAll
  <1>1. PICK h : Caught(h)
    BY DEF Shown
  <1>2. h[phone.cursor] = settled
    <2>1. PICK g : Path(g, wire, h, log, phone.cursor, Len(log))
      BY <1>1 DEF Caught, Leads
    <2>2. phone.cursor = Len(log)
      BY <2>1 DEF Path
    <2> QED BY <1>1, <2>2 DEF Caught, Replays
  <1>3. settled \in Seq(Item) /\ Distinct(settled)
    BY DEF Told, Shape, OnceEach, Distinct
  <1>4. Displays(settled, phone.synced) /\ (~crossed => InOrder(settled, phone.synced))
    BY <1>1, <1>2 DEF Caught
  <1>5. Cardinality(phone.synced) = Len(settled)
    BY <1>3, <1>4, RowsCounted
  <1>6. PICK order \in [DOMAIN settled -> Nat] : phone.synced = {Row(settled[i], order[i]) : i \in DOMAIN settled}
    BY <1>4 DEF Displays
  <1>7. \A it, o : Row(it, o).item = it /\ Row(it, o).order = o
    BY DEF Row
  <1>8. \A r \in phone.synced : \E i \in DOMAIN settled : r.item = settled[i] /\ r.order = order[i]
    BY <1>6, <1>7
  <1>9. \A i \in DOMAIN settled : \E r \in phone.synced : r.item = settled[i] /\ r.order = order[i]
    BY <1>6, <1>7
  <1>10. {r.item : r \in phone.synced} = Range(settled)
    <2>1. PICK A : A = {r.item : r \in phone.synced}
      OBVIOUS
    <2>2. \A x : x \in A => x \in Range(settled)
      BY <1>8, <2>1 DEF Range
    <2>3. \A x : x \in Range(settled) => x \in A
      BY <1>9, <2>1 DEF Range
    <2> QED BY <2>1, <2>2, <2>3, Alike
  <1>11. \A i, j \in DOMAIN settled : settled[i] = settled[j] => i = j
    BY <1>3 DEF Distinct
  <1>12. ASSUME ~crossed, NEW r \in phone.synced, NEW s \in phone.synced,
                NEW i \in DOMAIN settled, NEW j \in DOMAIN settled,
                settled[i] = r.item, settled[j] = s.item, i < j
         PROVE  r.order < s.order
    <2>1. \A k \in DOMAIN settled : order[k] = k - 1
      <3> SUFFICES ASSUME NEW k \in DOMAIN settled PROVE order[k] = k - 1
        OBVIOUS
      <3>1. PICK q \in phone.synced : q = Row(settled[k], k - 1)
        BY <1>4, <1>12 DEF InOrder
      <3>2. PICK m \in DOMAIN settled : q.item = settled[m] /\ q.order = order[m]
        BY <1>8
      <3> QED BY <1>7, <1>11, <3>1, <3>2
    <2>2. r.order = order[i] /\ s.order = order[j]
      BY <1>8, <1>11, <1>12
    <2>3. i \in Nat /\ j \in Nat
      BY <1>3
    <2> QED BY <1>12, <2>1, <2>2, <2>3
  <1> QED BY <1>5, <1>10, <1>12

\* A phone that has taken in all that was sent shows the snapshot: every item
\* once, as the daemon has it, and in its order unless a prompt was crossed.
THEOREM PhoneComplete == Spec => []PhoneShowsAll
  <1>1. Told /\ Told' /\ Shown /\ [Next]_vars => Shown'
    BY ShownStays
  <1>2. Told /\ Shown => PhoneShowsAll
    BY ShownIsAll
  <1> QED BY <1>1, <1>2, ShownAtFirst, KeysOnce, PTL DEF Spec

-----------------------------------------------------------------------------
(* What a cold read computes: line after line (Normalize).                  *)

LEMMA FirstNumber ==
    ASSUME NEW T, T \subseteq Nat, T # {}
    PROVE  \E n \in T : \A m \in T : n <= m
  <1> DEFINE less == {pair \in Nat \X Nat : pair[1] < pair[2]}
  <1>1. IsWellFoundedOn(less, Nat)
    BY NatLessThanWellFounded, Zenon DEF OpToRel
  <1> HIDE DEF less
  <1>2. PICK n \in T : \A m \in T : <<m, n>> \notin less
    BY <1>1, WFMin, Zenon
  <1>3. \A m \in T : ~(m < n)
    BY <1>2 DEF less
  <1> QED BY <1>3

LEMMA MaxIs ==
    ASSUME NEW n \in Nat, NEW t, t \subseteq 1 .. n, t # {}
    PROVE  Max(t) \in t /\ \A m \in t : Max(t) >= m
  <1> DEFINE T == {m \in 0 .. n : \A k \in t : k <= m}
  <1>1. PICK b \in T : \A m \in T : b <= m
    <2>1. T \subseteq Nat /\ n \in T
      OBVIOUS
    <2> HIDE DEF T
    <2>2. T # {}
      BY <2>1
    <2> QED BY <2>1, <2>2, FirstNumber
  <1>2. b \in 0 .. n /\ \A k \in t : k <= b
    OBVIOUS
  <1>3. b \in t
    <2> SUFFICES ASSUME b \notin t PROVE FALSE
      OBVIOUS
    <2>1. \A k \in t : k \in 1 .. n /\ k <= b - 1
      BY <1>2
    <2>0. PICK k \in t : TRUE
      OBVIOUS
    <2>2. b - 1 \in 0 .. n
      <3>1. k \in 1 .. n /\ k <= b - 1
        BY <2>0, <2>1
      <3> QED BY <1>2, <3>1
    <2>3. b - 1 \in T
      BY <2>1, <2>2
    <2> QED BY <1>1, <1>2, <2>3
  <1>4. \E x \in t : \A y \in t : x >= y
    BY <1>2, <1>3
  <1> QED BY <1>4 DEF Max

\* The recursive function that a read is.
Reads(f, lines) ==
    f = [t \in SUBSET DOMAIN lines |-> IF t = {} THEN <<>> ELSE Normalized(f[t \ {Max(t)}], lines[Max(t)])]

LEMMA ReadsAre ==
    ASSUME NEW lines, NEW h, Reads(h, lines)
    PROVE  \E f : Normalize(lines) = f[DOMAIN lines] /\ Reads(f, lines)
  <1>1. Normalize(lines) = (CHOOSE f : Reads(f, lines))[DOMAIN lines]
    BY Zenon DEF Normalize, FoldLeft, MapThenFoldSet, Reads
  <1>2. Reads(CHOOSE f : Reads(f, lines), lines)
    BY Zenon
  <1> QED BY <1>1, <1>2, Zenon

\* It is told by the lines.
Readable(lines) ==
    /\ \E h : Reads(h, lines)
    /\ \A g, h : Reads(g, lines) /\ Reads(h, lines) => g[DOMAIN lines] = h[DOMAIN lines]

LEMMA NoneReadable ==
    ASSUME NEW lines, DOMAIN lines = {}
    PROVE  Readable(lines) /\ Normalize(lines) = <<>>
  <1>1. SUBSET DOMAIN lines = {{}}
    OBVIOUS
  <1>2. \A f : Reads(f, lines) => f[DOMAIN lines] = <<>>
    BY <1>1 DEF Reads
  <1>3. PICK h : h = [t \in SUBSET DOMAIN lines |-> <<>>]
    OBVIOUS
  <1>4. h = [t \in SUBSET DOMAIN lines |-> IF t = {} THEN <<>> ELSE Normalized(h[t \ {Max(t)}], lines[Max(t)])]
    BY <1>1, <1>3
  <1>5. Reads(h, lines)
    BY <1>4, Zenon DEF Reads
  <1>6. Readable(lines)
    BY <1>2, <1>5 DEF Readable
  <1>7. Normalize(lines) = <<>>
    BY <1>2, <1>5, ReadsAre
  <1> QED BY <1>6, <1>7

\* What is read of one line more, at the end.
LEMMA ReadOnLast ==
    ASSUME NEW n \in Nat, NEW a, NEW b, DOMAIN a = 1 .. n, DOMAIN b = 1 .. (n + 1),
           \A i \in 1 .. n : b[i] = a[i], NEW g, Reads(g, b)
    PROVE  \E f : Reads(f, a) /\ g[DOMAIN b] = Normalized(f[DOMAIN a], b[n + 1])
  <1>1. \A t \in SUBSET (1 .. (n + 1)) : g[t] = IF t = {} THEN <<>> ELSE Normalized(g[t \ {Max(t)}], b[Max(t)])
    BY DEF Reads
  <1>2. PICK f : f = [t \in SUBSET (1 .. n) |-> g[t]]
    OBVIOUS
  <1>3. \A t \in SUBSET (1 .. n) : f[t] = g[t] /\ t \in SUBSET (1 .. (n + 1))
    BY <1>2
  <1>4. \A t \in SUBSET (1 .. n) : t # {} => Max(t) \in 1 .. n /\ t \ {Max(t)} \in SUBSET (1 .. n)
    BY MaxIs
  <1>5. \A t \in SUBSET (1 .. n) : f[t] = IF t = {} THEN <<>> ELSE Normalized(f[t \ {Max(t)}], a[Max(t)])
    <2> SUFFICES ASSUME NEW t \in SUBSET (1 .. n), t # {}
                 PROVE  f[t] = Normalized(f[t \ {Max(t)}], a[Max(t)])
      BY <1>1, <1>3
    <2>1. PICK m \in 1 .. n : m = Max(t)
      BY <1>4
    <2>2. f[t] = Normalized(g[t \ {m}], b[m])
      BY <1>1, <1>3, <2>1
    <2>3. f[t \ {m}] = g[t \ {m}] /\ b[m] = a[m]
      BY <1>3, <1>4, <2>1
    <2> QED BY <2>1, <2>2, <2>3
  <1>6. f = [t \in SUBSET DOMAIN a |-> IF t = {} THEN <<>> ELSE Normalized(f[t \ {Max(t)}], a[Max(t)])]
    BY <1>2, <1>5
  <1>7. Reads(f, a)
    BY <1>6, Zenon DEF Reads
  <1>8. PICK all \in SUBSET (1 .. (n + 1)) : all = 1 .. (n + 1)
    OBVIOUS
  <1>9. Max(all) \in all /\ \A m \in all : Max(all) >= m
    <2>1. n + 1 \in Nat /\ 1 \in all
      BY <1>8
    <2> QED BY <2>1, MaxIs
  <1>m. Max(all) = n + 1
    <2>1. n + 1 \in all /\ \A m \in all : m \in Nat /\ m <= n + 1
      BY <1>8
    <2>2. PICK m \in all : m = Max(all)
      BY <1>9
    <2>3. m >= n + 1 /\ m <= n + 1 /\ m \in Nat
      BY <1>9, <2>1, <2>2
    <2> QED BY <2>2, <2>3
  <1>10. Max(all) = n + 1 /\ all \ {n + 1} = 1 .. n /\ all # {}
    BY <1>8, <1>m
  <1>11. g[all] = Normalized(g[1 .. n], b[n + 1])
    BY <1>1, <1>10
  <1>12. g[1 .. n] = f[1 .. n]
    BY <1>3
  <1> QED BY <1>7, <1>8, <1>11, <1>12

LEMMA ReadOnExists ==
    ASSUME NEW n \in Nat, NEW a, NEW b, DOMAIN a = 1 .. n, DOMAIN b = 1 .. (n + 1),
           \A i \in 1 .. n : b[i] = a[i], NEW f, Reads(f, a)
    PROVE  \E g : Reads(g, b)
  <1>1. \A t \in SUBSET (1 .. n) : f[t] = IF t = {} THEN <<>> ELSE Normalized(f[t \ {Max(t)}], a[Max(t)])
    BY DEF Reads
  <1>2. PICK g : g = [t \in SUBSET (1 .. (n + 1)) |->
                          IF n + 1 \in t THEN Normalized(f[t \ {n + 1}], b[n + 1]) ELSE f[t]]
    OBVIOUS
  <1>3. \A t \in SUBSET (1 .. (n + 1)) : n + 1 \notin t => t \in SUBSET (1 .. n)
    OBVIOUS
  <1>4. \A t \in SUBSET (1 .. n) : g[t] = f[t]
    <2>1. \A t \in SUBSET (1 .. n) : n + 1 \notin t /\ t \in SUBSET (1 .. (n + 1))
      OBVIOUS
    <2> QED BY <1>2, <2>1
  <1>5. \A t \in SUBSET (1 .. (n + 1)) : g[t] = IF t = {} THEN <<>> ELSE Normalized(g[t \ {Max(t)}], b[Max(t)])
    <2> SUFFICES ASSUME NEW t \in SUBSET (1 .. (n + 1))
                 PROVE  g[t] = IF t = {} THEN <<>> ELSE Normalized(g[t \ {Max(t)}], b[Max(t)])
      OBVIOUS
    <2>1. CASE n + 1 \in t
      <3>1. Max(t) \in t /\ \A m \in t : Max(t) >= m
        <4>1. n + 1 \in Nat /\ t \subseteq 1 .. (n + 1) /\ t # {}
          BY <2>1
        <4> QED BY <4>1, MaxIs
      <3>2. Max(t) = n + 1
        <4>1. \A m \in t : m \in Nat /\ m <= n + 1
          OBVIOUS
        <4>2. PICK m \in t : m = Max(t)
          BY <3>1
        <4>3. m >= n + 1 /\ m <= n + 1 /\ m \in Nat
          BY <2>1, <3>1, <4>1, <4>2
        <4> QED BY <4>2, <4>3
      <3>3. t \ {n + 1} \in SUBSET (1 .. n)
        OBVIOUS
      <3>4. g[t] = Normalized(g[t \ {n + 1}], b[n + 1])
        BY <1>2, <1>4, <2>1, <3>3
      <3> QED BY <2>1, <3>2, <3>4
    <2>2. CASE n + 1 \notin t
      <3>1. t \in SUBSET (1 .. n)
        BY <1>3, <2>2
      <3>2. CASE t = {}
        BY <1>1, <1>4, <3>1, <3>2
      <3>3. CASE t # {}
        <4>1. PICK m \in 1 .. n : m = Max(t)
          BY <3>1, <3>3, MaxIs
        <4>2. g[t] = Normalized(f[t \ {m}], a[m])
          BY <1>1, <1>4, <3>1, <3>3, <4>1
        <4>3. f[t \ {m}] = g[t \ {m}] /\ b[m] = a[m]
          <5>1. t \ {m} \in SUBSET (1 .. n)
            BY <3>1
          <5> QED BY <1>4, <5>1
        <4> QED BY <3>3, <4>1, <4>2, <4>3
      <3> QED BY <3>2, <3>3
    <2> QED BY <2>1, <2>2
  <1>6. g = [t \in SUBSET DOMAIN b |-> IF t = {} THEN <<>> ELSE Normalized(g[t \ {Max(t)}], b[Max(t)])]
    BY <1>2, <1>5
  <1> QED BY <1>6, Zenon DEF Reads

LEMMA ReadOn ==
    ASSUME NEW n \in Nat, NEW a, NEW b, DOMAIN a = 1 .. n, DOMAIN b = 1 .. (n + 1),
           \A i \in 1 .. n : b[i] = a[i], Readable(a)
    PROVE  Readable(b) /\ Normalize(b) = Normalized(Normalize(a), b[n + 1])
  <1>1. PICK f : Reads(f, a)
    BY DEF Readable
  <1>2. PICK read : Normalize(a) = read[DOMAIN a] /\ Reads(read, a)
    BY <1>1, ReadsAre
  <1>3. \A g : Reads(g, b) => g[DOMAIN b] = Normalized(read[DOMAIN a], b[n + 1])
    <2> SUFFICES ASSUME NEW g, Reads(g, b)
                 PROVE  g[DOMAIN b] = Normalized(read[DOMAIN a], b[n + 1])
      OBVIOUS
    <2>1. PICK e : Reads(e, a) /\ g[DOMAIN b] = Normalized(e[DOMAIN a], b[n + 1])
      BY ReadOnLast
    <2>2. e[DOMAIN a] = read[DOMAIN a]
      BY <1>2, <2>1 DEF Readable
    <2> QED BY <2>1, <2>2
  <1>4. PICK h : Reads(h, b)
    BY <1>1, ReadOnExists
  <1>5. Readable(b)
    BY <1>3, <1>4 DEF Readable
  <1>6. PICK last : Normalize(b) = last[DOMAIN b] /\ Reads(last, b)
    BY <1>4, ReadsAre
  <1> QED BY <1>2, <1>3, <1>5, <1>6

LEMMA ReadAlways ==
    ASSUME NEW S
    PROVE  \A lines \in Seq(S) : Readable(lines)
  <1> DEFINE T == {Len(l) : l \in {lines \in Seq(S) : ~Readable(lines)}}
  <1> SUFFICES ASSUME T # {} PROVE FALSE
    OBVIOUS
  <1>1. PICK n \in T : \A m \in T : n <= m
    <2>1. T \subseteq Nat
      OBVIOUS
    <2> HIDE DEF T
    <2> QED BY <2>1, FirstNumber
  <1>2. PICK b \in Seq(S) : ~Readable(b) /\ Len(b) = n
    OBVIOUS
  <1>3. n \in Nat /\ DOMAIN b = 1 .. n
    BY <1>2
  <1>4. n # 0
    <2> SUFFICES ASSUME n = 0 PROVE FALSE
      OBVIOUS
    <2>1. DOMAIN b = {}
      BY <1>3
    <2> QED BY <1>2, <2>1, NoneReadable
  <1>5. PICK m \in Nat : n = m + 1
    BY <1>3, <1>4
  <1>6. PICK a : a = [i \in 1 .. m |-> b[i]]
    OBVIOUS
  <1>7. a \in Seq(S) /\ Len(a) = m /\ DOMAIN a = 1 .. m
    <2>1. \A i \in 1 .. m : b[i] \in S
      BY <1>3, <1>5
    <2> QED BY <1>6, <2>1
  <1>8. Readable(a)
    <2> SUFFICES ASSUME ~Readable(a) PROVE FALSE
      OBVIOUS
    <2>1. m \in T
      BY <1>7
    <2>2. n <= m
      BY <1>1, <2>1
    <2> QED BY <1>5, <2>2
  <1>9. \A i \in 1 .. m : b[i] = a[i]
    BY <1>6
  <1>10. DOMAIN b = 1 .. (m + 1)
    BY <1>3, <1>5
  <1> QED BY <1>2, <1>7, <1>8, <1>9, <1>10, ReadOn

\* A line more is one step of normalize more.
LEMMA NormalizeAppend ==
    ASSUME NEW S, NEW lines \in Seq(S), NEW x \in S
    PROVE  Normalize(Append(lines, x)) = Normalized(Normalize(lines), x)
  <1>1. PICK n \in Nat : n = Len(lines) /\ DOMAIN lines = 1 .. n
    OBVIOUS
  <1>2. PICK b : b = Append(lines, x)
    OBVIOUS
  <1>3. DOMAIN b = 1 .. (n + 1) /\ b[n + 1] = x /\ \A i \in 1 .. n : b[i] = lines[i]
    BY <1>1, <1>2
  <1>4. Readable(lines)
    BY ReadAlways
  <1> QED BY <1>1, <1>2, <1>3, <1>4, ReadOn

LEMMA NormalizeNone == Normalize(<<>>) = <<>>
  BY NoneReadable

-----------------------------------------------------------------------------
(* What is on disk, and what it is read back as.                           *)

Line ==
    {UserLine(p) : p \in Prompts \cup ({Summary} \X (1 .. MaxUpsets))} \cup {Marker}
        \cup {TextLine(key, n) : key \in TextKeys, n \in Nat}
        \cup {ToolLine(t) : t \in Tools} \cup {ResultLine(t, return) : t \in Tools, return \in Returns}

\* What the read makes of a line: a text under the id it has in the JSONL.
ColdItem == {it \in Item : it.kind # "text"} \cup {TextItem(Uuid(key), n) : key \in TextKeys, n \in Nat}

\* The same under the ids of the stream: items, the conversation read back,
\* and a line as it would stand had the SDK kept the id.
Named(item) == IF item.kind = "text" THEN TextItem(item.key[1], item.text) ELSE item
Renamed(items) == [k \in DOMAIN items |-> Named(items[k])]
Live(line) == IF line.item.kind = "text" THEN [line EXCEPT !.item = Named(@)] ELSE line
Reading(items, line) == Normalized(items, Live(line))

Written(lines) == lines \in Seq(Line) /\ Normalize(lines) \in Seq(ColdItem)
BackOf(lines) == Renamed(Normalize(lines))
Back == BackOf(disk)

Queued == {sdk.queue[n] : n \in DOMAIN sdk.queue}

\* Between turns nothing streams or runs.
Rests == ~sdk.turn => ~sdk.streams /\ sdk.running = {}

\* Only a text has a length, and only a call a result.
Plain ==
    \A i \in DOMAIN settled : /\ settled[i].kind # "text" => settled[i].text = 0
                              /\ settled[i].kind # "tool" => settled[i].result = Unsettled

\* A prompt in the queue is an item, once; and it is the last one, between
\* turns, if none was pushed behind another or into a turn.
QueueIsNew ==
    /\ Queued \subseteq Keys \ kept
    /\ \A m, n \in DOMAIN sdk.queue : sdk.queue[m] = sdk.queue[n] => m = n
    /\ ~queued => \/ sdk.queue = <<>>
                  \/ ~sdk.turn /\ Len(sdk.queue) = 1 /\ sdk.queue[1] = settled[Len(settled)].key

\* The item that streams is the block that is open; and it is the last one if
\* no prompt was pushed behind it.
OpenIsItem ==
    Opened => /\ \E i \in DOMAIN settled : settled[i] = sdk.open
              /\ sdk.open.key \in streaming.texts
              /\ sdk.open.key \notin cut \cup kept
              /\ ~queued => settled[Len(settled)].key = sdk.open.key

\* What was cut or compacted was an item, and does not run.
GoneWasShown == cut \cup kept \subseteq Keys /\ sdk.running \cap (cut \cup kept) = {}

\* What is read is an item that is not streaming, queued or compacted, once;
\* or the summary to come.
ReadIsShown ==
    /\ \A k, l \in DOMAIN Back : Back[k].key = Back[l].key => k = l
    /\ \A k \in DOMAIN Back :
          /\ Back[k].key \in Keys \/ sdk.compacting
          /\ Back[k].key \notin kept \cup Queued
          /\ Opened => Back[k].key # sdk.open.key
          /\ Back[k].kind = "text" => Back[k].text > 0

\* An item is read as it is shown, unless it was cut; the result of a call
\* that runs is to come.
ReadAsShown ==
    \A i \in DOMAIN settled, k \in DOMAIN Back :
        settled[i].key = Back[k].key /\ Back[k].key \notin cut =>
            /\ settled[i].kind = Back[k].kind /\ settled[i].text = Back[k].text
            /\ Back[k].key \notin sdk.running => settled[i].result = Back[k].result

\* An item that is complete and not compacted is read.
ShownIsRead ==
    \A i \in DOMAIN settled :
        \/ settled[i].key \in cut \cup kept \cup Queued
        \/ Opened /\ settled[i].key = sdk.open.key
        \/ settled[i].kind = "text" /\ settled[i].text = 0
        \/ \E k \in DOMAIN Back : Back[k].key = settled[i].key

\* In the order it is shown in, unless a prompt was pushed behind another or
\* into a turn.
ReadInOrder ==
    ~queued => \A i, j \in DOMAIN settled : \A k, l \in DOMAIN Back :
        settled[i].key = Back[k].key /\ settled[j].key = Back[l].key => (i < j <=> k < l)

Stored ==
    /\ Written(disk) /\ Back \in Seq(Item) /\ queued \in BOOLEAN
    /\ Rests /\ Plain /\ QueueIsNew /\ OpenIsItem /\ GoneWasShown
    /\ ReadIsShown /\ ReadAsShown /\ ShownIsRead /\ ReadInOrder

-----------------------------------------------------------------------------
(* Lines, and what each is read back as.                                    *)

LEMMA UnreturnedIs ==
    ASSUME NEW t \in Tools
    PROVE  [failed |-> FALSE, detail |-> BuildDetail(Call[t])] \in Outcome
  <1>1. PICK call \in Calls : call = Call[t]
    BY TimelineAssumption
  <1>2. BuildDetail(call) \in Details
    BY BuiltIs
  <1> QED BY <1>1, <1>2 DEF Outcome

\* The call of a line, as it is read.
LEMMA AsReadIs ==
    ASSUME NEW t \in Tools
    PROVE  /\ AsRead(ToolItem(t, Unsettled)) \in Item
           /\ AsRead(ToolItem(t, Unsettled)).key = t /\ AsRead(ToolItem(t, Unsettled)).kind = "tool"
           /\ AsRead(ToolItem(t, Unsettled)).text = 0
  <1>1. PICK r \in Outcome : r = [failed |-> FALSE, detail |-> BuildDetail(Call[t])]
    BY UnreturnedIs
  <1>2. PICK it \in Item : it = ToolItem(t, Unsettled)
    BY ToolItemIs
  <1>3. it.key = t /\ it.kind = "tool" /\ it.text = 0
    BY <1>2, ToolItemIs
  <1>4. AsRead(it) = [it EXCEPT !.result = r]
    BY <1>1, <1>3 DEF AsRead
  <1>5. PICK read : read = [it EXCEPT !.result = r]
    OBVIOUS
  <1>6. read \in Item /\ read.key = t /\ read.kind = "tool" /\ read.text = 0
    BY <1>3, <1>5 DEF Item
  <1> QED BY <1>2, <1>4, <1>5, <1>6

LEMMA UserRead ==
    ASSUME NEW p \in Prompts \cup ({Summary} \X (1 .. MaxUpsets))
    PROVE  /\ UserLine(p) \in Line
           /\ \A items : Reading(items, UserLine(p)) = Append(items, UserItem(p))
  <1>1. PICK it \in Item : it = UserItem(p)
    BY UserItemIs
  <1>2. it.kind = "user"
    BY <1>1, UserItemIs
  <1>3. PICK line : line = UserLine(p)
    OBVIOUS
  <1>4. line.type = "user" /\ line.item = it
    BY <1>1, <1>3 DEF UserLine
  <1>5. line \in Line
    BY <1>3 DEF Line
  <1>6. AsRead(it) = it
    BY <1>2 DEF AsRead
  <1>7. \A items : Reading(items, line) = Append(items, it)
    BY <1>2, <1>4, <1>6 DEF Reading, Live, Normalized
  <1> QED BY <1>1, <1>3, <1>5, <1>7

LEMMA MarkerRead == Marker \in Line /\ \A items : Reading(items, Marker) = items
  <1>1. Marker \in Line
    BY DEF Line
  <1>2. \A items : Reading(items, Marker) = items
    BY DEF Reading, Live, Normalized, Marker, UserItem
  <1> QED BY <1>1, <1>2

LEMMA TextRead ==
    ASSUME NEW key \in TextKeys, NEW n \in Nat
    PROVE  /\ TextLine(key, n) \in Line
           /\ n = 0 => \A items : Reading(items, TextLine(key, n)) = items
           /\ n > 0 => \A items : Reading(items, TextLine(key, n)) = Append(items, TextItem(key, n))
  <1>1. PICK it \in Item : it = TextItem(key, n)
    BY TextItemIs
  <1>2. it.kind = "text" /\ it.text = n
    BY <1>1, TextItemIs
  <1>3. PICK line : line = TextLine(key, n)
    OBVIOUS
  <1>4. line \in Line
    BY <1>3 DEF Line
  <1>5. line.item.kind = "text" /\ Named(line.item) = it
    BY <1>1, <1>3 DEF TextLine, TextItem, Uuid, Named
  <1>6. PICK live : live = [line EXCEPT !.item = it]
    OBVIOUS
  <1>7. Live(line) = live
    BY <1>5, <1>6 DEF Live
  <1>8. live.type = "assistant" /\ live.item = it
    BY <1>3, <1>6 DEF TextLine
  <1>9. AsRead(it) = it
    BY <1>2 DEF AsRead
  <1>10. n = 0 => \A items : Reading(items, line) = items
    BY <1>2, <1>7, <1>8 DEF Reading, Normalized
  <1>11. n > 0 => \A items : Reading(items, line) = Append(items, it)
    BY <1>2, <1>7, <1>8, <1>9 DEF Reading, Normalized
  <1> QED BY <1>1, <1>3, <1>4, <1>10, <1>11

LEMMA CallRead ==
    ASSUME NEW t \in Tools
    PROVE  /\ ToolLine(t) \in Line
           /\ \A items : Reading(items, ToolLine(t)) = Append(items, AsRead(ToolItem(t, Unsettled)))
  <1>1. PICK it \in Item : it = ToolItem(t, Unsettled)
    BY ToolItemIs
  <1>2. it.kind = "tool"
    BY <1>1, ToolItemIs
  <1>3. PICK line : line = ToolLine(t)
    OBVIOUS
  <1>4. line.type = "assistant" /\ line.item = it
    BY <1>1, <1>3 DEF ToolLine
  <1>5. line \in Line
    BY <1>3 DEF Line
  <1>6. \A items : Reading(items, line) = Append(items, AsRead(it))
    BY <1>2, <1>4 DEF Reading, Live, Normalized
  <1> QED BY <1>1, <1>3, <1>5, <1>6

LEMMA ResultRead ==
    ASSUME NEW t \in Tools, NEW return \in Returns
    PROVE  /\ ResultLine(t, return) \in Line
           /\ \A items : Reading(items, ResultLine(t, return)) = Fold(items, PatchTool(t, Completed(t, return)))
  <1>1. PICK line : line = ResultLine(t, return)
    OBVIOUS
  <1>2. line.type = "result" /\ line.item.key = t /\ line.item.result = return /\ line.item.kind = "tool"
    BY <1>1 DEF ResultLine, ToolItem
  <1>3. line \in Line
    BY <1>1 DEF Line
  <1>4. \A items : Reading(items, line) = Fold(items, PatchTool(t, Completed(t, return)))
    BY <1>2 DEF Reading, Live, Normalized
  <1> QED BY <1>1, <1>3, <1>4

\* An item read under its id in the JSONL is an item under that of the stream.
LEMMA NamedIs ==
    ASSUME NEW c \in ColdItem
    PROVE  /\ Named(c) \in Item /\ Named(c).kind = c.kind
           /\ AsWritten(Named(c)) = c
           /\ c.kind # "text" => Named(c) = c
           /\ c.kind = "text" => c.key = Uuid(Named(c).key) /\ Named(c).key \in TextKeys
  <1>1. CASE c \in Item /\ c.kind # "text"
    BY <1>1 DEF Named, AsWritten
  <1>2. CASE \E key \in TextKeys, n \in Nat : c = TextItem(Uuid(key), n)
    <2>1. PICK key \in TextKeys, n \in Nat : c = TextItem(Uuid(key), n)
      BY <1>2
    <2>2. c.kind = "text" /\ c.key = Uuid(key) /\ c.text = n
      BY <2>1 DEF TextItem
    <2>3. Named(c) = TextItem(key, n)
      BY <2>2 DEF Named, Uuid
    <2>4. PICK it \in Item : it = TextItem(key, n)
      BY TextItemIs
    <2>5. it.key = key /\ it.kind = "text" /\ it.text = n /\ it.result = Unsettled
      BY <2>4, TextItemIs
    <2>6. PICK u : u = Uuid(key)
      OBVIOUS
    <2>7. AsWritten(it) = [it EXCEPT !.key = u]
      BY <2>5, <2>6 DEF AsWritten
    <2>8. [it EXCEPT !.key = u] = TextItem(u, n)
      BY <2>4 DEF TextItem
    <2> QED BY <2>1, <2>2, <2>3, <2>4, <2>5, <2>6, <2>7, <2>8
  <1> QED BY <1>1, <1>2 DEF ColdItem

\* An item more is an item more under either id.
LEMMA RenamedMore ==
    ASSUME NEW s \in Seq(ColdItem), NEW c \in ColdItem
    PROVE  Renamed(Append(s, c)) = Append(Renamed(s), Named(c))
  <1>1. PICK n \in Nat : n = Len(s) /\ DOMAIN s = 1 .. n
    OBVIOUS
  <1>2. PICK b : b = Renamed(s)
    OBVIOUS
  <1>3. DOMAIN b = 1 .. n /\ \A k \in 1 .. n : b[k] = Named(s[k])
    BY <1>1, <1>2 DEF Renamed
  <1>4. b \in Seq(Item)
    <2>1. \A k \in 1 .. n : b[k] \in Item
      <3> SUFFICES ASSUME NEW k \in 1 .. n PROVE b[k] \in Item
        OBVIOUS
      <3>1. PICK d \in ColdItem : d = s[k]
        BY <1>1
      <3> QED BY <1>3, <3>1, NamedIs
    <2>2. b = [k \in 1 .. n |-> b[k]]
      BY <1>1, <1>2 DEF Renamed
    <2> QED BY <2>1, <2>2
  <1>5. Len(b) = n
    BY <1>1, <1>3, <1>4
  <1>6. PICK d \in Item : d = Named(c)
    BY NamedIs
  <1>7. PICK more \in Seq(ColdItem) : more = Append(s, c)
    <2>1. Append(s, c) \in Seq(ColdItem)
      OBVIOUS
    <2> QED BY <2>1
  <1>8. DOMAIN more = 1 .. (n + 1) /\ more[n + 1] = c /\ \A k \in 1 .. n : more[k] = s[k]
    BY <1>1, <1>7
  <1>9. PICK r : r = Renamed(more)
    OBVIOUS
  <1>10. /\ r = [k \in 1 .. (n + 1) |-> r[k]]
         /\ r[n + 1] = d /\ \A k \in 1 .. n : r[k] = b[k]
    BY <1>1, <1>3, <1>6, <1>8, <1>9 DEF Renamed
  <1>11. PICK a \in Seq(Item) : a = Append(b, d)
    <2>1. Append(b, d) \in Seq(Item)
      BY <1>4, <1>6
    <2> QED BY <2>1
  <1>12. /\ a = [k \in 1 .. (n + 1) |-> a[k]]
         /\ a[n + 1] = d /\ \A k \in 1 .. n : a[k] = b[k]
    <2>1. Len(a) = n + 1 /\ DOMAIN a = 1 .. (n + 1)
      BY <1>4, <1>5, <1>11
    <2>2. a = [k \in 1 .. (n + 1) |-> a[k]]
      BY <2>1
    <2>3. a[n + 1] = d
      BY <1>4, <1>5, <1>11
    <2>4. \A k \in 1 .. n : a[k] = b[k]
      BY <1>4, <1>5, <1>11
    <2> QED BY <2>2, <2>3, <2>4
  <1>13. \A k \in 1 .. (n + 1) : r[k] = a[k]
    <2> SUFFICES ASSUME NEW k \in 1 .. (n + 1) PROVE r[k] = a[k]
      OBVIOUS
    <2>1. k \in 1 .. n \/ k = n + 1
      OBVIOUS
    <2> QED BY <1>10, <1>12, <2>1
  <1>14. r = a
    BY <1>10, <1>12, <1>13
  <1> QED BY <1>2, <1>6, <1>7, <1>9, <1>11, <1>14

\* A line is read under either id alike.
LEMMA ReadAlike ==
    ASSUME NEW s \in Seq(ColdItem), NEW x \in Line
    PROVE  Normalized(s, x) \in Seq(ColdItem) /\ Renamed(Normalized(s, x)) = Reading(Renamed(s), x)
  <1>1. CASE \E p \in Prompts \cup ({Summary} \X (1 .. MaxUpsets)) : x = UserLine(p)
    <2>1. PICK p \in Prompts \cup ({Summary} \X (1 .. MaxUpsets)) : x = UserLine(p)
      BY <1>1
    <2>2. PICK it \in Item : it = UserItem(p)
      BY UserItemIs
    <2>3. it.kind = "user"
      BY <2>2, UserItemIs
    <2>4. it \in ColdItem /\ Named(it) = it /\ AsRead(it) = it
      BY <2>3 DEF ColdItem, Named, AsRead
    <2>5. x.type = "user" /\ x.item = it
      BY <2>1, <2>2 DEF UserLine
    <2>6. Normalized(s, x) = Append(s, it)
      BY <2>3, <2>4, <2>5 DEF Normalized
    <2>7. Append(s, it) \in Seq(ColdItem) /\ Renamed(Append(s, it)) = Append(Renamed(s), it)
      BY <2>4, RenamedMore
    <2> QED BY <2>1, <2>2, <2>6, <2>7, UserRead
  <1>2. CASE x = Marker
    <2>1. Normalized(s, x) = s
      BY <1>2 DEF Normalized, Marker
    <2> QED BY <1>2, <2>1, MarkerRead
  <1>3. CASE \E key \in TextKeys, n \in Nat : x = TextLine(key, n)
    <2>1. PICK key \in TextKeys, n \in Nat : x = TextLine(key, n)
      BY <1>3
    <2>2. PICK it \in ColdItem : it = TextItem(Uuid(key), n)
      BY DEF ColdItem
    <2>3. it.kind = "text" /\ it.text = n
      BY <2>2 DEF TextItem
    <2>4. AsRead(it) = it
      BY <2>3 DEF AsRead
    <2>5. x.type = "assistant" /\ x.item = it
      BY <2>1, <2>2 DEF TextLine
    <2>6. Named(it) = TextItem(key, n)
      BY <2>2, <2>3 DEF Named, TextItem, Uuid
    <2>7. CASE n = 0
      <3>1. Normalized(s, x) = s
        BY <2>3, <2>5, <2>7 DEF Normalized
      <3> QED BY <2>1, <2>7, <3>1, TextRead
    <2>8. CASE n > 0
      <3>1. Normalized(s, x) = Append(s, it)
        BY <2>3, <2>4, <2>5, <2>8 DEF Normalized
      <3>2. Append(s, it) \in Seq(ColdItem) /\ Renamed(Append(s, it)) = Append(Renamed(s), TextItem(key, n))
        BY <2>6, RenamedMore
      <3> QED BY <2>1, <2>8, <3>1, <3>2, TextRead
    <2> QED BY <2>7, <2>8
  <1>4. CASE \E t \in Tools : x = ToolLine(t)
    <2>1. PICK t \in Tools : x = ToolLine(t)
      BY <1>4
    <2>2. PICK read \in Item : read = AsRead(ToolItem(t, Unsettled))
      BY AsReadIs
    <2>3. read.kind = "tool"
      BY <2>2, AsReadIs
    <2>4. read \in ColdItem /\ Named(read) = read
      BY <2>3 DEF ColdItem, Named
    <2>5. Normalized(s, x) = Append(s, read)
      <3>1. PICK it \in Item : it = ToolItem(t, Unsettled)
        BY ToolItemIs
      <3>2. it.kind = "tool"
        BY <3>1, ToolItemIs
      <3>3. x.type = "assistant" /\ x.item = it
        BY <2>1, <3>1 DEF ToolLine
      <3> QED BY <2>2, <3>1, <3>2, <3>3 DEF Normalized
    <2>6. Append(s, read) \in Seq(ColdItem) /\ Renamed(Append(s, read)) = Append(Renamed(s), read)
      BY <2>4, RenamedMore
    <2> QED BY <2>1, <2>2, <2>5, <2>6, CallRead
  <1>5. CASE \E t \in Tools, return \in Returns : x = ResultLine(t, return)
    <2>1. PICK t \in Tools, return \in Returns : x = ResultLine(t, return)
      BY <1>5
    <2>2. PICK r \in Outcome : r = Completed(t, return)
      BY CompletedIs
    <2>3. PICK delta : delta = PatchTool(t, r)
      OBVIOUS
    <2>4. delta.op = "patch_tool_call" /\ delta.item.key = t /\ delta.item.result = r
      BY <2>3 DEF PatchTool, ToolItem
    <2>5. Normalized(s, x) = Fold(s, delta)
      <3>1. x.type = "result" /\ x.item.key = t /\ x.item.result = return
        BY <2>1 DEF ResultLine, ToolItem
      <3> QED BY <2>2, <2>3, <3>1 DEF Normalized
    <2>6. Reading(Renamed(s), x) = Fold(Renamed(s), delta)
      BY <2>1, <2>2, <2>3, ResultRead
    <2>7. \A c \in ColdItem : Patched(c, delta) \in ColdItem /\ Named(Patched(c, delta)) = Patched(Named(c), delta)
      <3> SUFFICES ASSUME NEW c \in ColdItem
                   PROVE  Patched(c, delta) \in ColdItem /\ Named(Patched(c, delta)) = Patched(Named(c), delta)
        OBVIOUS
      <3>1. CASE c.kind = "text"
        <4>1. PICK key \in TextKeys, n \in Nat : c = TextItem(Uuid(key), n)
          BY <3>1 DEF ColdItem
        <4>2. c.key = Uuid(key) /\ Named(c) = TextItem(key, n)
          BY <3>1, <4>1 DEF TextItem, Named, Uuid
        <4>3. key # t
          BY KeysApart
        <4>4. Uuid(key) # t
          <5>1. key \in Nat \X Nat
            BY Bounds DEF TextKeys
          <5>2. Uuid(key) \in Uuids
            BY <5>1 DEF Uuid, Uuids
          <5> QED BY <5>2, KeysAssumption
        <4>5. Patched(c, delta) = c
          BY <2>4, <4>2, <4>4 DEF Patched
        <4>6. Patched(Named(c), delta) = Named(c)
          <5>1. Named(c).key = key
            BY <4>2, TextItemIs
          <5> QED BY <2>4, <4>3, <5>1 DEF Patched
        <4> QED BY <4>5, <4>6
      <3>2. CASE c.kind # "text"
        <4>1. c \in Item /\ Named(c) = c
          BY <3>2 DEF ColdItem, Named, TextItem
        <4>2. PICK d : d = Patched(c, delta)
          OBVIOUS
        <4>3. d \in Item /\ d.kind = c.kind
          BY <2>4, <4>1, <4>2 DEF Patched, Item
        <4>4. d \in ColdItem /\ Named(d) = d
          BY <3>2, <4>3 DEF ColdItem, Named
        <4> QED BY <4>1, <4>2, <4>4
      <3> QED BY <3>1, <3>2
    <2>8. PICK n \in Nat : n = Len(s) /\ DOMAIN s = 1 .. n
      OBVIOUS
    <2>9. Fold(s, delta) = [k \in 1 .. n |-> Patched(s[k], delta)]
      BY <2>4, <2>8 DEF Fold
    <2>10. Fold(Renamed(s), delta) = [k \in 1 .. n |-> Patched(Named(s[k]), delta)]
      BY <2>4, <2>8 DEF Fold, Renamed
    <2>11. \A k \in 1 .. n : s[k] \in ColdItem
      BY <2>8
    <2>12. PICK f : f = [k \in 1 .. n |-> Patched(s[k], delta)]
      OBVIOUS
    <2>13. f \in Seq(ColdItem)
      BY <2>7, <2>11, <2>12
    <2>14. Renamed(f) = [k \in 1 .. n |-> Named(Patched(s[k], delta))]
      BY <2>12 DEF Renamed
    <2>15. \A k \in 1 .. n : Named(Patched(s[k], delta)) = Patched(Named(s[k]), delta)
      BY <2>7, <2>11
    <2>16. Renamed(f) = Fold(Renamed(s), delta)
      BY <2>10, <2>14, <2>15
    <2> QED BY <2>5, <2>6, <2>9, <2>12, <2>13, <2>16
  <1> QED BY <1>1, <1>2, <1>3, <1>4, <1>5 DEF Line

LEMMA WrittenMore ==
    ASSUME NEW lines, Written(lines), NEW x \in Line
    PROVE  Written(Append(lines, x)) /\ BackOf(Append(lines, x)) = Reading(BackOf(lines), x)
  <1>1. lines \in Seq(Line) /\ Append(lines, x) \in Seq(Line)
    BY DEF Written
  <1>2. PICK s \in Seq(ColdItem) : s = Normalize(lines)
    BY DEF Written
  <1>3. Normalize(Append(lines, x)) = Normalized(s, x)
    BY <1>1, <1>2, NormalizeAppend
  <1> QED BY <1>1, <1>2, <1>3, ReadAlike DEF Written, BackOf

LEMMA NothingWritten == Written(<<>>) /\ BackOf(<<>>) = <<>>
  <1>1. <<>> \in Seq(Line) /\ <<>> \in Seq(ColdItem)
    OBVIOUS
  <1>2. Renamed(<<>>) = <<>>
    BY DEF Renamed
  <1> QED BY <1>1, <1>2, NormalizeNone DEF Written, BackOf

LEMMA WrittenIs ==
    ASSUME Written(disk), NEW x \in Line, disk' = Append(disk, x)
    PROVE  Written(disk)' /\ Back' = Reading(Back, x)
  <1>1. PICK lines : lines = disk
    OBVIOUS
  <1>2. Written(Append(lines, x)) /\ BackOf(Append(lines, x)) = Reading(BackOf(lines), x)
    BY <1>1, WrittenMore
  <1> QED BY <1>1, <1>2 DEF Back

LEMMA WrittenStill ==
    ASSUME Written(disk), disk' = disk
    PROVE  Written(disk)' /\ Back' = Back
  BY DEF Back

\* While it compacts, the SDK has written the summary, and nothing else.
LEMMA CompactingCold ==
    ASSUME Told, sdk.compacting
    PROVE  \E key \in {Summary} \X (1 .. MaxUpsets) :
              Back = <<UserItem(key)>> /\ key \notin Keys \cup Prompts /\ SummaryKey = key
  <1>1. PICK k \in 1 .. upsets : disk = <<UserLine(<<Summary, k>>)>> /\ <<Summary, k>> \notin Keys
    BY DEF Told, SummaryIsNew
  <1>2. k \in 1 .. MaxUpsets
    BY Fields, Bounds
  <1>3. PICK key \in {Summary} \X (1 .. MaxUpsets) : key = <<Summary, k>>
    BY <1>2
  <1>4. PICK line \in Line : line = UserLine(key)
    BY UserRead
  <1>5. disk = Append(<<>>, line)
    BY <1>1, <1>3, <1>4
  <1>6. BackOf(Append(<<>>, line)) = Reading(<<>>, line)
    BY NothingWritten, WrittenMore
  <1>7. Back = Append(<<>>, UserItem(key))
    BY <1>4, <1>5, <1>6, UserRead DEF Back
  <1>8. key \notin Prompts
    BY <1>2, <1>3, KeysApart, Bounds
  <1>9. SummaryKey = key
    BY <1>1, <1>3 DEF SummaryKey, UserLine, UserItem
  <1> QED BY <1>1, <1>3, <1>7, <1>8, <1>9

-----------------------------------------------------------------------------
(* What is read beside what is shown, when one of them or both get longer. *)

Beside == ReadIsShown /\ ReadAsShown /\ ShownIsRead /\ ReadInOrder

\* One of the items is read, from now on.
LEMMA ReadMore ==
    ASSUME Told, Stored, settled' = settled, kept' = kept, queued' = queued, cut \subseteq cut',
           NEW it \in Item, Back' = Append(Back, it), NEW i \in DOMAIN settled, settled[i] = it,
           it.kind = "text" => it.text > 0,
           \A k \in DOMAIN Back : Back[k].key # it.key,
           it.key \notin kept, it.key \notin Queued',
           ~queued => i = Len(settled),
           sdk'.compacting = sdk.compacting,
           sdk'.running \subseteq sdk.running, sdk.running \subseteq sdk'.running \cup cut',
           Queued' \subseteq Queued, Queued \subseteq Queued' \cup {it.key},
           Opened' => Opened /\ sdk'.open.key = sdk.open.key /\ sdk.open.key # it.key,
           Opened => Opened' \/ sdk.open.key = it.key
    PROVE  Back' \in Seq(Item) /\ Beside'
  <1>0. Back \in Seq(Item)
    BY DEF Stored
  <1>1. PICK n \in Nat : n = Len(Back) + 1
    BY <1>0
  <1>2. /\ Back' \in Seq(Item) /\ DOMAIN Back' = DOMAIN Back \cup {n} /\ n \notin DOMAIN Back
        /\ Back'[n] = it /\ \A k \in DOMAIN Back : Back'[k] = Back[k] /\ k < n /\ k \in Nat
    BY <1>0, <1>1
  <1>3. Keys' = Keys /\ it.key \in Keys
    BY DEF Keys
  <1>4. OnceEach /\ DOMAIN settled = 1 .. Len(settled) /\ Len(settled) \in Nat
    BY Fields DEF Told
  <1>5. ReadIsShown'
    <2>1. \A k, l \in DOMAIN Back' : Back'[k].key = Back'[l].key => k = l
      BY <1>2 DEF Stored, ReadIsShown
    <2>2. \A k \in DOMAIN Back' :
             /\ Back'[k].key \in Keys' \/ sdk'.compacting
             /\ Back'[k].key \notin kept' \cup Queued'
             /\ Opened' => Back'[k].key # sdk'.open.key
             /\ Back'[k].kind = "text" => Back'[k].text > 0
      <3> SUFFICES ASSUME NEW k \in DOMAIN Back'
                   PROVE  /\ Back'[k].key \in Keys' \/ sdk'.compacting
                          /\ Back'[k].key \notin kept' \cup Queued'
                          /\ Opened' => Back'[k].key # sdk'.open.key
                          /\ Back'[k].kind = "text" => Back'[k].text > 0
        OBVIOUS
      <3>1. CASE k = n
        BY <1>2, <1>3, <3>1
      <3>2. CASE k \in DOMAIN Back
        BY <1>2, <1>3, <3>2 DEF Stored, ReadIsShown
      <3> QED BY <1>2, <3>1, <3>2
    <2> QED BY <2>1, <2>2 DEF ReadIsShown
  <1>6. ReadAsShown'
    <2> SUFFICES ASSUME NEW j \in DOMAIN settled, NEW k \in DOMAIN Back',
                        settled[j].key = Back'[k].key, Back'[k].key \notin cut'
                 PROVE  /\ settled[j].kind = Back'[k].kind /\ settled[j].text = Back'[k].text
                        /\ Back'[k].key \notin sdk'.running => settled[j].result = Back'[k].result
      BY DEF ReadAsShown
    <2>1. CASE k = n
      <3>1. j = i
        BY <1>2, <1>4, <2>1 DEF OnceEach
      <3> QED BY <1>2, <2>1, <3>1
    <2>2. CASE k \in DOMAIN Back
      BY <1>2, <2>2 DEF Stored, ReadAsShown
    <2> QED BY <1>2, <2>1, <2>2
  <1>7. ShownIsRead'
    <2> SUFFICES ASSUME NEW j \in DOMAIN settled
                 PROVE  \/ settled[j].key \in cut' \cup kept' \cup Queued'
                        \/ Opened' /\ settled[j].key = sdk'.open.key
                        \/ settled[j].kind = "text" /\ settled[j].text = 0
                        \/ \E k \in DOMAIN Back' : Back'[k].key = settled[j].key
      BY DEF ShownIsRead
    <2>1. CASE settled[j].key = it.key
      BY <1>2, <2>1
    <2>2. CASE settled[j].key # it.key
      <3>1. \/ settled[j].key \in cut \cup kept \cup Queued
            \/ Opened /\ settled[j].key = sdk.open.key
            \/ settled[j].kind = "text" /\ settled[j].text = 0
            \/ \E k \in DOMAIN Back : Back[k].key = settled[j].key
        BY DEF Stored, ShownIsRead
      <3>2. (\E k \in DOMAIN Back : Back[k].key = settled[j].key)
               => \E k \in DOMAIN Back' : Back'[k].key = settled[j].key
        BY <1>2
      <3> QED BY <2>2, <3>1, <3>2
    <2> QED BY <2>1, <2>2
  <1>8. ReadInOrder'
    <2> SUFFICES ASSUME ~queued, NEW j \in DOMAIN settled, NEW m \in DOMAIN settled,
                        NEW k \in DOMAIN Back', NEW l \in DOMAIN Back',
                        settled[j].key = Back'[k].key, settled[m].key = Back'[l].key
                 PROVE  j < m <=> k < l
      BY DEF ReadInOrder
    <2>0. i = Len(settled) /\ j \in 1 .. Len(settled) /\ m \in 1 .. Len(settled)
      BY <1>4
    <2>1. CASE k \in DOMAIN Back /\ l \in DOMAIN Back
      BY <1>2, <2>1 DEF Stored, ReadInOrder
    <2>2. CASE k = n /\ l \in DOMAIN Back
      <3>1. j = i /\ m # i
        BY <1>2, <1>4, <2>2 DEF OnceEach
      <3>2. ~(j < m)
        BY <1>4, <2>0, <3>1
      <3>3. ~(k < l)
        BY <1>2, <2>2
      <3> QED BY <3>2, <3>3
    <2>3. CASE k \in DOMAIN Back /\ l = n
      <3>1. m = i /\ j # i
        BY <1>2, <1>4, <2>3 DEF OnceEach
      <3>2. j < m
        BY <1>4, <2>0, <3>1
      <3>3. k < l
        BY <1>2, <2>3
      <3> QED BY <3>2, <3>3
    <2>4. CASE k = n /\ l = n
      <3>1. j = m
        BY <1>4, <2>4 DEF OnceEach
      <3> QED BY <1>4, <2>0, <2>4, <3>1
    <2> QED BY <1>2, <2>1, <2>2, <2>3, <2>4
  <1> QED BY <1>2, <1>5, <1>6, <1>7, <1>8 DEF Beside

\* Nothing more is read or shown.
LEMMA ReadStill ==
    ASSUME Told, Stored, settled' = settled, Back' = Back, kept' = kept, queued' = queued, cut \subseteq cut',
           sdk'.compacting = sdk.compacting,
           sdk'.running \subseteq sdk.running, sdk.running \subseteq sdk'.running \cup cut',
           Queued' = Queued,
           Opened' => Opened /\ sdk'.open.key = sdk.open.key,
           Opened => Opened' \/ sdk.open.key \in cut' \/ sdk.open.text = 0
    PROVE  Beside'
  <1>1. Keys' = Keys
    BY QuietIs
  <1>2. ReadIsShown'
    BY <1>1 DEF Stored, ReadIsShown
  <1>3. ReadAsShown'
    BY DEF Stored, ReadAsShown
  <1>4. ShownIsRead'
    <2> SUFFICES ASSUME NEW j \in DOMAIN settled
                 PROVE  \/ settled[j].key \in cut' \cup kept' \cup Queued'
                        \/ Opened' /\ settled[j].key = sdk'.open.key
                        \/ settled[j].kind = "text" /\ settled[j].text = 0
                        \/ \E k \in DOMAIN Back' : Back'[k].key = settled[j].key
      BY DEF ShownIsRead
    <2>1. CASE Opened /\ settled[j].key = sdk.open.key
      <3>1. PICK i \in DOMAIN settled : settled[i] = sdk.open
        BY <2>1 DEF Stored, OpenIsItem
      <3>2. settled[j] = sdk.open
        BY <2>1, <3>1 DEF Told, OnceEach
      <3>3. sdk.open.kind = "text"
        BY <2>1, Fields DEF Opened
      <3> QED BY <2>1, <3>2, <3>3
    <2>2. CASE ~(Opened /\ settled[j].key = sdk.open.key)
      BY <2>2 DEF Stored, ShownIsRead
    <2> QED BY <2>1, <2>2
  <1>5. ReadInOrder'
    BY DEF Stored, ReadInOrder
  <1> QED BY <1>2, <1>3, <1>4, <1>5 DEF Beside

\* An item more is shown, that is not read, or not yet.
LEMMA ShownMore ==
    ASSUME Told, Stored, Back' = Back, kept' = kept, cut' = cut, queued => queued',
           NEW it, settled' = Append(settled, it), \A k \in DOMAIN Back : Back[k].key # it.key,
           DOMAIN settled' = DOMAIN settled \cup {Len(settled) + 1}, Keys' = Keys \cup {it.key},
           \A j \in DOMAIN settled : settled'[j] = settled[j], settled'[Len(settled) + 1] = it,
           sdk'.compacting = sdk.compacting, sdk'.running = sdk.running,
           Queued \subseteq Queued', Queued' \subseteq Queued \cup {it.key},
           it.key \in Queued' \/ (Opened' /\ sdk'.open.key = it.key),
           Opened => Opened' /\ sdk'.open.key = sdk.open.key,
           Opened' => Opened \/ sdk'.open.key = it.key
    PROVE  Beside'
  <1>1. PICK n : n = Len(settled) + 1
    OBVIOUS
  <1>2. ReadIsShown'
    BY DEF Stored, ReadIsShown
  <1>3. ReadAsShown'
    <2> SUFFICES ASSUME NEW j \in DOMAIN settled', NEW k \in DOMAIN Back,
                        settled'[j].key = Back[k].key, Back[k].key \notin cut
                 PROVE  /\ settled'[j].kind = Back[k].kind /\ settled'[j].text = Back[k].text
                        /\ Back[k].key \notin sdk.running => settled'[j].result = Back[k].result
      BY DEF ReadAsShown
    <2>1. j \in DOMAIN settled /\ settled'[j] = settled[j]
      BY <1>1
    <2> QED BY <2>1 DEF Stored, ReadAsShown
  <1>4. ShownIsRead'
    <2> SUFFICES ASSUME NEW j \in DOMAIN settled'
                 PROVE  \/ settled'[j].key \in cut' \cup kept' \cup Queued'
                        \/ Opened' /\ settled'[j].key = sdk'.open.key
                        \/ settled'[j].kind = "text" /\ settled'[j].text = 0
                        \/ \E k \in DOMAIN Back' : Back'[k].key = settled'[j].key
      BY DEF ShownIsRead
    <2>1. CASE j = n
      BY <1>1, <2>1
    <2>2. CASE j \in DOMAIN settled
      BY <2>2 DEF Stored, ShownIsRead
    <2> QED BY <1>1, <2>1, <2>2
  <1>5. ReadInOrder'
    BY <1>1 DEF Stored, ReadInOrder
  <1> QED BY <1>2, <1>3, <1>4, <1>5 DEF Beside

-----------------------------------------------------------------------------
(* Steps that show nothing more.                                           *)

LEMMA QuietStored ==
    ASSUME Told, Stored, settled' = settled, Written(disk)', Back' \in Seq(Item), Beside',
           kept' = kept, queued' = queued, cut \subseteq cut', cut' \subseteq cut \cup Keys,
           sdk'.queue = sdk.queue, sdk'.turn => sdk.turn,
           ~sdk'.turn => ~sdk'.streams /\ sdk'.running = {},
           sdk'.running \subseteq sdk.running, sdk'.running \cap cut' = {},
           Opened' => Opened /\ sdk'.open = sdk.open /\ streaming'.texts = streaming.texts /\ cut' = cut
    PROVE  Stored'
  <1>1. Keys' = Keys /\ Queued' = Queued
    BY QuietIs DEF Queued
  <1>2. Rests' /\ Plain'
    BY DEF Stored, Rests, Plain
  <1>3. QueueIsNew'
    BY <1>1 DEF Stored, QueueIsNew
  <1>4. OpenIsItem'
    BY DEF Stored, OpenIsItem
  <1>5. GoneWasShown'
    BY <1>1 DEF Stored, GoneWasShown
  <1>6. queued' \in BOOLEAN
    BY DEF Stored
  <1> QED BY <1>2, <1>3, <1>4, <1>5, <1>6 DEF Stored, Beside

LEMMA ElsewhereStored ==
    ASSUME Told, Stored, UNCHANGED <<sdk, disk, streaming, settled, cut, kept, queued>>
    PROVE  Stored'
  <1>1. Back' = Back /\ Queued' = Queued /\ Keys' = Keys /\ Opened' = Opened
    BY QuietIs DEF Back, Queued, Opened
  <1>2. Beside'
    BY <1>1, ReadStill
  <1> QED BY <1>1, <1>2, QuietStored DEF Stored, Rests, GoneWasShown

LEMMA MessageStored ==
    ASSUME Told, Stored, MessageStart \/ MessageStop
    PROVE  Stored'
  <1>1. UNCHANGED <<settled, disk, cut, kept, queued>> /\ ~Opened
    BY DEF MessageStart, MessageStop, history, Told, StreamsNewest, Opened
  <1>2. /\ sdk'.queue = sdk.queue /\ sdk'.turn = sdk.turn /\ sdk'.running = sdk.running
        /\ sdk'.compacting = sdk.compacting /\ sdk'.open = sdk.open
        /\ sdk'.streams => sdk.turn
    <2>1. CASE MessageStart
      BY <2>1 DEF MessageStart, Told, Shape, SdkState
    <2>2. CASE MessageStop
      BY <2>2 DEF MessageStop, Told, Shape, SdkState
    <2> QED BY <2>1, <2>2
  <1>3. Back' = Back /\ Queued' = Queued /\ ~Opened'
    BY <1>1, <1>2 DEF Back, Queued, Opened
  <1>4. Beside'
    BY <1>1, <1>2, <1>3, ReadStill
  <1> QED BY <1>1, <1>2, <1>3, <1>4, QuietStored DEF Stored, Rests, GoneWasShown

LEMMA TurnEndsStored ==
    ASSUME Told, Stored, TurnEnds
    PROVE  Stored'
  <1>1. UNCHANGED <<settled, disk, streaming, cut, kept, queued>> /\ ~sdk.streams /\ sdk.running = {} /\ ~Opened
    BY DEF TurnEnds, history, Told, StreamsNewest, Opened
  <1>2. /\ sdk'.queue = sdk.queue /\ sdk'.turn = FALSE /\ sdk'.running = sdk.running /\ sdk'.streams = sdk.streams
        /\ sdk'.compacting = sdk.compacting /\ sdk'.open = sdk.open
    BY DEF TurnEnds, Told, Shape, SdkState
  <1>3. Back' = Back /\ Queued' = Queued /\ ~Opened'
    BY <1>1, <1>2 DEF Back, Queued, Opened
  <1>4. Beside'
    BY <1>1, <1>2, <1>3, ReadStill
  <1> QED BY <1>1, <1>2, <1>3, <1>4, QuietStored DEF Stored, Rests, GoneWasShown

\* The block that is open, and the item that it is.
LEMMA OpenedIs ==
    ASSUME Told, Stored, Opened
    PROVE  /\ sdk.open \in Item /\ sdk.open = TextItem(sdk.open.key, sdk.open.text)
           /\ sdk.open.key \in TextKeys /\ sdk.open.text \in Nat /\ sdk.open.kind = "text"
           /\ sdk.open.key \in Keys /\ sdk.open.key \notin Queued /\ sdk.open.key \notin cut \cup kept
           /\ \A k \in DOMAIN Back : Back[k].key # sdk.open.key
           /\ ~sdk.compacting /\ sdk.turn
           /\ \E i \in DOMAIN settled : settled[i] = sdk.open /\ (~queued => i = Len(settled))
  <1>1. sdk.open \in [key : TextKeys, kind : {"text"}, text : Nat, result : {Unsettled}]
    BY Fields DEF Opened
  <1>2. sdk.open \in Item
    BY <1>1 DEF Item, ItemKeys
  <1>3. sdk.open = TextItem(sdk.open.key, sdk.open.text)
    BY DEF Told, StreamsNewest, TextItem
  <1>4. PICK i \in DOMAIN settled : settled[i] = sdk.open
    BY DEF Stored, OpenIsItem
  <1>5. sdk.open.key \in Keys
    BY <1>4 DEF Keys
  <1>6. sdk.open.key \notin Queued
    <2>1. \A n \in DOMAIN sdk.queue : sdk.queue[n] \in Prompts
      BY Fields
    <2> QED BY <1>1, <2>1, KeysApart DEF Queued
  <1>7. ~queued => i = Len(settled)
    <2> SUFFICES ASSUME ~queued PROVE i = Len(settled)
      OBVIOUS
    <2>1. settled[Len(settled)].key = sdk.open.key
      BY DEF Stored, OpenIsItem
    <2>2. Len(settled) \in DOMAIN settled
      BY <1>4, Fields
    <2> QED BY <1>4, <2>1, <2>2 DEF Told, OnceEach
  <1>8. sdk.streams /\ sdk.turn /\ ~sdk.compacting
    BY DEF Told, StreamsNewest, SummaryIsNew, Stored, Rests
  <1> QED BY <1>1, <1>2, <1>3, <1>4, <1>5, <1>6, <1>7, <1>8 DEF Stored, OpenIsItem, ReadIsShown

LEMMA BeginStored ==
    ASSUME Told, Stored, BeginTurn
    PROVE  Stored'
  <1>1. /\ UNCHANGED <<settled, cut, kept, queued, streaming>> /\ ~sdk.turn /\ sdk.queue # <<>>
        /\ sdk' = [sdk EXCEPT !.turn = TRUE, !.queue = Tail(@)]
        /\ disk' = Append(disk, UserLine(Head(sdk.queue)))
    BY DEF BeginTurn, history
  <1>2. PICK queue \in Seq(Prompts) : queue = sdk.queue /\ queue # <<>>
    BY <1>1, Fields
  <1>r. Tail(queue) \in Seq(Prompts) /\ Len(Tail(queue)) = Len(queue) - 1
    BY <1>2
  <1>3. /\ sdk'.turn = TRUE /\ sdk'.queue = Tail(queue) /\ sdk'.streams = sdk.streams
        /\ sdk'.running = sdk.running /\ sdk'.compacting = sdk.compacting /\ sdk'.open = sdk.open
    <2>1. PICK rest \in Seq(Prompts) : rest = Tail(queue)
      BY <1>r
    <2> QED BY <1>1, <1>2, <2>1 DEF Told, Shape, SdkState
  <1>4. PICK p \in Prompts : p = Head(queue) /\ p = queue[1]
    BY <1>2
  <1>5. ~Opened /\ ~Opened' /\ ~sdk.compacting
    BY <1>1, <1>3 DEF Told, SummaryIsNew, StreamsNewest, Stored, Rests, Opened
  <1>6. /\ \A n \in DOMAIN sdk'.queue : n + 1 \in DOMAIN queue /\ n + 1 # 1 /\ sdk'.queue[n] = queue[n + 1]
        /\ \A n \in DOMAIN queue : n = 1 \/ (n - 1 \in DOMAIN sdk'.queue /\ sdk'.queue[n - 1] = queue[n])
        /\ 1 \in DOMAIN queue /\ Len(sdk'.queue) = Len(queue) - 1
    BY <1>2, <1>3
  <1>7. \A m, n \in DOMAIN queue : queue[m] = queue[n] => m = n
    BY <1>2 DEF Stored, QueueIsNew
  <1>8. Queued' \subseteq Queued /\ Queued \subseteq Queued' \cup {p} /\ p \notin Queued' /\ p \in Queued
    <2>1. \A q : q \in Queued <=> \E n \in DOMAIN queue : q = queue[n]
      BY <1>2 DEF Queued
    <2>2. \A q : q \in Queued' <=> \E n \in DOMAIN sdk'.queue : q = sdk'.queue[n]
      BY DEF Queued
    <2>3. \A q : q \in Queued' => q \in Queued /\ q # p
      BY <1>4, <1>6, <1>7, <2>1, <2>2
    <2>4. \A q : q \in Queued => q \in Queued' \/ q = p
      <3> SUFFICES ASSUME NEW n \in DOMAIN queue, n # 1
                   PROVE  queue[n] \in Queued'
        BY <1>4, <2>1
      <3>1. n - 1 \in DOMAIN sdk'.queue /\ sdk'.queue[n - 1] = queue[n]
        BY <1>6
      <3> QED BY <2>2, <3>1
    <2>5. p \in Queued
      BY <1>4, <1>6, <2>1
    <2> QED BY <2>3, <2>4, <2>5
  <1>9. p \in Keys \ kept
    BY <1>8 DEF Stored, QueueIsNew
  <1>10. PICK i \in DOMAIN settled : settled[i].key = p
    BY <1>9 DEF Keys
  <1>11. PICK it \in Item : it = UserItem(p)
    BY UserItemIs
  <1>12. /\ it.key = p /\ it.kind = "user" /\ it.text = 0 /\ it.result = Unsettled
         /\ p \notin Tools \cup TextKeys
    BY <1>11, UserItemIs
  <1>13. settled[i] = it
    <2>1. settled[i] \in Item
      BY Fields
    <2>2. settled[i].kind # "tool" /\ settled[i].kind # "text"
      BY <1>10, <1>12 DEF Told, Sorted
    <2>3. settled[i].text = 0 /\ settled[i].result = Unsettled
      BY <2>2 DEF Stored, Plain
    <2> QED BY <1>10, <1>12, <2>1, <2>2, <2>3 DEF Item
  <1>14. Written(disk)' /\ Back' = Append(Back, it)
    <2>1. UserLine(p) \in Line /\ Reading(Back, UserLine(p)) = Append(Back, it)
      BY <1>11, UserRead
    <2> QED BY <1>1, <1>2, <1>4, <2>1, WrittenIs DEF Stored
  <1>15. ~queued => i = Len(settled) /\ Len(queue) = 1
    <2> SUFFICES ASSUME ~queued PROVE i = Len(settled) /\ Len(queue) = 1
      OBVIOUS
    <2>1. Len(queue) = 1 /\ p = settled[Len(settled)].key
      BY <1>1, <1>2, <1>4 DEF Stored, QueueIsNew
    <2>2. Len(settled) \in DOMAIN settled
      BY Fields
    <2> QED BY <1>10, <2>1, <2>2 DEF Told, OnceEach
  <1>16. \A k \in DOMAIN Back : Back[k].key # it.key
    BY <1>8, <1>12 DEF Stored, ReadIsShown
  <1>17. Back' \in Seq(Item) /\ Beside'
    BY <1>1, <1>3, <1>5, <1>8, <1>9, <1>12, <1>13, <1>14, <1>15, <1>16, ReadMore
  <1>18. Keys' = Keys
    BY <1>1, QuietIs
  <1>19. Rests' /\ Plain'
    BY <1>1, <1>3 DEF Stored, Rests, Plain
  <1>20. QueueIsNew'
    <2>1. \A m, n \in DOMAIN sdk'.queue : sdk'.queue[m] = sdk'.queue[n] => m = n
      <3> SUFFICES ASSUME NEW m \in DOMAIN sdk'.queue, NEW n \in DOMAIN sdk'.queue, sdk'.queue[m] = sdk'.queue[n]
                   PROVE  m = n
        OBVIOUS
      <3>1. m + 1 = n + 1
        BY <1>6, <1>7
      <3>2. m \in Nat /\ n \in Nat
        BY <1>2, <1>3
      <3> QED BY <3>1, <3>2
    <2>2. ~queued => sdk'.queue = <<>>
      <3>1. PICK rest \in Seq(Prompts) : rest = Tail(queue)
        BY <1>r
      <3>2. ~queued => Len(rest) = 0
        BY <1>r, <1>15, <3>1
      <3> QED BY <1>3, <3>1, <3>2
    <2> QED BY <1>1, <1>8, <1>18, <2>1, <2>2 DEF Stored, QueueIsNew
  <1>21. OpenIsItem'
    BY <1>5 DEF OpenIsItem
  <1>22. GoneWasShown'
    BY <1>1, <1>3, <1>18 DEF Stored, GoneWasShown
  <1>23. queued' \in BOOLEAN
    BY <1>1 DEF Stored
  <1> QED BY <1>14, <1>17, <1>19, <1>20, <1>21, <1>22, <1>23 DEF Stored, Beside

LEMMA RunsAreItems == Told => sdk.running \subseteq Keys
  <1> SUFFICES ASSUME Told, NEW t \in sdk.running PROVE t \in Keys
    OBVIOUS
  <1>1. PICK i \in DOMAIN settled : settled[i].key = t
    BY DEF Told, CallsKnown
  <1> QED BY <1>1 DEF Keys

\* The line of the open block, as it is read.
LEMMA OpenRead ==
    ASSUME Told, Stored, Opened
    PROVE  /\ TextLine(sdk.open.key, sdk.open.text) \in Line
           /\ sdk.open.text = 0 => \A items : Reading(items, TextLine(sdk.open.key, sdk.open.text)) = items
           /\ sdk.open.text # 0 => \A items : Reading(items, TextLine(sdk.open.key, sdk.open.text))
                                                  = Append(items, sdk.open)
  <1>1. sdk.open.key \in TextKeys /\ sdk.open.text \in Nat /\ sdk.open = TextItem(sdk.open.key, sdk.open.text)
    BY OpenedIs
  <1>2. PICK key \in TextKeys : key = sdk.open.key
    BY <1>1
  <1>3. PICK n \in Nat : n = sdk.open.text
    BY <1>1
  <1>4. n # 0 => n > 0
    OBVIOUS
  <1>5. sdk.open = TextItem(key, n)
    BY <1>1, <1>2, <1>3
  <1>6. /\ TextLine(key, n) \in Line
        /\ n = 0 => \A items : Reading(items, TextLine(key, n)) = items
        /\ n # 0 => \A items : Reading(items, TextLine(key, n)) = Append(items, TextItem(key, n))
    BY <1>4, TextRead
  <1> QED BY <1>2, <1>3, <1>5, <1>6

LEMMA InterruptStored ==
    ASSUME Told, Stored, Interrupt
    PROVE  Stored'
  <1>1. /\ UNCHANGED <<settled, streaming, kept, queued>> /\ sdk.turn /\ ~sdk.compacting
        /\ sdk' = [sdk EXCEPT !.turn = FALSE, !.streams = FALSE, !.open = NoBlock, !.running = {}]
        /\ cut' = cut \cup sdk.running \cup (IF sdk.open = NoBlock THEN {} ELSE {sdk.open.key})
    BY DEF Interrupt
  <1>2. /\ sdk'.turn = FALSE /\ sdk'.streams = FALSE /\ sdk'.open = NoBlock /\ sdk'.running = {}
        /\ sdk'.queue = sdk.queue /\ sdk'.compacting = sdk.compacting
    BY <1>1 DEF Told, Shape, SdkState
  <1>3. Queued' = Queued /\ ~Opened'
    BY <1>2 DEF Queued, Opened
  <1>4. /\ cut \subseteq cut' /\ sdk.running \subseteq cut' /\ (Opened => sdk.open.key \in cut')
        /\ cut' \subseteq cut \cup Keys
    <2>1. Opened => sdk.open.key \in Keys
      BY OpenedIs
    <2> QED BY <1>1, <2>1, RunsAreItems DEF Opened
  <1>5. PICK lines : lines = disk
    OBVIOUS
  <1>6. Written(lines) /\ Back = BackOf(lines) /\ Back' = BackOf(disk')
    BY <1>5 DEF Stored, Back
  <1>7. Written(disk)' /\ Back' \in Seq(Item) /\ Beside'
    <2>1. CASE disk' = Append(disk, Marker)
      <3>1. Written(disk)' /\ Back' = Back
        BY <2>1, MarkerRead, WrittenIs DEF Stored
      <3>2. Beside'
        BY <1>1, <1>2, <1>3, <1>4, <3>1, ReadStill
      <3> QED BY <3>1, <3>2 DEF Stored
    <2>2. CASE sdk.open # NoBlock /\ disk' = disk \o <<TextLine(sdk.open.key, sdk.open.text), Marker>>
      <3>1. Opened
        BY <2>2 DEF Opened
      <3>2. PICK x \in Line : x = TextLine(sdk.open.key, sdk.open.text)
        BY <3>1, OpenRead
      <3>3. PICK more : more = Append(lines, x)
        OBVIOUS
      <3>4. Written(more) /\ BackOf(more) = Reading(Back, x)
        BY <1>6, <3>3, WrittenMore
      <3>5. PICK marker \in Line : marker = Marker
        BY MarkerRead
      <3>6. disk' = Append(more, marker)
        <4>1. lines \in Seq(Line)
          BY <1>6 DEF Written
        <4>2. lines \o <<x, marker>> = Append(Append(lines, x), marker)
          BY <4>1
        <4> QED BY <1>5, <2>2, <3>2, <3>3, <3>5, <4>2
      <3>7. Written(disk)' /\ Back' = Reading(BackOf(more), marker)
        <4>1. Written(Append(more, marker)) /\ BackOf(Append(more, marker)) = Reading(BackOf(more), marker)
          BY <3>4, <3>5, WrittenMore
        <4> QED BY <1>6, <3>6, <4>1
      <3>8. Back' = Reading(Back, x)
        BY <3>4, <3>5, <3>7, MarkerRead
      <3>9. CASE sdk.open.text = 0
        <4>1. Back' = Back
          BY <3>1, <3>2, <3>8, <3>9, OpenRead
        <4>2. Beside'
          BY <1>1, <1>2, <1>3, <1>4, <4>1, ReadStill
        <4> QED BY <3>7, <4>1, <4>2 DEF Stored
      <3>10. CASE sdk.open.text # 0
        <4>0. sdk.open.text > 0
          BY <3>1, <3>10, OpenedIs
        <4>1. Back' = Append(Back, sdk.open)
          BY <3>1, <3>2, <3>8, <3>10, OpenRead
        <4>2. PICK i \in DOMAIN settled : settled[i] = sdk.open /\ (~queued => i = Len(settled))
          BY <3>1, OpenedIs
        <4>3. PICK it \in Item : it = sdk.open
          BY <3>1, OpenedIs
        <4>4. /\ it.text > 0 /\ it.key \notin kept /\ it.key \notin Queued'
              /\ \A k \in DOMAIN Back : Back[k].key # it.key
          BY <1>3, <3>1, <4>0, <4>3, OpenedIs
        <4>5. Back' \in Seq(Item) /\ Beside'
          BY <1>1, <1>2, <1>3, <1>4, <4>1, <4>2, <4>3, <4>4, ReadMore
        <4> QED BY <3>7, <4>5
      <3> QED BY <3>9, <3>10
    <2> QED BY <2>1, <2>2 DEF Interrupt
  <1> QED BY <1>1, <1>2, <1>3, <1>4, <1>7, QuietStored

LEMMA TextStopStored ==
    ASSUME Told, Stored, TextStop
    PROVE  Stored'
  <1>1. PICK block : block = sdk.open
    OBVIOUS
  <1>2. /\ Opened /\ UNCHANGED <<cut, kept, queued>>
        /\ sdk' = [sdk EXCEPT !.open = NoBlock, !.blocks = Append(@, block),
                              !.running = IF block.kind = "tool" THEN @ \cup {block.key} ELSE @]
        /\ disk' = Append(disk, TextLine(sdk.open.key, sdk.open.text))
    BY <1>1 DEF TextStop, BlockStop, history, Opened
  <1>3. PICK from \in {1, NextIndex} : HandleAssistant(SubSeq(Append(sdk.blocks, block), from, NextIndex))
    BY <1>1 DEF TextStop, BlockStop
  <1>4. block \in [key : TextKeys \cup Tools, kind : {"text", "tool"}, text : Nat, result : {Unsettled}]
        /\ block.kind = "text"
    <2>1. block \in [key : TextKeys, kind : {"text"}, text : Nat, result : {Unsettled}]
      BY <1>1, <1>2, Fields DEF Opened
    <2> QED BY <2>1
  <1>5. settled' = settled
    BY <1>3, <1>4, HandledIs
  <1>6. /\ sdk'.queue = sdk.queue /\ sdk'.turn = sdk.turn /\ sdk'.streams = sdk.streams
        /\ sdk'.running = sdk.running /\ sdk'.compacting = sdk.compacting /\ sdk'.open = NoBlock
    <2>1. PICK blocks : blocks = Append(sdk.blocks, block)
      OBVIOUS
    <2>2. sdk' = [sdk EXCEPT !.open = NoBlock, !.blocks = blocks, !.running = sdk.running]
      BY <1>2, <1>4, <2>1
    <2> QED BY <2>2 DEF Told, Shape, SdkState
  <1>7. Queued' = Queued /\ ~Opened'
    BY <1>6 DEF Queued, Opened
  <1>8. PICK x \in Line : x = TextLine(sdk.open.key, sdk.open.text)
    BY <1>2, OpenRead
  <1>9. Written(disk)' /\ Back' = Reading(Back, x)
    BY <1>2, <1>8, WrittenIs DEF Stored
  <1>10. Back' \in Seq(Item) /\ Beside'
    <2>1. CASE sdk.open.text = 0
      <3>1. Back' = Back
        BY <1>2, <1>8, <1>9, <2>1, OpenRead
      <3>2. Beside'
        BY <1>2, <1>5, <1>6, <1>7, <2>1, <3>1, ReadStill
      <3> QED BY <3>1, <3>2 DEF Stored
    <2>2. CASE sdk.open.text # 0
      <3>0. sdk.open.text > 0
        BY <1>2, <2>2, OpenedIs
      <3>1. Back' = Append(Back, sdk.open)
        BY <1>2, <1>8, <1>9, <2>2, OpenRead
      <3>2. PICK i \in DOMAIN settled : settled[i] = sdk.open /\ (~queued => i = Len(settled))
        BY <1>2, OpenedIs
      <3>3. PICK it \in Item : it = sdk.open
        BY <1>2, OpenedIs
      <3>4. /\ it.text > 0 /\ it.key \notin kept /\ it.key \notin Queued'
            /\ \A k \in DOMAIN Back : Back[k].key # it.key
        BY <1>2, <1>7, <3>0, <3>3, OpenedIs
      <3> QED BY <1>2, <1>5, <1>6, <1>7, <3>1, <3>2, <3>3, <3>4, ReadMore
    <2> QED BY <2>1, <2>2
  <1>11. ~sdk'.turn => ~sdk'.streams /\ sdk'.running = {}
    BY <1>6 DEF Stored, Rests
  <1>12. sdk'.running \cap cut' = {}
    BY <1>2, <1>6 DEF Stored, GoneWasShown
  <1> QED BY <1>2, <1>5, <1>6, <1>7, <1>9, <1>10, <1>11, <1>12, QuietStored

LEMMA BoundaryStored ==
    ASSUME Told, Stored, CompactBoundary
    PROVE  Stored'
  <1>1. /\ UNCHANGED <<settled, cut, queued>> /\ upsets < MaxUpsets
        /\ sdk.turn /\ ~sdk.streams /\ sdk.running = {}
        /\ sdk' = [sdk EXCEPT !.compacting = TRUE]
        /\ disk' = <<UserLine(<<Summary, upsets + 1>>)>>
        /\ kept' = {settled[i].key : i \in DOMAIN settled} \ Range(sdk.queue)
    BY DEF CompactBoundary
  <1>2. /\ sdk'.queue = sdk.queue /\ sdk'.turn = sdk.turn /\ sdk'.streams = sdk.streams
        /\ sdk'.running = sdk.running /\ sdk'.compacting = TRUE /\ sdk'.open = sdk.open
    BY <1>1 DEF Told, Shape, SdkState
  <1>3. Keys' = Keys /\ Queued' = Queued /\ kept' = Keys \ Queued
    BY <1>1, <1>2, QuietIs DEF Queued, Keys, Range
  <1>4. ~Opened /\ ~Opened'
    BY <1>1, <1>2 DEF Told, StreamsNewest, Opened
  <1>5. PICK key \in {Summary} \X (1 .. MaxUpsets) : key = <<Summary, upsets + 1>>
    <2>1. upsets + 1 \in 1 .. MaxUpsets
      BY <1>1, Fields, Bounds
    <2> QED BY <2>1
  <1>6. key \notin Keys
    <2>1. upsets \in Nat /\ upsets + 1 \in 1 .. MaxUpsets
      BY <1>1, Fields, Bounds
    <2>2. ~(upsets + 1 <= upsets)
      BY <2>1
    <2> QED BY <1>5, <2>1, <2>2 DEF Told, SummaryIsNew
  <1>7. PICK it \in Item : it = UserItem(key)
    BY UserItemIs
  <1>8. it.key = key /\ it.kind = "user"
    BY <1>7, UserItemIs
  <1>9. Back' = <<it>> /\ Written(disk)'
    <2>1. PICK line \in Line : line = UserLine(key)
      BY UserRead
    <2>2. disk' = Append(<<>>, line)
      BY <1>1, <1>5, <2>1
    <2>3. Written(Append(<<>>, line)) /\ BackOf(Append(<<>>, line)) = Reading(<<>>, line)
      BY NothingWritten, WrittenMore
    <2>4. Back' = Append(<<>>, it)
      BY <1>7, <2>1, <2>2, <2>3, UserRead DEF Back
    <2> QED BY <2>2, <2>3, <2>4
  <1>10. Back' \in Seq(Item) /\ DOMAIN Back' = {1} /\ Back'[1] = it
    BY <1>9
  <1>11. Rests' /\ Plain'
    BY <1>1, <1>2 DEF Stored, Rests, Plain
  <1>12. QueueIsNew'
    BY <1>1, <1>2, <1>3 DEF Stored, QueueIsNew
  <1>13. OpenIsItem' /\ GoneWasShown'
    BY <1>1, <1>2, <1>3, <1>4 DEF Stored, GoneWasShown, OpenIsItem
  <1>14. \A i \in DOMAIN settled : settled[i].key \in Keys /\ settled[i].key # key
    BY <1>6 DEF Keys
  <1>15. ReadIsShown'
    <2>1. key \notin kept' \cup Queued'
      BY <1>3, <1>6 DEF Stored, QueueIsNew
    <2> QED BY <1>2, <1>4, <1>8, <1>10, <2>1 DEF ReadIsShown
  <1>16. ReadAsShown' /\ ReadInOrder'
    BY <1>1, <1>8, <1>10, <1>14 DEF ReadAsShown, ReadInOrder
  <1>17. ShownIsRead'
    BY <1>1, <1>3, <1>14 DEF ShownIsRead
  <1>18. queued' \in BOOLEAN
    BY <1>1 DEF Stored
  <1> QED BY <1>9, <1>10, <1>11, <1>12, <1>13, <1>15, <1>16, <1>17, <1>18 DEF Stored

LEMMA SummaryStored ==
    ASSUME Told, Stored, CompactSummary
    PROVE  Stored'
  <1>1. /\ UNCHANGED <<disk, cut, kept, queued>>
        /\ sdk.compacting /\ streaming.summary
        /\ sdk' = [sdk EXCEPT !.compacting = FALSE]
        /\ Emit(<<AppendDelta(UserItem(SummaryKey))>>)
    BY DEF CompactSummary, history, Told, SummaryIsNew
  <1>2. PICK key \in {Summary} \X (1 .. MaxUpsets) :
           Back = <<UserItem(key)>> /\ key \notin Keys \cup Prompts /\ SummaryKey = key
    BY <1>1, CompactingCold
  <1>3. PICK it \in Item : it = UserItem(key)
    BY UserItemIs
  <1>4. /\ it.key = key /\ it.kind = "user" /\ it.text = 0 /\ it.result = Unsettled
        /\ key \notin Tools \cup TextKeys
    BY <1>3, UserItemIs
  <1>5. settled' = Append(settled, it)
    BY <1>1, <1>2, <1>3, AppendIs, EmitIs
  <1>6. /\ OnceEach' /\ Keys' = Keys \cup {it.key}
        /\ Len(settled) + 1 \notin DOMAIN settled
        /\ DOMAIN settled' = DOMAIN settled \cup {Len(settled) + 1}
        /\ \A j \in DOMAIN settled : settled'[j] = settled[j]
        /\ settled'[Len(settled) + 1] = it
    BY <1>2, <1>4, <1>5, Appending DEF Told
  <1>7. /\ sdk'.queue = sdk.queue /\ sdk'.turn = sdk.turn /\ sdk'.streams = sdk.streams
        /\ sdk'.running = sdk.running /\ sdk'.compacting = FALSE /\ sdk'.open = sdk.open
    BY <1>1 DEF Told, Shape, SdkState
  <1>8. ~Opened /\ ~Opened' /\ sdk.turn /\ sdk.running = {}
    BY <1>1, <1>7 DEF Told, StreamsNewest, SummaryIsNew, Opened
  <1>9. Back' = Back /\ Queued' = Queued /\ DOMAIN Back = {1} /\ Back[1] = it
    BY <1>1, <1>2, <1>3, <1>7 DEF Back, Queued
  <1>10. Rests' /\ Plain'
    BY <1>4, <1>6, <1>7, <1>8 DEF Stored, Rests, Plain
  <1>11. QueueIsNew'
    BY <1>1, <1>6, <1>7, <1>8, <1>9 DEF Stored, QueueIsNew
  <1>12. OpenIsItem' /\ GoneWasShown'
    BY <1>1, <1>6, <1>7, <1>8 DEF Stored, GoneWasShown, OpenIsItem
  <1>13. \A j \in DOMAIN settled : settled[j].key # it.key
    BY <1>2, <1>4 DEF Keys
  <1>n. PICK n : n = Len(settled) + 1
    OBVIOUS
  <1>14. ReadIsShown'
    BY <1>1, <1>4, <1>6, <1>8, <1>9 DEF Stored, ReadIsShown
  <1>15. ReadAsShown'
    <2> SUFFICES ASSUME NEW i \in DOMAIN settled', settled'[i].key = it.key
                 PROVE  settled'[i] = it
      BY <1>9 DEF ReadAsShown
    <2> QED BY <1>6, <1>13
  <1>16. ReadInOrder'
    <2> SUFFICES ASSUME NEW i \in DOMAIN settled', NEW j \in DOMAIN settled',
                        settled'[i].key = it.key, settled'[j].key = it.key
                 PROVE  ~(i < j)
      BY <1>9 DEF ReadInOrder
    <2>1. i = n /\ j = n
      BY <1>6, <1>13, <1>n
    <2>2. n \in Nat
      BY <1>n, Fields
    <2> QED BY <2>1, <2>2
  <1>17. ShownIsRead'
    <2> SUFFICES ASSUME NEW j \in DOMAIN settled'
                 PROVE  \/ settled'[j].key \in cut' \cup kept' \cup Queued'
                        \/ Opened' /\ settled'[j].key = sdk'.open.key
                        \/ settled'[j].kind = "text" /\ settled'[j].text = 0
                        \/ \E k \in DOMAIN Back' : Back'[k].key = settled'[j].key
      BY DEF ShownIsRead
    <2>1. CASE j = n
      BY <1>6, <1>9, <1>n, <2>1
    <2>2. CASE j \in DOMAIN settled
      BY <1>1, <1>6, <1>8, <1>9, <2>2 DEF Stored, ShownIsRead
    <2> QED BY <1>6, <1>n, <2>1, <2>2
  <1>18. Written(disk)' /\ Back' \in Seq(Item) /\ queued' \in BOOLEAN
    BY <1>1, <1>9 DEF Stored
  <1> QED BY <1>10, <1>11, <1>12, <1>14, <1>15, <1>16, <1>17, <1>18 DEF Stored

-----------------------------------------------------------------------------
(* Steps that show an item more.                                           *)

LEMMA PushStored ==
    ASSUME Told, Stored, NEW p \in Prompts, Push(p)
    PROVE  Stored'
  <1>1. /\ UNCHANGED <<disk, streaming, cut, kept>> /\ commands[p] # "done"
        /\ sdk' = [sdk EXCEPT !.queue = Append(@, p)]
        /\ queued' = (queued \/ sdk.turn \/ sdk.queue # <<>>)
    BY DEF Push
  <1>2. PICK it \in Item : it = UserItem(p)
    BY UserItemIs
  <1>3. /\ it.key = p /\ it.kind = "user" /\ it.text = 0 /\ it.result = Unsettled
        /\ p \notin Tools \cup TextKeys
    BY <1>2, UserItemIs
  <1>4. settled' = Append(settled, it)
    BY <1>2, AppendIs DEF Push
  <1>5. p \notin Keys
    BY <1>1 DEF Told, PromptsDone
  <1>6. /\ OnceEach' /\ Keys' = Keys \cup {it.key}
        /\ Len(settled) + 1 \notin DOMAIN settled
        /\ DOMAIN settled' = DOMAIN settled \cup {Len(settled) + 1}
        /\ \A j \in DOMAIN settled : settled'[j] = settled[j]
        /\ settled'[Len(settled) + 1] = it
    BY <1>3, <1>4, <1>5, Appending DEF Told
  <1>l. Len(settled') = Len(settled) + 1
    BY <1>4, Fields
  <1>7. PICK queue \in Seq(Prompts) : queue = sdk.queue
    BY Fields
  <1>8. /\ sdk'.queue = Append(queue, p) /\ sdk'.turn = sdk.turn /\ sdk'.streams = sdk.streams
        /\ sdk'.running = sdk.running /\ sdk'.compacting = sdk.compacting /\ sdk'.open = sdk.open
    <2>1. PICK longer : longer = Append(queue, p)
      OBVIOUS
    <2> QED BY <1>1, <1>7, <2>1 DEF Told, Shape, SdkState
  <1>9. Back' = Back /\ Opened' = Opened
    BY <1>1, <1>8 DEF Back, Opened
  <1>10. PICK m \in Nat : m = Len(queue) + 1
    OBVIOUS
  <1>11. /\ DOMAIN sdk'.queue = DOMAIN queue \cup {m} /\ m \notin DOMAIN queue /\ sdk'.queue[m] = p
         /\ \A n \in DOMAIN queue : sdk'.queue[n] = queue[n]
    BY <1>8, <1>10
  <1>12. Queued' = Queued \cup {p}
    BY <1>7, <1>11 DEF Queued
  <1>13. \A k \in DOMAIN Back : Back[k].key # it.key
    <2>1. CASE sdk.compacting
      <3>1. PICK key \in {Summary} \X (1 .. MaxUpsets) : Back = <<UserItem(key)>> /\ key \notin Keys \cup Prompts
        BY <2>1, CompactingCold
      <3>2. UserItem(key).key = key
        BY DEF UserItem
      <3> QED BY <1>3, <3>1, <3>2
    <2>2. CASE ~sdk.compacting
      BY <1>3, <1>5, <2>2 DEF Stored, ReadIsShown
    <2> QED BY <2>1, <2>2
  <1>q. queued' \in BOOLEAN /\ (queued => queued') /\ (~queued' => ~queued /\ ~sdk.turn /\ queue = <<>>)
    BY <1>1, <1>7
  <1>14. Beside'
    BY <1>1, <1>3, <1>4, <1>6, <1>8, <1>9, <1>12, <1>13, <1>q, ShownMore
  <1>15. Rests' /\ Plain'
    BY <1>3, <1>6, <1>8 DEF Stored, Rests, Plain
  <1>16. QueueIsNew'
    <2>1. p \notin kept /\ p \notin Queued
      BY <1>5 DEF Stored, GoneWasShown, QueueIsNew
    <2>2. Queued' \subseteq Keys' \ kept'
      BY <1>1, <1>3, <1>6, <1>12, <2>1 DEF Stored, QueueIsNew
    <2>3. \A j, n \in DOMAIN sdk'.queue : sdk'.queue[j] = sdk'.queue[n] => j = n
      <3>1. \A n \in DOMAIN queue : queue[n] # p
        BY <1>7, <2>1 DEF Queued
      <3>2. \A j, n \in DOMAIN queue : queue[j] = queue[n] => j = n
        BY <1>7 DEF Stored, QueueIsNew
      <3> QED BY <1>11, <3>1, <3>2
    <2>4. ~queued' => ~sdk'.turn /\ Len(sdk'.queue) = 1 /\ sdk'.queue[1] = settled'[Len(settled')].key
      <3> SUFFICES ASSUME ~queued' 
                   PROVE  ~sdk'.turn /\ Len(sdk'.queue) = 1 /\ sdk'.queue[1] = settled'[Len(settled')].key
        OBVIOUS
      <3>1. sdk'.queue = <<p>> /\ ~sdk'.turn
        BY <1>8, <1>q
      <3>2. settled'[Len(settled')].key = p
        BY <1>3, <1>6, <1>l
      <3> QED BY <3>1, <3>2
    <2> QED BY <2>2, <2>3, <2>4 DEF QueueIsNew
  <1>17. OpenIsItem'
    <2>1. Opened => sdk.turn
      BY OpenedIs
    <2> QED BY <1>1, <1>6, <1>8, <1>9, <1>q, <2>1 DEF Stored, OpenIsItem
  <1>18. GoneWasShown'
    BY <1>1, <1>6, <1>8 DEF Stored, GoneWasShown
  <1>19. Written(disk)' /\ Back' \in Seq(Item)
    BY <1>1, <1>9 DEF Stored
  <1> QED BY <1>14, <1>15, <1>16, <1>17, <1>18, <1>19, <1>q DEF Stored, Beside

\* Nothing that is read has a key that no item has.
LEMMA NewIsUnread ==
    ASSUME Told, Stored, sdk.streams, NEW key, key \notin Keys
    PROVE  /\ sdk.turn /\ ~sdk.compacting /\ \A k \in DOMAIN Back : Back[k].key # key
           /\ key \notin cut \cup kept \cup Queued /\ (~queued => sdk.queue = <<>>)
  <1>1. sdk.turn /\ ~sdk.compacting
    BY DEF Told, SummaryIsNew, Stored, Rests
  <1>2. \A k \in DOMAIN Back : Back[k].key # key
    BY <1>1 DEF Stored, ReadIsShown
  <1>3. key \notin cut \cup kept \cup Queued /\ (~queued => sdk.queue = <<>>)
    BY <1>1 DEF Stored, GoneWasShown, QueueIsNew
  <1> QED BY <1>1, <1>2, <1>3

LEMMA TextStartStored ==
    ASSUME Told, Stored, TextStart
    PROVE  Stored'
  <1>1. /\ UNCHANGED <<disk, cut, kept, queued>>
        /\ sdk.streams /\ sdk.open = NoBlock /\ Len(sdk.blocks) < MaxBlocks
        /\ sdk' = [sdk EXCEPT !.open = TextItem(Key(NextIndex), 0)]
        /\ streaming' = [streaming EXCEPT !.texts = @ \cup {Key(NextIndex)}]
        /\ Emit(<<AppendDelta(TextItem(Key(NextIndex), 0))>>)
    BY DEF TextStart, history
  <1>2. PICK key \in TextKeys : key = Key(NextIndex)
    BY <1>1, NextBlock
  <1>3. key \notin Keys
    BY <1>1, <1>2, NextBlock
  <1>4. PICK it \in Item : it = TextItem(key, 0)
    BY TextItemIs
  <1>5. /\ it.key = key /\ it.kind = "text" /\ it.text = 0 /\ it.result = Unsettled
        /\ key \notin Prompts \cup Tools /\ it # NoBlock
    BY <1>4, TextItemIs
  <1>6. settled' = Append(settled, it)
    BY <1>1, <1>2, <1>4, AppendIs, EmitIs
  <1>7. /\ OnceEach' /\ Keys' = Keys \cup {it.key}
        /\ Len(settled) + 1 \notin DOMAIN settled
        /\ DOMAIN settled' = DOMAIN settled \cup {Len(settled) + 1}
        /\ \A j \in DOMAIN settled : settled'[j] = settled[j]
        /\ settled'[Len(settled) + 1] = it
    BY <1>3, <1>5, <1>6, Appending DEF Told
  <1>l. Len(settled') = Len(settled) + 1
    BY <1>6, Fields
  <1>8. /\ sdk'.queue = sdk.queue /\ sdk'.turn = sdk.turn /\ sdk'.streams = sdk.streams
        /\ sdk'.running = sdk.running /\ sdk'.compacting = sdk.compacting /\ sdk'.open = it
    <2>1. sdk' = [sdk EXCEPT !.open = it]
      BY <1>1, <1>2, <1>4
    <2> QED BY <2>1 DEF Told, Shape, SdkState
  <1>9. streaming'.texts = streaming.texts \cup {key}
    <2>1. PICK texts : texts = streaming.texts \cup {key}
      OBVIOUS
    <2>2. streaming' = [streaming EXCEPT !.texts = texts]
      BY <1>1, <1>2, <2>1
    <2> QED BY <2>1, <2>2 DEF Told, Shape, Streaming
  <1>10. Back' = Back /\ Queued' = Queued /\ ~Opened /\ Opened'
    BY <1>1, <1>5, <1>8 DEF Back, Queued, Opened
  <1>11. /\ sdk.turn /\ ~sdk.compacting /\ \A k \in DOMAIN Back : Back[k].key # key
         /\ key \notin cut \cup kept \cup Queued /\ (~queued => sdk.queue = <<>>)
    BY <1>1, <1>3, NewIsUnread
  <1>12. Beside'
    BY <1>1, <1>5, <1>6, <1>7, <1>8, <1>10, <1>11, ShownMore
  <1>13. Rests' /\ Plain'
    BY <1>5, <1>7, <1>8 DEF Stored, Rests, Plain
  <1>14. QueueIsNew'
    <2>1. Queued' \subseteq Keys' \ kept'
      BY <1>1, <1>7, <1>10 DEF Stored, QueueIsNew
    <2>2. ~queued' => sdk'.queue = <<>>
      BY <1>1, <1>8, <1>11
    <2> QED BY <1>8, <2>1, <2>2 DEF Stored, QueueIsNew
  <1>15. OpenIsItem'
    <2>1. \E i \in DOMAIN settled' : settled'[i] = sdk'.open
      BY <1>7, <1>8
    <2>2. sdk'.open.key \in streaming'.texts /\ sdk'.open.key \notin cut' \cup kept'
      BY <1>1, <1>5, <1>8, <1>9, <1>11
    <2>3. settled'[Len(settled')].key = sdk'.open.key
      BY <1>7, <1>8, <1>l
    <2> QED BY <2>1, <2>2, <2>3 DEF OpenIsItem
  <1>16. GoneWasShown'
    BY <1>1, <1>7, <1>8 DEF Stored, GoneWasShown
  <1>17. Written(disk)' /\ Back' \in Seq(Item) /\ queued' \in BOOLEAN
    BY <1>1, <1>10 DEF Stored
  <1> QED BY <1>12, <1>13, <1>14, <1>15, <1>16, <1>17 DEF Stored, Beside

LEMMA TextDeltaStored ==
    ASSUME Told, Stored, TextDelta
    PROVE  Stored'
  <1>1. /\ UNCHANGED <<disk, streaming, cut, kept, queued>>
        /\ Opened /\ sdk' = [sdk EXCEPT !.open.text = @ + 1]
        /\ Emit(IF Key(NextIndex) \in streaming.texts THEN <<PatchText(Key(NextIndex))>> ELSE <<>>)
    BY DEF TextDelta, history, Opened
  <1>2. PICK key \in TextKeys : key = sdk.open.key
    BY <1>1, OpenedIs
  <1>3. Key(NextIndex) = key
    <2>1. /\ streaming.current = sdk.message
          /\ sdk.open = TextItem(<<sdk.message, Len(sdk.blocks) + 1>>, sdk.open.text)
      BY <1>1 DEF Told, StreamsNewest
    <2>2. key = <<sdk.message, Len(sdk.blocks) + 1>>
      BY <1>2, <2>1 DEF TextItem
    <2> QED BY <2>1, <2>2 DEF Key, NextIndex
  <1>4. PICK i \in DOMAIN settled : settled[i] = sdk.open /\ (~queued => i = Len(settled))
    BY <1>1, OpenedIs
  <1>5. settled' = Fold(settled, PatchText(key))
    <2>1. key \in streaming.texts
      BY <1>1, <1>2 DEF Stored, OpenIsItem
    <2> QED BY <1>1, <1>3, <2>1, EmitIs
  <1>6. /\ DOMAIN settled' = DOMAIN settled /\ Len(settled') = Len(settled)
        /\ \A j \in DOMAIN settled : j # i => settled'[j] = settled[j]
        /\ settled'[i] = [settled[i] EXCEPT !.text = @ + 1]
    <2>1. PICK d : d = PatchText(key)
      OBVIOUS
    <2>2. d.op = "patch_text" /\ d.item.key = key
      BY <2>1 DEF PatchText, TextItem
    <2>3. Shape /\ OnceEach /\ settled[i].key = d.item.key /\ settled' = Fold(settled, d) /\ d.op # "append"
      BY <1>2, <1>4, <1>5, <2>1, <2>2 DEF Told
    <2> QED BY <2>2, <2>3, Patching
  <1>7. PICK open : open = [sdk.open EXCEPT !.text = @ + 1]
    OBVIOUS
  <1>8. /\ open.key = key /\ open.kind = "text" /\ open.result = Unsettled /\ sdk.open.kind = "text"
    <2>1. sdk.open \in [key : TextKeys, kind : {"text"}, text : Nat, result : {Unsettled}]
      BY <1>1, Fields DEF Opened
    <2> QED BY <1>2, <1>7, <2>1
  <1>9. settled'[i] = open
    BY <1>4, <1>6, <1>7
  <1>10. /\ sdk'.queue = sdk.queue /\ sdk'.turn = sdk.turn /\ sdk'.streams = sdk.streams
         /\ sdk'.running = sdk.running /\ sdk'.compacting = sdk.compacting /\ sdk'.open = open
    <2>1. sdk' = [sdk EXCEPT !.open = open]
      BY <1>1, <1>7
    <2> QED BY <2>1 DEF Told, Shape, SdkState
  <1>11. \A j \in DOMAIN settled : settled'[j].key = settled[j].key /\ settled'[j].kind = settled[j].kind
    <2>1. settled'[i].key = settled[i].key /\ settled'[i].kind = settled[i].kind
      BY <1>2, <1>4, <1>8, <1>9
    <2> QED BY <1>6, <2>1
  <1>12. Back' = Back /\ Queued' = Queued /\ Keys' = Keys
    BY <1>1, <1>6, <1>10, <1>11 DEF Back, Queued, Keys
  <1>13. \A k \in DOMAIN Back : Back[k].key # key
    BY <1>1, <1>2 DEF Stored, ReadIsShown
  <1>14. Opened'
    <2>1. PICK n \in Nat : n = sdk.open.text + 1
      BY <1>1, OpenedIs
    <2>2. sdk.open = TextItem(key, sdk.open.text)
      BY <1>1, <1>2, OpenedIs
    <2>3. open = TextItem(key, n)
      BY <1>7, <2>1, <2>2 DEF TextItem
    <2>4. open # NoBlock
      BY <2>3, TextItemIs
    <2> QED BY <1>10, <2>4 DEF Opened
  <1>15. ReadIsShown'
    BY <1>1, <1>8, <1>10, <1>12, <1>13 DEF Stored, ReadIsShown
  <1>16. ReadAsShown'
    <2> SUFFICES ASSUME NEW j \in DOMAIN settled', NEW k \in DOMAIN Back,
                        settled'[j].key = Back[k].key, Back[k].key \notin cut
                 PROVE  /\ settled'[j].kind = Back[k].kind /\ settled'[j].text = Back[k].text
                        /\ Back[k].key \notin sdk.running => settled'[j].result = Back[k].result
      BY <1>1, <1>10, <1>12 DEF ReadAsShown
    <2>1. j # i
      BY <1>8, <1>9, <1>13
    <2>2. settled'[j] = settled[j] /\ j \in DOMAIN settled
      BY <1>6, <2>1
    <2> QED BY <2>2 DEF Stored, ReadAsShown
  <1>17. ShownIsRead'
    <2> SUFFICES ASSUME NEW j \in DOMAIN settled, j # i
                 PROVE  \/ settled'[j].key \in cut' \cup kept' \cup Queued'
                        \/ Opened' /\ settled'[j].key = sdk'.open.key
                        \/ settled'[j].kind = "text" /\ settled'[j].text = 0
                        \/ \E k \in DOMAIN Back' : Back'[k].key = settled'[j].key
      BY <1>6, <1>8, <1>9, <1>10, <1>14 DEF ShownIsRead
    <2>1. settled'[j] = settled[j] /\ settled[j].key # key
      BY <1>2, <1>4, <1>6 DEF Told, OnceEach
    <2> QED BY <1>1, <1>2, <1>12, <2>1 DEF Stored, ShownIsRead
  <1>18. ReadInOrder'
    BY <1>1, <1>6, <1>11, <1>12 DEF Stored, ReadInOrder
  <1>19. Rests' /\ Plain'
    <2>1. Rests'
      BY <1>10 DEF Stored, Rests
    <2>2. Plain'
      BY <1>6, <1>8, <1>9 DEF Stored, Plain
    <2> QED BY <2>1, <2>2
  <1>20. QueueIsNew'
    <2>1. sdk.turn
      BY <1>1, OpenedIs
    <2> QED BY <1>1, <1>10, <1>12, <2>1 DEF Stored, QueueIsNew
  <1>21. OpenIsItem'
    <2>1. settled'[Len(settled')].key = settled[Len(settled)].key
      <3>1. Len(settled) \in DOMAIN settled
        BY <1>4, Fields
      <3> QED BY <1>6, <1>11, <3>1
    <2> QED BY <1>1, <1>2, <1>6, <1>8, <1>9, <1>10, <2>1 DEF Stored, OpenIsItem
  <1>22. GoneWasShown'
    BY <1>1, <1>10, <1>12 DEF Stored, GoneWasShown
  <1>23. Written(disk)' /\ Back' \in Seq(Item) /\ queued' \in BOOLEAN
    BY <1>1, <1>12 DEF Stored
  <1> QED BY <1>15, <1>16, <1>17, <1>18, <1>19, <1>20, <1>21, <1>22, <1>23 DEF Stored

LEMMA ToolUseStored ==
    ASSUME Told, Stored, NEW t \in Tools, ToolUse(t)
    PROVE  Stored'
  <1>1. PICK it \in Item : it = ToolItem(t, Unsettled)
    BY ToolItemIs
  <1>2. /\ it.key = t /\ it.kind = "tool" /\ it.text = 0 /\ it.result = Unsettled
        /\ t \notin Prompts \cup TextKeys
    BY <1>1, ToolItemIs
  <1>3. /\ UNCHANGED <<cut, kept, queued>> /\ t \notin streaming.appended
        /\ sdk.streams /\ ~Opened
        /\ sdk' = [sdk EXCEPT !.open = NoBlock, !.blocks = Append(@, it),
                              !.running = IF it.kind = "tool" THEN @ \cup {it.key} ELSE @]
        /\ disk' = Append(disk, ToolLine(t))
    BY <1>1 DEF ToolUse, BlockStop, history, Opened, Used
  <1>4. PICK from \in {1, NextIndex} : HandleAssistant(SubSeq(Append(sdk.blocks, it), from, NextIndex))
    BY <1>1 DEF ToolUse, BlockStop
  <1>5. it \in [key : TextKeys \cup Tools, kind : {"text", "tool"}, text : Nat, result : {Unsettled}]
    BY <1>1 DEF ToolItem
  <1>6. settled' = Append(settled, it)
    <2>1. it.key \notin streaming.appended /\ it = ToolItem(it.key, Unsettled)
      BY <1>1, <1>2, <1>3
    <2> QED BY <1>2, <1>4, <1>5, <2>1, HandledIs
  <1>7. /\ sdk'.queue = sdk.queue /\ sdk'.turn = sdk.turn /\ sdk'.streams = sdk.streams
        /\ sdk'.running = sdk.running \cup {t} /\ sdk'.compacting = sdk.compacting /\ sdk'.open = NoBlock
    <2>1. PICK blocks, running : blocks = Append(sdk.blocks, it) /\ running = sdk.running \cup {t}
      OBVIOUS
    <2>2. sdk' = [sdk EXCEPT !.open = NoBlock, !.blocks = blocks, !.running = running]
      BY <1>2, <1>3, <2>1
    <2> QED BY <2>1, <2>2 DEF Told, Shape, SdkState
  <1>8. t \notin Keys
    BY <1>3 DEF Told, CallsKnown
  <1>9. /\ OnceEach' /\ Keys' = Keys \cup {it.key}
        /\ Len(settled) + 1 \notin DOMAIN settled
        /\ DOMAIN settled' = DOMAIN settled \cup {Len(settled) + 1}
        /\ \A j \in DOMAIN settled : settled'[j] = settled[j] /\ j < Len(settled) + 1
        /\ settled'[Len(settled) + 1] = it
    BY <1>2, <1>6, <1>8, Appending DEF Told
  <1>n. PICK n \in Nat : n = Len(settled) + 1
    BY Fields
  <1>10. /\ sdk.turn /\ ~sdk.compacting /\ \A k \in DOMAIN Back : Back[k].key # t
         /\ t \notin cut \cup kept \cup Queued /\ (~queued => sdk.queue = <<>>)
    BY <1>3, <1>8, NewIsUnread
  <1>11. PICK read \in Item : read = AsRead(ToolItem(t, Unsettled))
    BY AsReadIs
  <1>12. read.key = t /\ read.kind = "tool" /\ read.text = 0
    BY <1>11, AsReadIs
  <1>13. Written(disk)' /\ Back' = Append(Back, read)
    BY <1>3, <1>11, CallRead, WrittenIs DEF Stored
  <1>14. PICK c \in Nat : c = Len(Back) + 1
    BY DEF Stored
  <1>15. /\ Back' \in Seq(Item) /\ DOMAIN Back' = DOMAIN Back \cup {c} /\ c \notin DOMAIN Back
         /\ Back'[c] = read /\ \A k \in DOMAIN Back : Back'[k] = Back[k] /\ k < c /\ k \in Nat
    BY <1>13, <1>14 DEF Stored
  <1>16. ~Opened' /\ Queued' = Queued
    BY <1>7 DEF Opened, Queued
  <1>17. \A j \in DOMAIN settled : settled[j].key # t
    BY <1>8 DEF Keys
  <1>18. Rests' /\ Plain'
    BY <1>2, <1>7, <1>9, <1>10 DEF Stored, Rests, Plain
  <1>19. QueueIsNew'
    BY <1>3, <1>7, <1>9, <1>10, <1>16 DEF Stored, QueueIsNew
  <1>20. OpenIsItem'
    BY <1>16 DEF OpenIsItem
  <1>21. GoneWasShown'
    BY <1>3, <1>7, <1>9, <1>10 DEF Stored, GoneWasShown
  <1>22. ReadIsShown'
    <2>1. \A k, l \in DOMAIN Back' : Back'[k].key = Back'[l].key => k = l
      BY <1>10, <1>12, <1>15 DEF Stored, ReadIsShown
    <2>2. \A k \in DOMAIN Back' :
             /\ Back'[k].key \in Keys' /\ Back'[k].key \notin kept' \cup Queued'
             /\ Back'[k].kind = "text" => Back'[k].text > 0
      <3> SUFFICES ASSUME NEW k \in DOMAIN Back'
                   PROVE  /\ Back'[k].key \in Keys' /\ Back'[k].key \notin kept' \cup Queued'
                          /\ Back'[k].kind = "text" => Back'[k].text > 0
        OBVIOUS
      <3>1. CASE k = c
        BY <1>2, <1>3, <1>9, <1>10, <1>12, <1>15, <1>16, <3>1
      <3>2. CASE k \in DOMAIN Back
        BY <1>3, <1>9, <1>10, <1>15, <1>16, <3>2 DEF Stored, ReadIsShown
      <3> QED BY <1>15, <3>1, <3>2
    <2> QED BY <1>16, <2>1, <2>2 DEF ReadIsShown
  <1>23. ReadAsShown'
    <2> SUFFICES ASSUME NEW j \in DOMAIN settled', NEW k \in DOMAIN Back',
                        settled'[j].key = Back'[k].key, Back'[k].key \notin cut
                 PROVE  /\ settled'[j].kind = Back'[k].kind /\ settled'[j].text = Back'[k].text
                        /\ Back'[k].key \notin sdk'.running => settled'[j].result = Back'[k].result
      BY <1>3 DEF ReadAsShown
    <2>1. CASE k = c
      <3>1. j = n
        BY <1>9, <1>n, <1>12, <1>15, <1>17, <2>1
      <3> QED BY <1>2, <1>7, <1>9, <1>n, <1>12, <1>15, <2>1, <3>1
    <2>2. CASE k \in DOMAIN Back
      <3>1. j # n
        BY <1>2, <1>9, <1>n, <1>10, <1>15, <2>2
      <3>2. j \in DOMAIN settled /\ settled'[j] = settled[j] /\ Back'[k] = Back[k]
        BY <1>9, <1>n, <1>15, <2>2, <3>1
      <3> QED BY <1>7, <2>2, <3>2 DEF Stored, ReadAsShown
    <2> QED BY <1>15, <2>1, <2>2
  <1>24. ShownIsRead'
    <2> SUFFICES ASSUME NEW j \in DOMAIN settled'
                 PROVE  \/ settled'[j].key \in cut' \cup kept' \cup Queued'
                        \/ settled'[j].kind = "text" /\ settled'[j].text = 0
                        \/ \E k \in DOMAIN Back' : Back'[k].key = settled'[j].key
      BY DEF ShownIsRead
    <2>1. CASE j = n
      BY <1>2, <1>9, <1>n, <1>12, <1>15, <2>1
    <2>2. CASE j \in DOMAIN settled
      <3>1. \/ settled[j].key \in cut \cup kept \cup Queued
            \/ settled[j].kind = "text" /\ settled[j].text = 0
            \/ \E k \in DOMAIN Back : Back[k].key = settled[j].key
        BY <1>3, <2>2 DEF Stored, ShownIsRead
      <3>2. settled'[j] = settled[j]
        BY <1>9, <2>2
      <3> QED BY <1>3, <1>15, <1>16, <3>1, <3>2
    <2> QED BY <1>9, <1>n, <2>1, <2>2
  <1>25. ReadInOrder'
    <2> SUFFICES ASSUME ~queued, NEW i \in DOMAIN settled', NEW j \in DOMAIN settled',
                        NEW k \in DOMAIN Back', NEW l \in DOMAIN Back',
                        settled'[i].key = Back'[k].key, settled'[j].key = Back'[l].key
                 PROVE  i < j <=> k < l
      BY <1>3 DEF ReadInOrder
    <2>1. \/ i \in DOMAIN settled /\ k \in DOMAIN Back /\ i < n /\ k < c
          \/ i = n /\ k = c
      BY <1>2, <1>9, <1>n, <1>10, <1>12, <1>15, <1>17
    <2>2. \/ j \in DOMAIN settled /\ l \in DOMAIN Back /\ j < n /\ l < c
          \/ j = n /\ l = c
      BY <1>2, <1>9, <1>n, <1>10, <1>12, <1>15, <1>17
    <2>3. CASE i \in DOMAIN settled /\ k \in DOMAIN Back /\ j \in DOMAIN settled /\ l \in DOMAIN Back
      BY <1>9, <1>15, <2>3 DEF Stored, ReadInOrder
    <2>4. i \in Nat /\ j \in Nat /\ k \in Nat /\ l \in Nat
      <3>1. DOMAIN settled \subseteq Nat
        BY Fields
      <3> QED BY <1>14, <1>n, <1>15, <2>1, <2>2, <3>1
    <2> QED BY <2>1, <2>2, <2>3, <2>4
  <1>26. queued' \in BOOLEAN
    BY <1>3 DEF Stored
  <1> QED BY <1>13, <1>15, <1>18, <1>19, <1>20, <1>21, <1>22, <1>23, <1>24, <1>25, <1>26 DEF Stored

\* A result settles the call it is of, wherever that is.
LEMMA CallsPatched ==
    ASSUME NEW s \in Seq(Item), NEW t \in Tools, NEW r \in Outcome
    PROVE  /\ Fold(s, PatchTool(t, r)) \in Seq(Item) /\ DOMAIN Fold(s, PatchTool(t, r)) = DOMAIN s
           /\ Len(Fold(s, PatchTool(t, r))) = Len(s)
           /\ \A j \in DOMAIN s :
                 /\ Fold(s, PatchTool(t, r))[j].key = s[j].key
                 /\ Fold(s, PatchTool(t, r))[j].kind = s[j].kind
                 /\ Fold(s, PatchTool(t, r))[j].text = s[j].text
                 /\ Fold(s, PatchTool(t, r))[j].result = IF s[j].key = t THEN r ELSE s[j].result
  <1>1. PICK d : d = PatchTool(t, r)
    OBVIOUS
  <1>2. d.op = "patch_tool_call" /\ d.item.key = t /\ d.item.result = r
    BY <1>1 DEF PatchTool, ToolItem
  <1>3. PICK patched : patched = Fold(s, d)
    OBVIOUS
  <1>4. patched = [j \in DOMAIN s |-> Patched(s[j], d)]
    BY <1>2, <1>3 DEF Fold
  <1>5. \A x \in Item : /\ Patched(x, d) \in Item
                        /\ Patched(x, d).key = x.key /\ Patched(x, d).kind = x.kind /\ Patched(x, d).text = x.text
                        /\ Patched(x, d).result = IF x.key = t THEN r ELSE x.result
    <2> SUFFICES ASSUME NEW x \in Item
                 PROVE  /\ Patched(x, d) \in Item
                        /\ Patched(x, d).key = x.key /\ Patched(x, d).kind = x.kind /\ Patched(x, d).text = x.text
                        /\ Patched(x, d).result = IF x.key = t THEN r ELSE x.result
      OBVIOUS
    <2>1. CASE x.key # t
      BY <1>2, <2>1 DEF Patched
    <2>2. CASE x.key = t
      <3>1. PICK y : y = [x EXCEPT !.result = r]
        OBVIOUS
      <3>2. Patched(x, d) = y
        BY <1>2, <2>2, <3>1 DEF Patched
      <3>3. y \in Item /\ y.key = x.key /\ y.kind = x.kind /\ y.text = x.text /\ y.result = r
        BY <3>1 DEF Item
      <3> QED BY <2>2, <3>2, <3>3
    <2> QED BY <2>1, <2>2
  <1>6. \A j \in DOMAIN s : s[j] \in Item /\ patched[j] = Patched(s[j], d)
    BY <1>4
  <1>7. patched \in Seq(Item) /\ DOMAIN patched = DOMAIN s /\ Len(patched) = Len(s)
    BY <1>4, <1>5, <1>6
  <1>8. \A j \in DOMAIN s : /\ patched[j].key = s[j].key /\ patched[j].kind = s[j].kind
                            /\ patched[j].text = s[j].text
                            /\ patched[j].result = IF s[j].key = t THEN r ELSE s[j].result
    BY <1>5, <1>6
  <1> QED BY <1>1, <1>3, <1>7, <1>8

LEMMA ToolResultStored ==
    ASSUME Told, Stored, NEW t \in Tools, ToolResult(t)
    PROVE  Stored'
  <1>1. /\ UNCHANGED <<cut, kept, queued>> /\ t \in sdk.running
        /\ sdk' = [sdk EXCEPT !.running = @ \ {t}]
    BY DEF ToolResult, history
  <1>2. ~streaming.summary /\ ~sdk.compacting /\ t \in streaming.pending
    BY <1>1 DEF Told, SummaryIsNew, CallsKnown
  <1>3. PICK return \in Returns : HandleUser(t, return) /\ disk' = Append(disk, ResultLine(t, return))
    BY DEF ToolResult
  <1>4. PICK r \in Outcome : r = Completed(t, return)
    BY CompletedIs
  <1>5. /\ settled' = Fold(settled, PatchTool(t, r)) /\ streaming' = [streaming EXCEPT !.pending = @ \ {t}]
    BY <1>2, <1>3, <1>4, EmitIs DEF HandleUser
  <1>6. Written(disk)' /\ Back' = Fold(Back, PatchTool(t, r))
    BY <1>3, <1>4, ResultRead, WrittenIs DEF Stored
  <1>7. /\ DOMAIN settled' = DOMAIN settled /\ Len(settled') = Len(settled)
        /\ \A j \in DOMAIN settled :
              /\ settled'[j].key = settled[j].key /\ settled'[j].kind = settled[j].kind
              /\ settled'[j].text = settled[j].text
              /\ settled'[j].result = IF settled[j].key = t THEN r ELSE settled[j].result
    <2>1. PICK s \in Seq(Item) : s = settled
      BY Fields
    <2> QED BY <1>5, <2>1, CallsPatched
  <1>8. /\ Back' \in Seq(Item) /\ DOMAIN Back' = DOMAIN Back
        /\ \A k \in DOMAIN Back :
              /\ Back'[k].key = Back[k].key /\ Back'[k].kind = Back[k].kind
              /\ Back'[k].text = Back[k].text
              /\ Back'[k].result = IF Back[k].key = t THEN r ELSE Back[k].result
    <2>1. PICK s \in Seq(Item) : s = Back
      BY DEF Stored
    <2> QED BY <1>6, <2>1, CallsPatched
  <1>9. /\ sdk'.queue = sdk.queue /\ sdk'.turn = sdk.turn /\ sdk'.streams = sdk.streams
        /\ sdk'.running = sdk.running \ {t} /\ sdk'.compacting = sdk.compacting /\ sdk'.open = sdk.open
    BY <1>1 DEF Told, Shape, SdkState
  <1>10. streaming'.texts = streaming.texts
    BY <1>5 DEF Told, Shape, Streaming
  <1>11. Opened' = Opened /\ Queued' = Queued /\ Keys' = Keys
    BY <1>7, <1>9 DEF Opened, Queued, Keys
  <1>12. \A j \in DOMAIN settled : settled[j].key = t => settled[j].kind = "tool"
    BY DEF Told, Sorted
  <1>13. Rests' /\ Plain'
    <2>1. Rests'
      BY <1>9 DEF Stored, Rests
    <2>2. Plain'
      BY <1>7, <1>12 DEF Stored, Plain
    <2> QED BY <2>1, <2>2
  <1>14. settled # <<>> => settled'[Len(settled')].key = settled[Len(settled)].key
    <2> SUFFICES ASSUME settled # <<>> PROVE settled'[Len(settled')].key = settled[Len(settled)].key
      OBVIOUS
    <2>1. Len(settled) \in DOMAIN settled
      BY Fields
    <2> QED BY <1>7, <2>1
  <1>15. sdk.turn /\ settled # <<>>
    <2>1. sdk.turn
      BY <1>1 DEF Stored, Rests
    <2>2. \E i \in DOMAIN settled : settled[i].key = t
      BY <1>2 DEF Told, CallsKnown
    <2> QED BY <2>1, <2>2
  <1>16. QueueIsNew'
    BY <1>1, <1>9, <1>11, <1>15 DEF Stored, QueueIsNew
  <1>17. OpenIsItem'
    <2> SUFFICES ASSUME Opened PROVE /\ \E i \in DOMAIN settled' : settled'[i] = sdk'.open
                                     /\ sdk'.open.key \in streaming'.texts
                                     /\ sdk'.open.key \notin cut' \cup kept'
                                     /\ ~queued' => settled'[Len(settled')].key = sdk'.open.key
      BY <1>11 DEF OpenIsItem
    <2>1. PICK i \in DOMAIN settled : settled[i] = sdk.open
      BY DEF Stored, OpenIsItem
    <2>2. settled[i].key # t
      BY <1>12, <2>1, OpenedIs
    <2>3. settled'[i] = settled[i]
      <3>1. i \in DOMAIN settled' /\ settled'[i] = Patched(settled[i], PatchTool(t, r))
        BY <1>5, <1>7 DEF Fold, PatchTool
      <3> QED BY <2>2, <3>1 DEF Patched, PatchTool, ToolItem
    <2>4. ~queued => settled[Len(settled)].key = sdk.open.key
      BY DEF Stored, OpenIsItem
    <2>5. \E j \in DOMAIN settled' : settled'[j] = sdk'.open
      BY <1>7, <1>9, <2>1, <2>3
    <2>6. sdk'.open.key \in streaming'.texts /\ sdk'.open.key \notin cut' \cup kept'
      BY <1>1, <1>9, <1>10 DEF Stored, OpenIsItem
    <2> QED BY <1>1, <1>9, <1>14, <1>15, <2>4, <2>5, <2>6
  <1>18. GoneWasShown'
    BY <1>1, <1>9, <1>11 DEF Stored, GoneWasShown
  <1>19. ReadIsShown'
    BY <1>1, <1>8, <1>9, <1>11 DEF Stored, ReadIsShown
  <1>20. ReadAsShown'
    <2> SUFFICES ASSUME NEW j \in DOMAIN settled, NEW k \in DOMAIN Back,
                        settled[j].key = Back[k].key, Back[k].key \notin cut
                 PROVE  /\ settled'[j].kind = Back'[k].kind /\ settled'[j].text = Back'[k].text
                        /\ Back[k].key \notin sdk.running \ {t} => settled'[j].result = Back'[k].result
      BY <1>1, <1>7, <1>8, <1>9 DEF ReadAsShown
    <2>1. /\ settled[j].kind = Back[k].kind /\ settled[j].text = Back[k].text
          /\ Back[k].key \notin sdk.running => settled[j].result = Back[k].result
      BY DEF Stored, ReadAsShown
    <2> QED BY <1>7, <1>8, <2>1
  <1>21. ShownIsRead'
    <2> SUFFICES ASSUME NEW j \in DOMAIN settled
                 PROVE  \/ settled'[j].key \in cut' \cup kept' \cup Queued'
                        \/ Opened' /\ settled'[j].key = sdk'.open.key
                        \/ settled'[j].kind = "text" /\ settled'[j].text = 0
                        \/ \E k \in DOMAIN Back' : Back'[k].key = settled'[j].key
      BY <1>7 DEF ShownIsRead
    <2>1. \/ settled[j].key \in cut \cup kept \cup Queued
          \/ Opened /\ settled[j].key = sdk.open.key
          \/ settled[j].kind = "text" /\ settled[j].text = 0
          \/ \E k \in DOMAIN Back : Back[k].key = settled[j].key
      BY DEF Stored, ShownIsRead
    <2> QED BY <1>1, <1>7, <1>8, <1>9, <1>11, <2>1
  <1>22. ReadInOrder'
    BY <1>1, <1>7, <1>8 DEF Stored, ReadInOrder
  <1>23. queued' \in BOOLEAN
    BY <1>1 DEF Stored
  <1> QED BY <1>6, <1>8, <1>13, <1>16, <1>17, <1>18, <1>19, <1>20, <1>21, <1>22, <1>23 DEF Stored

-----------------------------------------------------------------------------
(* The theorem on the cold read.                                           *)

LEMMA StoredAtFirst == Init => Stored
  <1> SUFFICES ASSUME Init PROVE Stored
    OBVIOUS
  <1>1. settled = <<>> /\ DOMAIN settled = {} /\ disk = <<>> /\ cut = {} /\ kept = {} /\ queued = FALSE
    BY DEF Init
  <1>2. /\ sdk.turn = FALSE /\ sdk.queue = <<>> /\ sdk.streams = FALSE /\ sdk.open = NoBlock /\ sdk.running = {}
    BY DEF Init
  <1>3. Back = <<>> /\ DOMAIN Back = {} /\ Queued = {} /\ ~Opened
    BY <1>1, <1>2, NothingWritten DEF Back, Queued, Opened
  <1>4. Written(disk) /\ Back \in Seq(Item) /\ queued \in BOOLEAN
    <2>1. <<>> \in Seq(Item)
      OBVIOUS
    <2> QED BY <1>1, <1>3, <2>1, NothingWritten
  <1>5. Rests /\ Plain /\ QueueIsNew /\ OpenIsItem /\ GoneWasShown
    BY <1>1, <1>2, <1>3 DEF Rests, Plain, QueueIsNew, OpenIsItem, GoneWasShown
  <1>6. ReadIsShown /\ ReadAsShown /\ ShownIsRead /\ ReadInOrder
    BY <1>1, <1>3 DEF ReadIsShown, ReadAsShown, ShownIsRead, ReadInOrder
  <1> QED BY <1>4, <1>5, <1>6 DEF Stored

LEMMA StoredStays == Told /\ Stored /\ [Next]_vars => Stored'
  <1> SUFFICES ASSUME Told, Stored, [Next]_vars PROVE Stored'
    OBVIOUS
  <1>1. CASE Turn
    BY <1>1, BeginStored, TurnEndsStored, InterruptStored, BoundaryStored, SummaryStored DEF Turn
  <1>2. CASE Stream
    BY <1>2, MessageStored, TextStartStored, TextDeltaStored, TextStopStored DEF Stream
  <1>3. CASE \E t \in Tools : Tool(t)
    BY <1>3, ToolUseStored, ToolResultStored DEF Tool
  <1>4. CASE \E p \in Prompts : Push(p)
    BY <1>4, PushStored
  <1>5. CASE (\E p \in Prompts : Refuse(p)) \/ (\E p \in Mine : Send(p)) \/ (\E p \in Theirs : Typed(p))
    <2>1. UNCHANGED <<sdk, disk, streaming, settled, cut, kept, queued>>
      BY <1>5 DEF Refuse, Send, Typed, history
    <2> QED BY <2>1, ElsewhereStored
  <1>6. CASE Deliver \/ Connect \/ Answer \/ Drop
    <2>1. UNCHANGED <<sdk, disk, streaming, settled, cut, kept, queued>>
      BY <1>6 DEF Deliver, Connect, Answer, Drop, history
    <2> QED BY <2>1, ElsewhereStored
  <1>7. CASE UNCHANGED vars
    <2>1. UNCHANGED <<sdk, disk, streaming, settled, cut, kept, queued>>
      BY <1>7 DEF vars, history
    <2> QED BY <2>1, ElsewhereStored
  <1> QED BY <1>1, <1>2, <1>3, <1>4, <1>5, <1>6, <1>7 DEF Next

\* The ids of the JSONL differ as those of the stream do, and from them.
LEMMA UuidsDiffer == \A k, l \in TextKeys : Uuid(k) = Uuid(l) => k = l
  BY DEF Uuid

LEMMA UuidsApart == \A key \in TextKeys : Uuid(key) \notin ItemKeys
  <1> SUFFICES ASSUME NEW key \in TextKeys PROVE Uuid(key) \notin ItemKeys
    OBVIOUS
  <1>1. key \in Nat \X Nat
    BY Bounds DEF TextKeys
  <1>2. Uuid(key) \in Uuids
    BY <1>1 DEF Uuid, Uuids
  <1>3. Uuid(key) \notin Prompts \cup Tools
    BY <1>2, KeysAssumption DEF Prompts
  <1>4. Uuid(key) \notin {Summary} \X (1 .. MaxUpsets) /\ Uuid(key) \notin TextKeys
    BY DEF Uuid, TextKeys
  <1> QED BY <1>3, <1>4 DEF ItemKeys

LEMMA WrittenApart == \A a, b \in Item : AsWritten(a) = AsWritten(b) <=> a = b
  <1> SUFFICES ASSUME NEW a \in Item, NEW b \in Item, AsWritten(a) = AsWritten(b) PROVE a = b
    OBVIOUS
  <1>1. \A it \in Item : /\ AsWritten(it).kind = it.kind /\ AsWritten(it).text = it.text
                         /\ AsWritten(it).result = it.result
                         /\ AsWritten(it).key = IF it.kind = "text" THEN <<it.key>> ELSE it.key
    <2> SUFFICES ASSUME NEW it \in Item
                 PROVE  /\ AsWritten(it).kind = it.kind /\ AsWritten(it).text = it.text
                        /\ AsWritten(it).result = it.result
                        /\ AsWritten(it).key = IF it.kind = "text" THEN <<it.key>> ELSE it.key
      OBVIOUS
    <2>1. PICK u : u = <<it.key>>
      OBVIOUS
    <2>2. PICK w : w = [it EXCEPT !.key = u]
      OBVIOUS
    <2>3. w.kind = it.kind /\ w.text = it.text /\ w.result = it.result /\ w.key = u
      BY <2>2 DEF Item
    <2>4. AsWritten(it) = IF it.kind = "text" THEN w ELSE it
      BY <2>1, <2>2 DEF AsWritten, Uuid
    <2> QED BY <2>1, <2>3, <2>4
  <1>2. a.kind = b.kind /\ a.text = b.text /\ a.result = b.result
    BY <1>1
  <1>3. (IF a.kind = "text" THEN <<a.key>> ELSE a.key) = (IF b.kind = "text" THEN <<b.key>> ELSE b.key)
    BY <1>1
  <1>4. a.key = b.key
    BY <1>2, <1>3
  <1> QED BY <1>2, <1>4 DEF Item

\* An item, and how it is read, are the same in every respect but the id of a
\* text.
LEMMA StoredIsCold == Told /\ Stored => LiveIsCold
  <1> SUFFICES ASSUME Told, Stored, ~sdk.turn, sdk.queue = <<>> PROVE LiveIsCold
    BY DEF LiveIsCold
  <1>1. sdk.running = {} /\ ~Opened /\ ~sdk.compacting /\ Queued = {}
    BY DEF Stored, Rests, Told, StreamsNewest, SummaryIsNew, Queued
  <1> DEFINE live == {i \in DOMAIN settled : /\ settled[i].key \notin cut \cup kept
                                             /\ settled[i].kind = "text" => settled[i].text > 0}
             read == {k \in DOMAIN Back : Back[k].key \notin cut}
  <1>2. \A i \in DOMAIN settled, k \in read : settled[i].key = Back[k].key => settled[i] = Back[k]
    <2> SUFFICES ASSUME NEW i \in DOMAIN settled, NEW k \in read, settled[i].key = Back[k].key
                 PROVE  settled[i] = Back[k]
      OBVIOUS
    <2>1. k \in DOMAIN Back /\ Back[k].key \notin cut
      OBVIOUS
    <2>2. settled[i] \in Item /\ Back[k] \in Item
      BY <2>1, Fields DEF Stored
    <2>3. settled[i].kind = Back[k].kind /\ settled[i].text = Back[k].text /\ settled[i].result = Back[k].result
      BY <1>1, <2>1 DEF Stored, ReadAsShown
    <2> QED BY <2>2, <2>3 DEF Item
  <1>3. \A i \in live : \E k \in read : settled[i] = Back[k]
    <2> SUFFICES ASSUME NEW i \in live PROVE \E k \in read : settled[i] = Back[k]
      OBVIOUS
    <2>0. /\ i \in DOMAIN settled /\ settled[i].key \notin cut \cup kept
          /\ settled[i].kind = "text" => settled[i].text > 0
      OBVIOUS
    <2>1. ~(settled[i].kind = "text" /\ settled[i].text = 0)
      BY <2>0
    <2>2. PICK k \in DOMAIN Back : Back[k].key = settled[i].key
      BY <1>1, <2>0, <2>1 DEF Stored, ShownIsRead
    <2>3. k \in read
      BY <2>0, <2>2
    <2> QED BY <1>2, <2>0, <2>2, <2>3
  <1>4. \A k \in read : \E i \in live : settled[i] = Back[k]
    <2> SUFFICES ASSUME NEW k \in read PROVE \E i \in live : settled[i] = Back[k]
      OBVIOUS
    <2>0. k \in DOMAIN Back /\ Back[k].key \notin cut
      OBVIOUS
    <2>1. /\ Back[k].key \in Keys /\ Back[k].key \notin kept
          /\ Back[k].kind = "text" => Back[k].text > 0
      BY <1>1, <2>0 DEF Stored, ReadIsShown
    <2>2. PICK i \in DOMAIN settled : settled[i].key = Back[k].key
      BY <2>1 DEF Keys
    <2>3. settled[i] = Back[k]
      BY <1>2, <2>2
    <2>4. i \in live
      BY <2>0, <2>1, <2>2, <2>3
    <2> QED BY <2>3, <2>4
  <1>5. PICK s \in Seq(ColdItem) : s = Cold
    BY DEF Stored, Written, Cold
  <1>6. DOMAIN Back = DOMAIN s /\ \A k \in DOMAIN s : s[k] \in ColdItem /\ Back[k] = Named(s[k])
    <2>1. Back = [k \in DOMAIN s |-> Named(s[k])]
      BY <1>5 DEF Back, BackOf, Renamed, Cold
    <2> QED BY <1>5, <2>1
  <1>7. \A k \in DOMAIN s : /\ s[k] = AsWritten(Back[k]) /\ Back[k] \in Item
                            /\ s[k].kind = "text" => s[k].key = Uuid(Back[k].key) /\ Back[k].key \in TextKeys
                            /\ s[k].kind # "text" => s[k] = Back[k]
    BY <1>6, NamedIs
  <1> DEFINE Uncut(key) == key \notin cut \cup {Uuid(other) : other \in cut \cap TextKeys}
             kin == {k \in DOMAIN s : Uncut(s[k].key)}
  <1>8. \A k \in DOMAIN s : Uncut(s[k].key) <=> Back[k].key \notin cut
    <2> SUFFICES ASSUME NEW k \in DOMAIN s PROVE Uncut(s[k].key) <=> Back[k].key \notin cut
      OBVIOUS
    <2>1. cut \subseteq ItemKeys
      <3>1. \A i \in DOMAIN settled : settled[i].key \in ItemKeys
        <4> SUFFICES ASSUME NEW i \in DOMAIN settled PROVE settled[i].key \in ItemKeys
          OBVIOUS
        <4>1. settled[i] \in Item
          BY Fields
        <4> QED BY <4>1 DEF Item
      <3>2. Keys \subseteq ItemKeys
        BY <3>1 DEF Keys
      <3> QED BY <3>2 DEF Stored, GoneWasShown
    <2>2. \A key \in TextKeys : Uuid(key) \notin ItemKeys
      BY UuidsApart
    <2>3. CASE s[k].kind = "text"
      BY <1>7, <2>1, <2>2, <2>3, UuidsDiffer
    <2>4. CASE s[k].kind # "text"
      <3>1. s[k] = Back[k] /\ Back[k].key \in ItemKeys
        BY <1>7, <2>4 DEF Item
      <3> QED BY <2>2, <3>1
    <2> QED BY <2>3, <2>4
  <1>9. kin = read
    BY <1>6, <1>8
  <1>10. \A i \in DOMAIN settled, k \in read : AsWritten(settled[i]) = s[k] <=> settled[i] = Back[k]
    <2> SUFFICES ASSUME NEW i \in DOMAIN settled, NEW k \in read
                 PROVE  AsWritten(settled[i]) = s[k] <=> settled[i] = Back[k]
      OBVIOUS
    <2>1. PICK a \in Item : a = settled[i]
      BY Fields
    <2>2. PICK b \in Item : b = Back[k]
      BY <1>6, <1>7
    <2>3. s[k] = AsWritten(b)
      BY <1>6, <1>7, <2>2
    <2> QED BY <2>1, <2>2, <2>3, WrittenApart
  <1>11. \A k, l \in read : s[k].key = s[l].key => k = l
    <2> SUFFICES ASSUME NEW k \in read, NEW l \in read, s[k].key = s[l].key PROVE k = l
      OBVIOUS
    <2>1. k \in DOMAIN s /\ l \in DOMAIN s
      BY <1>6
    <2>2. Back[k].key = Back[l].key
      <3>1. \A key \in TextKeys : Uuid(key) \notin ItemKeys
        BY UuidsApart
      <3>2. Back[k].key \in ItemKeys /\ Back[l].key \in ItemKeys
        BY <1>7, <2>1 DEF Item
      <3> QED BY <1>7, <2>1, <3>1, <3>2, UuidsDiffer
    <2> QED BY <1>6, <2>1, <2>2 DEF Stored, ReadIsShown
  <1>12. ~queued => \A i, j \in live : \A k, l \in read :
                      settled[i] = Back[k] /\ settled[j] = Back[l] => (i < j <=> k < l)
    BY DEF Stored, ReadInOrder
  <1>13. ~queued => \A i, j \in live : \A k, l \in read :
                      AsWritten(settled[i]) = s[k] /\ AsWritten(settled[j]) = s[l] => (i < j <=> k < l)
    BY <1>10, <1>12
  <1>14. {AsWritten(settled[i]) : i \in live} = {s[k] : k \in read}
    BY <1>3, <1>4, <1>10
  <1>15. read = {k \in DOMAIN Cold : Cold[k].key \notin cut \cup {Uuid(key) : key \in cut \cap TextKeys}}
    BY <1>5, <1>9
  <1>16. {AsWritten(settled[i]) : i \in live} = {Cold[k] : k \in read}
    BY <1>5, <1>14
  <1> HIDE DEF read
  <1> QED BY <1>5, <1>11, <1>13, <1>15, <1>16 DEF LiveIsCold

\* Whatever was streamed, called, interrupted, compacted or pushed, the
\* conversation that is read back from the disk between turns is the one that
\* was shown.
THEOREM ReadBack == Spec => []LiveIsCold
  <1>1. Told /\ [Next]_vars => Told'
    BY ToldStays DEF Goes
  <1> QED BY <1>1, ToldAtFirst, StoredAtFirst, StoredStays, StoredIsCold, PTL DEF Spec

=============================================================================
