------------------------------ MODULE Timeline ------------------------------
(* What a turn becomes: the messages of the SDK turned into deltas while   *)
(* they stream (run-query.ts), the snapshot the daemon folds them into     *)
(* (fold.ts), the same conversation read back from the JSONL               *)
(* (normalize.ts, tool-detail.ts), and the rows of a phone that shows its  *)
(* own prompts before the daemon has heard of them                         *)
(* (transcript-collection-factory.ts). The cloud session of a bridge gets  *)
(* the same messages raw (forwardToBridge).                                *)
(* One query, from its spawn on; its end is TranscriptStream's subject.    *)
EXTENDS Naturals, Sequences, FiniteSets, SequencesExt, ToolDetail

CONSTANTS
    Tools, Call,    \* the ids of the tool calls, and what each one calls
    Returns,        \* what a tool may return: [failed, parsable]
    Mine, Theirs,   \* prompts of this phone, and of anyone else
    Unsettled,      \* a tool call that has no result
    NoBlock,        \* no content block is open
    Summary, Marked,    \* the summary of a compaction; an interrupt's marker
    MaxMessages, MaxBlocks, MaxDeltas,   \* of the SDK's turns
    MaxUpsets,      \* interrupts, compactions and lost connections, together
    MaxLag          \* frames that wait for the phone when something happens

ASSUME TimelineAssumption ==
    /\ {MaxMessages, MaxBlocks, MaxDeltas, MaxUpsets, MaxLag} \subseteq Nat
    /\ Call \in [Tools -> Calls]
    /\ Returns \subseteq [failed : BOOLEAN, parsable : BOOLEAN]
    /\ Mine \cap Theirs = {}

\* The id of a text's line in the JSONL: not that of the text while it streams
\* ("They never coexist in iOS view", protocol/src/index.ts:711-714).
Uuid(key) == <<key>>
Uuids == [{1} -> Nat \X Nat]

\* The ids of prompts and of calls, and the keys made of parts, are told from
\* each other; so is what stands for nothing.
ASSUME KeysAssumption ==
    /\ (Mine \cup Theirs) \cap Tools = {}
    /\ \A key \in Mine \cup Theirs \cup Tools : key \notin ((Nat \cup {Summary}) \X Nat) \cup Uuids
    /\ Summary \notin Nat
    /\ NoBlock \notin [key : Nat \X Nat, kind : {"text"}, text : Nat, result : {Unsettled}]
    /\ Unsettled \notin [failed : BOOLEAN, detail : Details]

VARIABLES
    sdk,        \* the SDK: its turn, its queue, the message it streams
    disk,       \* the session's JSONL
    streaming,  \* StreamingState
    settled,    \* runtime.settled
    log,        \* the events since the query began
    commands,   \* per prompt: idle, sent, orphan (its connection is gone), done, refused
    phone,      \* its subscription, cursor, rows and optimistic rows
    wire,       \* frames to the phone
    cloud,      \* keys of what the bridge's cloud session keeps
    upsets,
    cut,        \* keys of the texts and calls an interrupt cut off (history)
    kept,       \* keys of the items a compaction took from the JSONL (history)
    queued,     \* a prompt was pushed behind another, or into a running turn (history)
    crossed     \* a row came, or went, beside a prompt not yet confirmed (history)

client == <<commands, phone, wire, crossed>>
history == <<cut, kept, queued>>
vars == <<sdk, disk, streaming, settled, log, client, upsets, cloud, history>>

-----------------------------------------------------------------------------
(* Items and details.                                                      *)

Prompts == Mine \cup Theirs
UserItem(p) == [key |-> p, kind |-> "user", text |-> 0, result |-> Unsettled]
TextItem(key, n) == [key |-> key, kind |-> "text", text |-> n, result |-> Unsettled]
ToolItem(t, result) == [key |-> t, kind |-> "tool", text |-> 0, result |-> result]

\* A call, completed by what its tool returned.
Completed(t, return) ==
    [failed |-> return.failed, detail |-> AttachOutput(BuildDetail(Call[t]), return.parsable)]

-----------------------------------------------------------------------------
(* Deltas.                                                                 *)

AppendDelta(item) == [op |-> "append", item |-> item]
PatchText(key) == [op |-> "patch_text", item |-> TextItem(key, 1)]
PatchTool(t, result) == [op |-> "patch_tool_call", item |-> ToolItem(t, result)]

\* foldEventDelta, of the daemon, and onEvent, of the phone, on one item.
Patched(item, delta) ==
    IF item.key # delta.item.key THEN item
    ELSE IF delta.op = "patch_text" THEN [item EXCEPT !.text = @ + 1]
    ELSE [item EXCEPT !.result = delta.item.result]
Fold(items, delta) ==
    IF delta.op = "append" THEN Append(items, delta.item)
    ELSE [i \in DOMAIN items |-> Patched(items[i], delta)]

Event(delta) == [type |-> "event", delta |-> delta]
Ack(p) == [type |-> "sendPrompt.response", prompt |-> p]
Snapshot == [type |-> "subscribe.response", items |-> settled, cursor |-> Len(log)]

\* addEvent: folded, kept, and sent to the phone if it is subscribed.
Emit(deltas) ==
    /\ settled' = FoldLeft(Fold, settled, deltas)
    /\ log' = log \o deltas
    /\ wire' = IF phone.state = "live" THEN wire \o [i \in DOMAIN deltas |-> Event(deltas[i])] ELSE wire

\* Mutant: only what the SDK yields by itself is mirrored.
Forwarded_TurnsOnly == {"stream_event", "assistant"}

\* forwardToBridge: the messages that go to the cloud, which keeps every one
\* of them but the stream events.
Forwarded == {"stream_event", "assistant", "user", "local_command"}
Forward(type, keys) == cloud' = IF type \in Forwarded THEN cloud \cup keys ELSE cloud

ResultKey(t) == <<t, Unsettled>>

-----------------------------------------------------------------------------
(* The cold read.                                                          *)

UserLine(p) == [type |-> "user", item |-> UserItem(p)]
Marker == [type |-> "marker", item |-> UserItem(Marked)]
TextLine(key, n) == [type |-> "assistant", item |-> TextItem(Uuid(key), n)]
ToolLine(t) == [type |-> "assistant", item |-> ToolItem(t, Unsettled)]
ResultLine(t, return) == [type |-> "result", item |-> ToolItem(t, return)]

\* A call counts as completed until its result says otherwise.
AsRead(item) ==
    IF item.kind = "tool" THEN [item EXCEPT !.result = [failed |-> FALSE, detail |-> BuildDetail(Call[item.key])]]
    ELSE item

\* Mutant: the marker of an interrupt is a prompt like any other.
Normalized_WithMarkers(items, line) ==
    IF line.type = "result" THEN Fold(items, PatchTool(line.item.key, Completed(line.item.key, line.item.result)))
    ELSE IF line.item.kind = "text" /\ line.item.text = 0 THEN items
    ELSE Append(items, AsRead(line.item))

\* normalize: one line after the other; a result completes the call it is
\* of, empty texts and the markers of an interrupt are dropped.
Normalized(items, line) ==
    IF line.type = "result" THEN Fold(items, PatchTool(line.item.key, Completed(line.item.key, line.item.result)))
    ELSE IF line.type = "marker" \/ (line.item.kind = "text" /\ line.item.text = 0) THEN items
    ELSE Append(items, AsRead(line.item))
Normalize(lines) == FoldLeft(Normalized, <<>>, lines)

-----------------------------------------------------------------------------
NewStreamingState == [current |-> 0, texts |-> {}, appended |-> {}, pending |-> {}, summary |-> FALSE]
NoOverlay == {}

Init ==
    /\ sdk = [turn |-> FALSE, queue |-> <<>>, message |-> 0, streams |-> FALSE, blocks |-> <<>>, open |-> NoBlock, running |-> {}, compacting |-> FALSE]
    /\ disk = <<>>
    /\ streaming = NewStreamingState
    /\ settled = <<>> /\ log = <<>>
    /\ commands = [p \in Prompts |-> "idle"]
    /\ phone = [state |-> "live", cursor |-> 0, synced |-> {}, overlay |-> NoOverlay]
    /\ wire = <<>> /\ cloud = {}
    /\ upsets = 0
    /\ cut = {} /\ kept = {} /\ queued = FALSE /\ crossed = FALSE

\* The daemon acts while at most MaxLag frames wait.
Room == Len(wire) < MaxLag

-----------------------------------------------------------------------------
(* The SDK takes a prompt, streams messages, runs tools. Its JSONL gets a  *)
(* line when a block or a result is complete.                              *)

BeginTurn ==
    /\ ~sdk.turn /\ sdk.queue # <<>>
    /\ sdk' = [sdk EXCEPT !.turn = TRUE, !.queue = Tail(@)]
    /\ disk' = Append(disk, UserLine(Head(sdk.queue)))
    /\ UNCHANGED <<streaming, settled, log, client, upsets, cloud, history>>

MessageStart ==
    /\ sdk.turn /\ ~sdk.streams /\ ~sdk.compacting /\ sdk.running = {} /\ sdk.message < MaxMessages
    /\ sdk' = [sdk EXCEPT !.message = @ + 1, !.streams = TRUE, !.blocks = <<>>]
    /\ streaming' = [streaming EXCEPT !.current = sdk.message + 1]
    /\ UNCHANGED <<disk, settled, log, client, upsets, cloud, history>>

Key(index) == <<streaming.current, index>>
NextIndex == Len(sdk.blocks) + 1

\* content_block_start of a text.
TextStart ==
    /\ sdk.streams /\ sdk.open = NoBlock /\ Len(sdk.blocks) < MaxBlocks
    /\ sdk' = [sdk EXCEPT !.open = TextItem(Key(NextIndex), 0)]
    /\ streaming' = [streaming EXCEPT !.texts = @ \cup {Key(NextIndex)}]
    /\ Emit(<<AppendDelta(TextItem(Key(NextIndex), 0))>>)
    /\ UNCHANGED <<disk, commands, phone, crossed, upsets, cloud, history>>

\* text_delta: of a block whose start was seen.
TextDelta ==
    /\ sdk.open # NoBlock /\ sdk.open.text < MaxDeltas
    /\ sdk' = [sdk EXCEPT !.open.text = @ + 1]
    /\ Emit(IF Key(NextIndex) \in streaming.texts THEN <<PatchText(Key(NextIndex))>> ELSE <<>>)
    /\ UNCHANGED <<disk, streaming, commands, phone, crossed, upsets, cloud, history>>

\* Mutant: a call is appended for every envelope it is in.
NewCalls_Undeduped(blocks) == {b.key : b \in {x \in Range(blocks) : x.kind = "tool"}}

\* handleAssistantEnvelope: the calls of the envelope that were not appended.
NewCalls(blocks) == {b.key : b \in {x \in Range(blocks) : x.kind = "tool"}} \ streaming.appended

\* An assistant envelope with some of the message's blocks.
HandleAssistant(blocks) ==
    /\ streaming' = [streaming EXCEPT !.appended = @ \cup NewCalls(blocks), !.pending = @ \cup NewCalls(blocks)]
    /\ Emit(SetToSeq({AppendDelta(ToolItem(t, Unsettled)) : t \in NewCalls(blocks)}))
    /\ Forward("assistant", {b.key : b \in Range(blocks)})

\* A block is complete: the SDK writes its line and yields an envelope with
\* it, alone or behind those the message has already.
BlockStop(block, line) ==
    /\ sdk' = [sdk EXCEPT !.open = NoBlock, !.blocks = Append(@, block),
                          !.running = IF block.kind = "tool" THEN @ \cup {block.key} ELSE @]
    /\ disk' = Append(disk, line)
    /\ \E from \in {1, NextIndex} : HandleAssistant(SubSeq(Append(sdk.blocks, block), from, NextIndex))
    /\ UNCHANGED <<commands, phone, crossed, upsets, history>>

TextStop ==
    /\ sdk.open # NoBlock
    /\ BlockStop(sdk.open, TextLine(sdk.open.key, sdk.open.text))

Used == streaming.appended
ToolUse(t) ==
    /\ sdk.streams /\ sdk.open = NoBlock /\ Len(sdk.blocks) < MaxBlocks /\ t \notin Used
    /\ BlockStop(ToolItem(t, Unsettled), ToolLine(t))

MessageStop ==
    /\ sdk.streams /\ sdk.open = NoBlock
    /\ sdk' = [sdk EXCEPT !.streams = FALSE]
    /\ streaming' = [streaming EXCEPT !.current = 0]
    /\ UNCHANGED <<disk, settled, log, client, upsets, cloud, history>>

\* handleUserEnvelope: after a compaction the first one is the summary; else
\* its results complete the calls that are pending.
HandleUser(t, return) ==
    IF streaming.summary
    THEN streaming' = [streaming EXCEPT !.summary = FALSE] /\ Emit(<<>>)
    ELSE /\ streaming' = [streaming EXCEPT !.pending = @ \ {t}]
         /\ Emit(IF t \in streaming.pending THEN <<PatchTool(t, Completed(t, return))>> ELSE <<>>)

\* A tool ends, also while its message still streams.
ToolResult(t) ==
    /\ t \in sdk.running
    /\ sdk' = [sdk EXCEPT !.running = @ \ {t}]
    /\ \E return \in Returns :
          /\ disk' = Append(disk, ResultLine(t, return))
          /\ HandleUser(t, return)
    /\ Forward("user", {ResultKey(t)})
    /\ UNCHANGED <<commands, phone, crossed, upsets, history>>

\* The result envelope of a turn.
TurnEnds ==
    /\ sdk.turn /\ ~sdk.streams /\ ~sdk.compacting /\ sdk.running = {}
    /\ sdk' = [sdk EXCEPT !.turn = FALSE]
    /\ UNCHANGED <<disk, streaming, settled, log, client, upsets, cloud, history>>

\* interrupt: the SDK drops what it was at, marks it in the JSONL and ends
\* the turn. A text may be lost, or written as far as it got.
Interrupt ==
    /\ sdk.turn /\ ~sdk.compacting /\ upsets < MaxUpsets
    /\ upsets' = upsets + 1
    /\ sdk' = [sdk EXCEPT !.turn = FALSE, !.streams = FALSE, !.open = NoBlock, !.running = {}]
    /\ \/ disk' = Append(disk, Marker)
       \/ sdk.open # NoBlock /\ disk' = disk \o <<TextLine(sdk.open.key, sdk.open.text), Marker>>
    /\ cut' = cut \cup sdk.running \cup (IF sdk.open = NoBlock THEN {} ELSE {sdk.open.key})
    /\ UNCHANGED <<streaming, settled, log, client, cloud, kept, queued>>

\* compact_boundary: the items of the daemon and of the phone stay as they
\* are, the JSONL loses what came before. The next user envelope is the
\* summary.
CompactBoundary ==
    /\ sdk.turn /\ ~sdk.streams /\ ~sdk.compacting /\ sdk.running = {} /\ upsets < MaxUpsets
    /\ upsets' = upsets + 1
    /\ sdk' = [sdk EXCEPT !.compacting = TRUE]
    /\ disk' = <<UserLine(<<Summary, upsets + 1>>)>>
    /\ streaming' = [streaming EXCEPT !.summary = TRUE]
    /\ kept' = {settled[i].key : i \in DOMAIN settled} \ Range(sdk.queue)
    /\ Forward("system", {})
    /\ UNCHANGED <<settled, log, client, cut, queued>>

\* The summary that is about to come.
SummaryKey == Head(disk).item.key

\* handleUserEnvelope lifts the summary to a prompt.
CompactSummary ==
    /\ sdk.compacting
    /\ sdk' = [sdk EXCEPT !.compacting = FALSE]
    /\ streaming' = [streaming EXCEPT !.summary = FALSE]
    /\ Emit(IF streaming.summary THEN <<AppendDelta(UserItem(SummaryKey))>> ELSE <<>>)
    /\ Forward("user", {SummaryKey})
    /\ UNCHANGED <<disk, commands, phone, crossed, upsets, history>>

-----------------------------------------------------------------------------
(* Prompts.                                                                *)

\* The phone's rows: those of the daemon, and those it put there itself.
KeysOf(rows) == {r.item.key : r \in rows}
RowOf(key) == {r \in phone.synced \cup phone.overlay : r.item.key = key}
Size == Cardinality(KeysOf(phone.synced \cup phone.overlay))
Row(item, order) == [item |-> item, order |-> order]

\* sendUserMessage: the row first, at the end, and then the command.
Send(p) ==
    /\ commands[p] = "idle" /\ phone.state # "away"
    /\ phone' = [phone EXCEPT !.overlay = @ \cup {Row(UserItem(p), Size)}]
    /\ commands' = [commands EXCEPT ![p] = "sent"]
    /\ UNCHANGED <<sdk, disk, streaming, settled, log, wire, crossed, upsets, cloud, history>>

\* pushPrompt, of any client: the item at once, the SDK's queue, the answer
\* behind them.
Push(p) ==
    /\ \/ commands[p] \in {"sent", "orphan"}
       \/ p \in Theirs /\ commands[p] = "idle"
    /\ commands' = [commands EXCEPT ![p] = "done"]
    /\ sdk' = [sdk EXCEPT !.queue = Append(@, p)]
    /\ settled' = Fold(settled, AppendDelta(UserItem(p)))
    /\ log' = Append(log, AppendDelta(UserItem(p)))
    /\ wire' = wire \o (IF phone.state = "live" THEN <<Event(AppendDelta(UserItem(p)))>> ELSE <<>>)
                    \o (IF commands[p] = "sent" THEN <<Ack(p)>> ELSE <<>>)
    /\ queued' = (queued \/ sdk.turn \/ sdk.queue # <<>>)
    /\ Forward("user", {p})
    /\ UNCHANGED <<disk, streaming, phone, crossed, upsets, cut, kept>>

\* A message typed at claude.ai: the cloud session has it, and its text and
\* images, under its own id, are a prompt of the session's; what holds
\* neither is not (extractInboundPrompt).
Contents == SUBSET {"text", "image", "other"}
Drivable(content) == content \cap {"text", "image"} # {}

Typed(p) ==
    /\ p \in Theirs /\ commands[p] = "idle"
    /\ cloud' = cloud \cup {p}
    /\ \E content \in Contents :
          commands' = [commands EXCEPT ![p] = IF Drivable(content) THEN "orphan" ELSE "refused"]
    /\ UNCHANGED <<sdk, disk, streaming, settled, log, phone, wire, crossed, upsets, history>>

\* No token, or an error: answered, and nothing is pushed.
Refuse(p) ==
    /\ commands[p] \in {"sent", "orphan"}
    /\ commands' = [commands EXCEPT ![p] = "refused"]
    /\ wire' = IF commands[p] = "sent" THEN Append(wire, Ack(p)) ELSE wire
    /\ UNCHANGED <<sdk, disk, streaming, settled, log, phone, crossed, upsets, cloud, history>>

-----------------------------------------------------------------------------
(* The phone's collection.                                                 *)

\* Mutant: a row always goes to the end.
OrderOf_AtTheEnd(key) == Size

\* An optimistic row keeps its place when its prompt comes back.
OrderOf(key) ==
    IF RowOf(key) # {} THEN (CHOOSE r \in RowOf(key) : TRUE).order ELSE Size

OnEvent(delta) ==
    IF delta.op = "append"
    THEN /\ phone' = [phone EXCEPT !.cursor = @ + 1,
                         !.synced = @ \cup {Row(delta.item, OrderOf(delta.item.key))}]
         /\ crossed' = (crossed \/ KeysOf(phone.overlay) \ (KeysOf(phone.synced) \cup {delta.item.key}) # {})
    ELSE /\ phone' = [phone EXCEPT !.cursor = @ + 1,
                         !.synced = {[r EXCEPT !.item = Patched(@, delta)] : r \in @}]
         /\ UNCHANGED crossed

\* A cold answer truncates and inserts.
OnSnapshot(items, cursor) ==
    /\ phone' = [phone EXCEPT !.cursor = cursor, !.synced = {Row(items[i], i - 1) : i \in DOMAIN items}]
    /\ crossed' = (phone.overlay # {})

\* sendPrompt has resolved or failed: the optimistic row is dropped.
OnAck(p) ==
    /\ phone' = [phone EXCEPT !.overlay = {r \in @ : r.item.key # p}]
    /\ crossed' = (crossed \/ (p \notin KeysOf(phone.synced) /\ KeysOf(phone.overlay) \ {p} # {}))

Deliver ==
    /\ wire # <<>>
    /\ wire' = Tail(wire)
    /\ LET frame == Head(wire)
       IN  \/ frame.type = "event" /\ OnEvent(frame.delta)
           \/ frame.type = "subscribe.response" /\ OnSnapshot(frame.items, frame.cursor)
           \/ frame.type = "sendPrompt.response" /\ OnAck(frame.prompt)
    /\ UNCHANGED <<sdk, disk, streaming, settled, log, commands, upsets, cloud, history>>

\* The connection ends: what was asked fails, and its rows are rolled back; a
\* command that reached the daemon is carried out all the same.
Drop ==
    /\ phone.state # "away" /\ upsets < MaxUpsets
    /\ upsets' = upsets + 1
    /\ phone' = [phone EXCEPT !.state = "away", !.overlay = NoOverlay]
    /\ wire' = <<>>
    /\ \E lost \in SUBSET {p \in Mine : commands[p] = "sent"} :
          commands' = [p \in Prompts |->
              IF commands[p] # "sent" THEN commands[p] ELSE IF p \in lost THEN "refused" ELSE "orphan"]
    /\ UNCHANGED <<sdk, disk, streaming, settled, log, crossed, cloud, history>>

\* A new connection, and the subscribe on it.
Connect ==
    /\ phone.state = "away"
    /\ phone' = [phone EXCEPT !.state = "joining"]
    /\ UNCHANGED <<sdk, disk, streaming, settled, log, commands, wire, crossed, upsets, cloud, history>>

\* The daemon answers, at once with the events past the cursor, or with its
\* snapshot (after the await of a cold read, or when the ring is short).
Answer ==
    /\ phone.state = "joining"
    /\ \/ wire' = wire \o [i \in 1..(Len(log) - phone.cursor) |-> Event(log[phone.cursor + i])]
       \/ wire' = Append(wire, Snapshot)
    /\ phone' = [phone EXCEPT !.state = "live"]
    /\ UNCHANGED <<sdk, disk, streaming, settled, log, commands, crossed, upsets, cloud, history>>

-----------------------------------------------------------------------------
Turn == BeginTurn \/ TurnEnds \/ Interrupt \/ CompactBoundary \/ CompactSummary
Stream == MessageStart \/ TextStart \/ TextDelta \/ TextStop \/ MessageStop
Tool(t) == ToolUse(t) \/ ToolResult(t)
Next ==
    \/ Room /\ (Turn \/ Stream \/ Answer)
    \/ Room /\ \E t \in Tools : Tool(t)
    \/ Room /\ \E p \in Prompts : Push(p) \/ Refuse(p)
    \/ \E p \in Mine : Send(p)
    \/ \E p \in Theirs : Typed(p)
    \/ Deliver \/ Drop \/ Connect

Spec == Init /\ [][Next]_vars

-----------------------------------------------------------------------------
(* Properties.                                                             *)

TextKeys == (1..MaxMessages) \X (1..MaxBlocks)
ItemKeys == Prompts \cup Tools \cup ({Summary} \X (1..MaxUpsets)) \cup TextKeys

\* What the sets and counters of every variable range over.
TypeOK ==
    /\ sdk.queue \in Seq(Prompts) /\ sdk.running \subseteq Tools
    /\ sdk.message \in 0..MaxMessages /\ Len(sdk.blocks) <= MaxBlocks
    /\ {sdk.turn, sdk.streams, sdk.compacting, queued, crossed} \subseteq BOOLEAN
    /\ sdk.open = NoBlock \/ (sdk.open.key \in TextKeys /\ sdk.open.text \in 0..MaxDeltas)
    /\ {line.type : line \in Range(disk)} \subseteq {"user", "marker", "assistant", "result"}
    /\ streaming.current \in 0..MaxMessages /\ streaming.texts \subseteq TextKeys
    /\ streaming.pending \subseteq streaming.appended /\ streaming.appended \subseteq Tools
    /\ {item.key : item \in Range(settled)} \subseteq ItemKeys
    /\ {delta.op : delta \in Range(log)} \subseteq {"append", "patch_text", "patch_tool_call"}
    /\ commands \in [Prompts -> {"idle", "sent", "orphan", "done", "refused"}]
    /\ phone.state \in {"live", "away", "joining"} /\ phone.cursor \in 0..Len(log)
    /\ KeysOf(phone.synced) \subseteq ItemKeys /\ KeysOf(phone.overlay) \subseteq Mine
    /\ {frame.type : frame \in Range(wire)} \subseteq {"event", "subscribe.response", "sendPrompt.response"}
    /\ cloud \subseteq ItemKeys \cup {ResultKey(t) : t \in Tools}
    /\ upsets \in 0..MaxUpsets
    /\ cut \subseteq ItemKeys /\ kept \subseteq ItemKeys

\* The daemon's snapshot, and with it what every client shows live, behaves
\* as a conversation: the streamed deltas never show a block or a call twice,
\* never reach back and never change a call that has settled (run-query.ts:
\* 936-1102, fold.ts:28-78).
Abstract == INSTANCE Conversation WITH items <- settled, Keys <- ItemKeys
IsConversation == Abstract!Spec

\* What the JSONL is read back as.
Cold == Normalize(disk)

\* What a live item is after a restart: a text goes by the id of its line.
AsWritten(item) == IF item.kind = "text" THEN [item EXCEPT !.key = Uuid(@)] ELSE item

\* Between turns the snapshot is what the JSONL would be read back as, since
\* the last compaction: the same items, each read once and in the same order,
\* every text under the other id it has there and no two under one, every call
\* with its output and its failure - but for a text or a call that an interrupt
\* cut off, a bubble that stayed empty, and the place of a prompt pushed behind
\* another or into a running turn
\* (fold.ts:21-26, normalize.ts:62-205, run-query.ts:44-46).
LiveIsCold ==
    ~sdk.turn /\ sdk.queue = <<>> =>
        LET cold == Cold
            live == {i \in DOMAIN settled : /\ settled[i].key \notin cut \cup kept
                                            /\ settled[i].kind = "text" => settled[i].text > 0}
            read == {k \in DOMAIN cold : cold[k].key \notin cut \cup {Uuid(key) : key \in cut \cap TextKeys}}
        IN  /\ {AsWritten(settled[i]) : i \in live} = {cold[k] : k \in read}
            /\ \A k, l \in read : cold[k].key = cold[l].key => k = l
            /\ ~queued => \A i, j \in live : \A k, l \in read :
                  AsWritten(settled[i]) = cold[k] /\ AsWritten(settled[j]) = cold[l] => (i < j <=> k < l)

\* A phone that has taken in all that was sent shows every item of the daemon
\* once, as the daemon has it, however its own prompts, their answers, drops
\* and both ways of resubscribing fell together; and in the daemon's order,
\* unless a row came, or was rolled back, while a prompt of its own was not
\* confirmed
\* (transcript-collection-factory.ts:128-240).
PhoneShowsAll ==
    phone.state = "live" /\ wire = <<>> =>
        /\ {r.item : r \in phone.synced} = Range(settled)
        /\ Cardinality(phone.synced) = Len(settled)
        /\ ~crossed => \A r, s \in phone.synced : \A i, j \in DOMAIN settled :
              settled[i] = r.item /\ settled[j] = s.item /\ i < j => r.order < s.order

\* claude.ai and the phone show one session: whatever is complete in the
\* daemon's snapshot the cloud has got, prompts typed anywhere and the outputs
\* of the calls included, and the cloud has got nothing that is not a row
\* here, but for a message that could not be run - however the stream was
\* interrupted or compacted; of the summaries of compactions nothing is said
\* here (run-query.ts forwardToBridge, pushPrompt, extractInboundPrompt).
Summaries == {Summary} \X Nat
Complete == {x.key : x \in {y \in Range(settled) : y.key \notin cut /\ (sdk.open = NoBlock \/ y.key # sdk.open.key)}}
Outputs == {ResultKey(x.key) : x \in {y \in Range(settled) : y.kind = "tool" /\ y.result # Unsettled}}
CloudShowsAll ==
    /\ ((Complete \cup Outputs) \ Summaries) \subseteq cloud
    /\ (cloud \ Summaries) \subseteq {settled[i].key : i \in DOMAIN settled} \cup Outputs
                       \cup {p \in Theirs : commands[p] \in {"orphan", "refused"}}

=============================================================================
