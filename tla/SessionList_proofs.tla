------------------------- MODULE SessionList_proofs -------------------------
(***************************************************************************)
(* Proofs about SessionList, for every set of sessions, devices, models    *)
(* and commands under way and every bound: its type invariant and all its  *)
(* safety properties.  None of them is inductive by itself.  TypeOK needs  *)
(* to know which records a command that awaits has left in place           *)
(* (Grounded); DurableList follows from what ties the cache, the runtime   *)
(* and the file of a session together (Kept); and ListConverges speaks of  *)
(* a device with nothing on the wire, where the invariant speaks of the    *)
(* last frame that is there (Informed).                                    *)
(***************************************************************************)
EXTENDS SessionList, TLAPS

(* A command that got past its creation has a runtime to go on with, and    *)
(* one that attaches has a file; the pass at startup has one too.          *)
Grounded ==
    /\ \A s \in Sessions : states[s] = None <=> file[s] = None
    /\ \A h \in Handlers :
          /\ prompts[h].phase \in {"attaching", "token"} => runtimes[prompts[h].s] # None
          /\ prompts[h].phase = "attaching" => file[prompts[h].s] # None
          /\ prompts[h].phase = "checking" /\ prompts[h].exists => ~prompts[h].bridged
    /\ \A s \in Sessions :
          /\ upgrading[s] # "no" => runtimes[s] # None /\ file[s] # None
          /\ booting[s].at # "done" => file[s] # None
          /\ booting[s].at = "attaching" => runtimes[s] # None

(* What the cache, the runtime and the file of a session have to do with   *)
(* each other: cache and file differ in the bridge's part only, no runtime *)
(* has a model the record does not have or a later stamp when it is idle,  *)
(* and a mirror that runs is the one on file.                              *)
FoundIn(kept) == IF kept # None /\ kept.bridge # NoBridge THEN kept.bridge.cse ELSE 0
SameRecord(kept, meta, excuses) ==
    kept # None =>
        /\ meta.model = kept.model /\ meta.stamp = kept.stamp
        /\ "recreated" \notin excuses /\ "stale" \notin excuses =>
               (meta.bridge = NoBridge <=> kept.bridge = NoBridge)
SameRuntime(kept, runtime, excuses) ==
    runtime # None =>
        /\ kept = None => runtime.model = NoModel
        /\ kept # None => /\ runtime.activity = "idle" => runtime.stamp <= kept.stamp
                          /\ "recreated" \notin excuses =>
                                 runtime.model \in {NoModel, kept.model}
        /\ runtime.cse # 0 /\ "recreated" \notin excuses /\ "lost" \notin excuses =>
               FoundIn(kept) = runtime.cse
InThePast(kept, runtime) ==
    /\ kept # None => kept.stamp <= now
    /\ runtime # None => runtime.stamp <= now
    /\ FoundIn(kept) <= minted
Kept ==
    \A s \in Sessions :
        /\ SameRecord(file[s], states[s], excused[s])
        /\ SameRuntime(file[s], runtimes[s], excused[s])
        /\ InThePast(file[s], runtimes[s])

(* What a frame says of a session, and whether it says anything.           *)
Concerns(frame, s) == frame.type = "initial" \/ frame.s = s
Word(frame, s) == IF frame.type = "initial" THEN frame.rows[s] ELSE frame.state

(* The public state as a device may show it; a session without metadata    *)
(* is nothing a device has to show.                                        *)
Agrees(state, s) ==
    states[s] # None => state # None /\ Shown(state) = Shown(Public(states[s], runtimes[s]))

(* The last word on a session that is on the wire to a device, or what the *)
(* device shows if there is none, is what the daemon has.                  *)
Last(d, s, n) ==
    /\ \A m \in (n+1)..Len(down[d]) : ~Concerns(down[d][m], s)
    /\ n # 0 => Concerns(down[d][n], s)
Informed ==
    \A d \in Devices, s \in Sessions :
        online[d] => \A n \in 0..Len(down[d]) :
            Last(d, s, n) => Agrees(IF n = 0 THEN rows[d][s] ELSE Word(down[d][n], s), s)

-----------------------------------------------------------------------------
(* The operators keep the types of what they write.                        *)

(* What the operators write, and that a record once there stays, in the    *)
(* cache exactly when it is on file.                                       *)
Records ==
    /\ file \in [Sessions -> Meta \cup {None}]
    /\ states \in [Sessions -> Meta \cup {None}]
    /\ runtimes \in [Sessions -> Runtime \cup {None}]
    /\ down \in [Devices -> Seq(Frame)]
    /\ excused \in [Sessions -> SUBSET Excuses]
Stays ==
    \A x \in Sessions :
        /\ states'[x] = None <=> file'[x] = None
        /\ file[x] # None => file'[x] # None
        /\ runtimes[x] # None => runtimes'[x] # None

(* Every record of the model is told apart from what stands for its        *)
(* absence.                                                                *)
LEMMA Nulls ==
    /\ None \notin Meta /\ None \notin Runtime /\ None \notin Row
    /\ None \notin Selections /\ NoBridge \notin Worker /\ NoModel \in Selections
    /\ MaxEdges \in Nat /\ MaxCse \in Nat \ {0} /\ MaxSeq \in Nat
    /\ MaxRestarts \in Nat /\ MaxQueue \in Nat
  BY SessionListAssumption, NullsAssumption DEF Selections

(* What a device is told of a session is a row of its list, or nothing of  *)
(* a session without metadata and runtime.                                 *)
LEMMA PublicType ==
  ASSUME NEW meta \in Meta \cup {None}, NEW runtime \in Runtime \cup {None}
  PROVE  /\ Public(meta, runtime) \in Row \cup {None}
         /\ Public(meta, runtime) = None <=> meta = None /\ runtime = None
         /\ meta # None \/ runtime # None => Public(meta, runtime) \in Row
  <1> DEFINE activity == IF runtime = None THEN "idle" ELSE runtime.activity
             model == IF runtime # None /\ runtime.model # NoModel THEN runtime.model
                      ELSE IF meta # None THEN meta.model ELSE NoModel
             stamp == IF runtime # None THEN runtime.stamp ELSE meta.stamp
             bridged == meta # None /\ meta.bridge # NoBridge
  <1>1. meta # None => meta.model \in Selections /\ meta.stamp \in 0..MaxEdges
    BY DEF Meta
  <1>2. runtime # None => /\ runtime.activity \in {"idle", "running"}
                          /\ runtime.model \in Selections /\ runtime.stamp \in 0..MaxEdges
    BY DEF Runtime
  <1>3. activity \in {"idle", "running"} /\ model \in Selections /\ bridged \in BOOLEAN
    BY <1>1, <1>2, Nulls
  <1>4. meta # None \/ runtime # None => stamp \in 0..MaxEdges
    BY <1>1, <1>2
  <1>5. Public(meta, runtime) =
            IF meta = None /\ runtime = None THEN None
            ELSE [activity |-> activity, model |-> model, stamp |-> stamp, bridged |-> bridged]
    BY DEF Public
  <1> HIDE DEF activity, model, stamp, bridged
  <1> QED BY <1>3, <1>4, <1>5, Nulls DEF Row

(* A runtime that is made for a session is an idle one.                    *)
LEMMA RuntimeOfType ==
  ASSUME TypeOK, NEW s \in Sessions, NEW meta \in Meta \cup {None}
  PROVE  /\ RuntimeOf(s, meta) \in Runtime
         /\ Seeded(meta) \in Runtime
  <1>1. runtimes[s] \in Runtime \cup {None} /\ now \in 0..MaxEdges
    BY DEF TypeOK
  <1>2. Seeded(meta) \in Runtime
    <2>1. CASE meta = None
      BY <1>1, <2>1, Nulls DEF Seeded, Runtime
    <2>2. CASE meta # None
      BY <1>1, <2>2, Nulls DEF Seeded, Runtime, Meta
    <2> QED BY <2>1, <2>2
  <1> QED BY <1>1, <1>2 DEF RuntimeOf

(* Telling the devices appends to the wires of those that are online.      *)
LEMMA FanoutType ==
  ASSUME TypeOK, NEW s \in Sessions, NEW meta \in Meta \cup {None},
         NEW runtime \in Runtime \cup {None}, Fanout(s, meta, runtime)
  PROVE  down' \in [Devices -> Seq(Frame)]
  <1> DEFINE frame == [type |-> "changed", s |-> s, state |-> Public(meta, runtime)]
  <1>1. frame \in Frame
    BY PublicType DEF Frame
  <1>2. \A d \in Devices : down[d] \in Seq(Frame)
    BY DEF TypeOK
  <1>3. \A d \in Devices : Append(down[d], frame) \in Seq(Frame)
    BY <1>1, <1>2
  <1> QED BY <1>2, <1>3 DEF Fanout

(* The record that is written takes the bridge's part from the file.       *)
LEMMA PersistType ==
  ASSUME TypeOK, Grounded, NEW s \in Sessions, NEW meta \in Meta
  PROVE  /\ Merged(s, meta) \in Meta
         /\ Persist(s, meta) =>
               /\ states' \in [Sessions -> Meta \cup {None}]
               /\ file' \in [Sessions -> Meta \cup {None}]
               /\ excused' \in [Sessions -> SUBSET Excuses]
               /\ \A x \in Sessions : /\ states'[x] = None <=> file'[x] = None
                                      /\ file[x] # None => file'[x] # None
  <1>1. Merged(s, meta) \in Meta
    BY DEF Merged, Meta, TypeOK
  <1>2. \A x \in Sessions : excused[x] \ {"stale"} \in SUBSET Excuses
    BY DEF TypeOK
  <1>3. ASSUME Persist(s, meta)
        PROVE  /\ states' \in [Sessions -> Meta \cup {None}]
               /\ file' \in [Sessions -> Meta \cup {None}]
    BY <1>1, <1>3 DEF Persist, TypeOK
  <1>4. ASSUME Persist(s, meta) PROVE excused' \in [Sessions -> SUBSET Excuses]
    BY <1>2, <1>4 DEF Persist, TypeOK
  <1>5. ASSUME Persist(s, meta), NEW x \in Sessions
        PROVE  /\ states'[x] = None <=> file'[x] = None
               /\ file[x] # None => file'[x] # None
    BY <1>1, <1>5, Nulls DEF Persist, TypeOK, Grounded
  <1> QED BY <1>1, <1>3, <1>4, <1>5

(* A change of activity keeps every type, and whatever has a record.       *)
LEMMA SetActivityType ==
  ASSUME TypeOK, Grounded, NEW s \in Sessions, NEW runtime \in Runtime,
         NEW activity \in {"idle", "running"},
         SetActivity(s, states[s], runtime, activity)
  PROVE  Records' /\ Stays /\ now' \in 0..MaxEdges
  <1> DEFINE next == [runtime EXCEPT !.activity = activity, !.stamp = now + 1]
  <1>0. now' \in 0..MaxEdges /\ now + 1 \in 0..MaxEdges
    BY Nulls DEF SetActivity, TypeOK
  <1>1. next \in Runtime
    BY <1>0 DEF Runtime
  <1>2. /\ runtimes' \in [Sessions -> Runtime \cup {None}]
        /\ \A x \in Sessions : runtimes[x] # None => runtimes'[x] # None
    BY <1>1, Nulls DEF SetActivity, TypeOK
  <1>3. CASE runtime.activity = activity
    <2>1. UNCHANGED <<file, states, down, excused>>
      BY <1>3 DEF SetActivity
    <2> QED BY <1>0, <1>2, <2>1 DEF TypeOK, Records, Stays, Grounded
  <1>4. CASE runtime.activity # activity /\ states[s] = None
    <2>1. Fanout(s, states[s], next) /\ UNCHANGED <<file, states, excused>>
      BY <1>4 DEF SetActivity
    <2> HIDE DEF next
    <2>2. down' \in [Devices -> Seq(Frame)]
      BY <1>1, <1>4, <2>1, FanoutType
    <2> QED BY <1>0, <1>2, <2>1, <2>2 DEF TypeOK, Records, Stays, Grounded
  <1>5. CASE runtime.activity # activity /\ states[s] # None
    <2> DEFINE meta == [states[s] EXCEPT !.stamp = now + 1]
    <2>1. meta \in Meta /\ states[s] \in Meta
      BY <1>5, <1>0 DEF Meta, TypeOK
    <2>2. Persist(s, meta) /\ Fanout(s, Merged(s, states[s]), next)
      BY <1>5 DEF SetActivity
    <2> HIDE DEF next, meta
    <2>3. down' \in [Devices -> Seq(Frame)]
      BY <1>1, <2>1, <2>2, PersistType, FanoutType
    <2> QED BY <1>0, <1>2, <2>1, <2>2, <2>3, PersistType DEF Records, Stays
  <1> QED BY <1>3, <1>4, <1>5

(* So does a change of model,                                              *)
LEMMA SetModelType ==
  ASSUME TypeOK, Grounded, NEW s \in Sessions, NEW model \in Selections, SetModel(s, model)
  PROVE  Records' /\ Stays
  <1>1. CASE states[s] = None \/ states[s].model = model
    BY <1>1 DEF SetModel, TypeOK, Records, Stays, Grounded
  <1>2. CASE ~(states[s] = None \/ states[s].model = model)
    <2> DEFINE runtime == IF runtimes[s] = None THEN None ELSE [runtimes[s] EXCEPT !.model = model]
               meta == [states[s] EXCEPT !.model = model]
    <2>1. meta \in Meta
      BY <1>2 DEF Meta, TypeOK
    <2>2. runtime \in Runtime \cup {None} /\ (runtimes[s] # None => runtime # None)
      BY Nulls DEF Runtime, TypeOK
    <2>3. runtimes' = [runtimes EXCEPT ![s] = runtime] /\ Persist(s, meta)
          /\ Fanout(s, Merged(s, meta), runtime)
      BY <1>2 DEF SetModel
    <2> HIDE DEF runtime, meta
    <2>4. /\ runtimes' \in [Sessions -> Runtime \cup {None}]
          /\ \A x \in Sessions : runtimes[x] # None => runtimes'[x] # None
      BY <2>2, <2>3 DEF TypeOK
    <2>5. down' \in [Devices -> Seq(Frame)]
      BY <2>1, <2>2, <2>3, PersistType, FanoutType
    <2> QED BY <2>1, <2>3, <2>4, <2>5, PersistType DEF Records, Stays
  <1> QED BY <1>1, <1>2

(* and what the bridge writes and tells the manager.                       *)
LEMMA NotifyType ==
  ASSUME TypeOK, Grounded, NEW s \in Sessions, NEW bridge \in Worker \cup {NoBridge},
         NEW runtime \in Runtime, NotifyBridgeChanged(s, bridge, runtime)
  PROVE  /\ states' \in [Sessions -> Meta \cup {None}]
         /\ down' \in [Devices -> Seq(Frame)]
         /\ excused' \in [Sessions -> SUBSET Excuses]
         /\ \A x \in Sessions : states'[x] = None <=> states[x] = None
  <1> DEFINE meta == IF states[s] = None THEN None ELSE [states[s] EXCEPT !.bridge = bridge]
  <1>1. meta \in Meta \cup {None} /\ (meta = None <=> states[s] = None)
    BY Nulls DEF Meta, TypeOK
  <1>2. /\ states' = [states EXCEPT ![s] = meta]
        /\ excused' = [excused EXCEPT ![s] = @ \ {"stale"}]
        /\ UNCHANGED down \/ Fanout(s, meta, runtime)
    BY DEF NotifyBridgeChanged
  <1> HIDE DEF meta
  <1>3. down' \in [Devices -> Seq(Frame)]
    BY <1>1, <1>2, FanoutType DEF TypeOK
  <1>4. excused' \in [Sessions -> SUBSET Excuses]
    <2>1. \A x \in Sessions : excused[x] \ {"stale"} \in SUBSET Excuses
      BY DEF TypeOK
    <2> QED BY <1>2, <2>1 DEF TypeOK
  <1>5. /\ states' \in [Sessions -> Meta \cup {None}]
        /\ \A x \in Sessions : states'[x] = None <=> states[x] = None
    BY <1>1, <1>2 DEF TypeOK
  <1> QED BY <1>3, <1>4, <1>5

LEMMA AttachType ==
  ASSUME TypeOK, Grounded, NEW s \in Sessions, runtimes[s] # None, Attach(s)
  PROVE  Records' /\ Stays /\ minted' \in 1..MaxCse
  <1> DEFINE bridge == [cse |-> minted + 1, seq |-> 0, done |-> FALSE]
             kept == IF file[s] = None THEN NoBridge ELSE bridge
             runtime == [runtimes[s] EXCEPT !.cse = minted + 1]
             meta == IF file[s] = None THEN None ELSE [file[s] EXCEPT !.bridge = bridge]
  <1>1. minted' \in 1..MaxCse /\ minted + 1 \in 1..MaxCse /\ 0 \in 0..MaxSeq
    BY Nulls DEF Attach, TypeOK
  <1>2. bridge \in Worker /\ kept \in Worker \cup {NoBridge}
    BY <1>1 DEF Worker
  <1>3. runtime \in Runtime
    <2>1. runtimes[s] \in Runtime /\ minted + 1 \in 0..MaxCse
      BY <1>1, Nulls DEF TypeOK
    <2> QED BY <2>1 DEF Runtime
  <1>4. runtimes' = [runtimes EXCEPT ![s] = runtime] /\ file' = [file EXCEPT ![s] = meta]
        /\ NotifyBridgeChanged(s, kept, runtime)
    BY DEF Attach
  <1>5. meta \in Meta \cup {None} /\ (meta = None <=> file[s] = None)
    BY <1>2, Nulls DEF Meta, TypeOK
  <1> HIDE DEF bridge, kept, runtime, meta
  <1>6. /\ file' \in [Sessions -> Meta \cup {None}]
        /\ \A x \in Sessions : file'[x] = None <=> file[x] = None
    BY <1>4, <1>5 DEF TypeOK
  <1>7. /\ runtimes' \in [Sessions -> Runtime \cup {None}]
        /\ \A x \in Sessions : runtimes[x] # None => runtimes'[x] # None
    BY <1>3, <1>4, Nulls DEF TypeOK
  <1> QED BY <1>1, <1>2, <1>3, <1>4, <1>6, <1>7, NotifyType DEF Records, Stays, Grounded

LEMMA DetachType ==
  ASSUME TypeOK, Grounded, NEW s \in Sessions, Detach(s)
  PROVE  Records' /\ Stays
  <1> DEFINE runtime == [runtimes[s] EXCEPT !.cse = 0]
             meta == IF file[s] = None THEN None ELSE [file[s] EXCEPT !.bridge = NoBridge]
  <1>1. runtime \in Runtime
    <2>1. runtimes[s] \in Runtime /\ 0 \in 0..MaxCse
      BY Nulls DEF TypeOK, Detach
    <2> QED BY <2>1 DEF Runtime
  <1>2. runtimes' = [runtimes EXCEPT ![s] = runtime] /\ file' = [file EXCEPT ![s] = meta]
        /\ NotifyBridgeChanged(s, NoBridge, runtime)
    BY DEF Detach
  <1>3. meta \in Meta \cup {None} /\ (meta = None <=> file[s] = None)
    BY Nulls DEF Meta, TypeOK
  <1> HIDE DEF runtime, meta
  <1>4. /\ file' \in [Sessions -> Meta \cup {None}]
        /\ \A x \in Sessions : file'[x] = None <=> file[x] = None
    BY <1>2, <1>3 DEF TypeOK
  <1>5. /\ runtimes' \in [Sessions -> Runtime \cup {None}]
        /\ \A x \in Sessions : runtimes[x] # None => runtimes'[x] # None
    BY <1>1, <1>2, Nulls DEF TypeOK
  <1> QED BY <1>1, <1>2, <1>4, <1>5, NotifyType DEF Records, Stays, Grounded

-----------------------------------------------------------------------------
(* Type correctness, and what it rests on.                                 *)

(* A command under way is one of its phases; one that is not is Idle.       *)
LEMMA PromptKnown ==
  ASSUME TypeOK, NEW h \in Handlers
  PROVE  /\ prompts[h] \in Prompt \/ prompts[h].phase = "idle"
         /\ prompts[h].phase # "idle" => prompts[h] \in Prompt /\ prompts[h].s \in Sessions
         /\ \A phase, s : At(phase, s).phase = phase /\ At(phase, s).s = s
         /\ \A phase \in {"attaching", "token"}, s \in Sessions : At(phase, s) \in Prompt
  <1>1. prompts[h] \in Prompt \/ prompts[h] = Idle
    BY DEF TypeOK
  <1>2. Idle.phase = "idle" /\ \A x \in Prompt : x.phase # "idle" /\ x.s \in Sessions
    BY DEF Idle, At, Prompt
  <1>3. \A phase, s : At(phase, s).phase = phase /\ At(phase, s).s = s
    BY DEF At
  <1>4. \A phase \in {"attaching", "token"}, s \in Sessions : At(phase, s) \in Prompt
    BY Nulls DEF At, Prompt
  <1> QED BY <1>1, <1>2, <1>3, <1>4

(* Records that stay keep the commands that rest on them grounded.          *)
LEMMA StaysGrounded ==
  ASSUME TypeOK, Grounded, Stays, UNCHANGED <<prompts, upgrading, booting>>
  PROVE  Grounded'
  BY PromptKnown DEF Grounded, Stays

(* ... also of a command that goes on, or ends.                             *)
LEMMA PromptGrounded ==
  ASSUME TypeOK, Grounded, Stays, UNCHANGED <<upgrading, booting>>, NEW h \in Handlers,
         NEW p, prompts' = [prompts EXCEPT ![h] = p],
         p.phase \in {"attaching", "token"} => runtimes'[p.s] # None,
         p.phase = "attaching" => file'[p.s] # None,
         p.phase = "checking" /\ p.exists => ~p.bridged
  PROVE  Grounded'
  <1>1. \A x \in Handlers : prompts'[x] = IF x = h THEN p ELSE prompts[x]
    BY DEF TypeOK
  <1> QED BY <1>1, PromptKnown DEF Grounded, Stays

(* What the startup pass sets out to do.                                   *)
LEMMA ListedType ==
  ASSUME NEW s \in Sessions, Found(s) \in 0..MaxCse
  PROVE  /\ Listed(s) \in Boots
         /\ Listed(s).at # "attaching"
         /\ Listed(s).at # "done" => Found(s) # 0
  BY Nulls DEF Listed, Booting, Booted, Boots

LEMMA TypeInvInit == Init => TypeOK /\ Grounded
  <1> SUFFICES ASSUME Init PROVE TypeOK /\ Grounded
    OBVIOUS
  <1> DEFINE parts == {NoBridge, [cse |-> 1, seq |-> 0, done |-> TRUE]}
             start == [model : {NoModel}, stamp : {0}, bridge : parts]
  <1>1. [cse |-> 1, seq |-> 0, done |-> TRUE] \in Worker
    BY Nulls DEF Worker
  <1>2. start \subseteq Meta
    <2>1. parts \subseteq {NoBridge} \cup Worker /\ 0 \in 0..MaxEdges
      BY <1>1, Nulls
    <2> HIDE DEF parts
    <2> QED BY <2>1, Nulls DEF Meta
  <1>3. file \in [Sessions -> {None} \cup start]
    BY DEF Init
  <1> HIDE DEF start
  <1>4. file \in [Sessions -> Meta \cup {None}] /\ states = file
    BY <1>2, <1>3 DEF Init
  <1>5. \A s \in Sessions : /\ Listed(s) \in Boots
                            /\ Listed(s).at # "attaching"
                            /\ Listed(s).at # "done" => file[s] # None
    <2> SUFFICES ASSUME NEW s \in Sessions
                 PROVE  /\ Found(s) \in 0..MaxCse
                        /\ Found(s) # 0 => file[s] # None
      BY ListedType
    <2>1. file[s] # None /\ file[s].bridge # NoBridge => file[s].bridge \in Worker
      BY <1>4 DEF Meta
    <2> QED BY <2>1, Nulls DEF Found, Worker
  <1>b. /\ booting \in [Sessions -> Boots]
        /\ \A s \in Sessions : /\ booting[s].at # "done" => file[s] # None
                               /\ booting[s].at # "attaching"
    <2>1. booting = [s \in Sessions |-> Listed(s)]
      BY DEF Init
    <2>2. \A s \in Sessions : booting[s] = Listed(s)
      BY <2>1
    <2>3. booting \in [Sessions -> Boots]
      BY <2>1, <1>5
    <2> SUFFICES ASSUME NEW s \in Sessions
                 PROVE  booting[s].at # "attaching" /\ (booting[s].at # "done" => file[s] # None)
      BY <2>3
    <2>4. booting[s] = Listed(s)
      BY <2>2
    <2> QED BY <2>4, <1>5
  <1>6. /\ runtimes = [s \in Sessions |-> None] /\ jsonl = [s \in Sessions |-> file[s] # None]
        /\ prompts = [h \in Handlers |-> Idle] /\ picks = [s \in Sessions |-> None]
        /\ upgrading = [s \in Sessions |-> "no"]
        /\ online = [d \in Devices |-> FALSE] /\ down = [d \in Devices |-> <<>>]
        /\ rows = [d \in Devices |-> NoRows] /\ now = 0 /\ minted = 1 /\ restarts = 0
        /\ excused = [s \in Sessions |-> {}]
    BY DEF Init
  <1>7. NoRows \in Rows
    BY DEF NoRows, Rows
  <1>8. <<>> \in Seq(Frame)
    OBVIOUS
  <1>9. now \in 0..MaxEdges /\ minted \in 1..MaxCse /\ restarts \in 0..MaxRestarts
    BY <1>6, Nulls
  <1>10. TypeOK
    BY <1>4, <1>b, <1>6, <1>7, <1>8, <1>9 DEF TypeOK
  <1>11. \A h \in Handlers : prompts[h].phase = "idle"
    BY <1>6 DEF Idle, At
  <1> QED BY <1>4, <1>b, <1>6, <1>10, <1>11 DEF Grounded

(* sendPrompt.                                                             *)
LEMMA CheckedType ==
  ASSUME TypeOK, Grounded, NEW h \in Handlers, Checked(h)
  PROVE  TypeOK' /\ Grounded'
  <1>0. UNCHANGED <<jsonl, picks, upgrading, booting, online, rows, minted, restarts>>
    BY DEF Checked
  <1> DEFINE p == prompts[h]
             s == p.s
             meta == NewSession(p.model)
             used == IF p.exists THEN RuntimeOf(s, states[s]) ELSE RuntimeOf(s, meta)
             next == At(IF p.bridged /\ used.cse = 0 THEN "attaching" ELSE "token", s)
  <1>1. p \in Prompt /\ s \in Sessions /\ p.phase = "checking" /\ states[s] \in Meta \cup {None}
        /\ p.model \in Selections /\ p.exists \in BOOLEAN
    BY PromptKnown DEF Checked, TypeOK, Prompt
  <1>2. next.phase \in {"attaching", "token"} /\ next.s = s /\ next \in Prompt
        /\ (next.phase = "attaching" => p.bridged)
    BY <1>1, PromptKnown
  <1>3. CASE p.exists
    <2>1. /\ runtimes' = [runtimes EXCEPT ![s] = used] /\ prompts' = [prompts EXCEPT ![h] = next]
          /\ UNCHANGED <<file, states, down, now, excused>>
      BY <1>3 DEF Checked
    <2>2. used \in Runtime
      BY <1>1, <1>3, RuntimeOfType
    <2> HIDE DEF next, used
    <2>3. Stays /\ runtimes'[s] # None
      BY <1>1, <2>1, <2>2, Nulls DEF Stays, TypeOK, Grounded
    <2>4. TypeOK'
      BY <1>0, <1>1, <1>2, <2>1, <2>2 DEF TypeOK
    <2>5. ~p.bridged
      BY <1>1, <1>3 DEF Grounded
    <2>6. UNCHANGED <<upgrading, booting>>
      BY DEF Checked
    <2> QED BY <1>2, <2>1, <2>3, <2>4, <2>5, <2>6, PromptGrounded
  <1>4. CASE ~p.exists
    <2>1. /\ runtimes' = [runtimes EXCEPT ![s] = used] /\ prompts' = [prompts EXCEPT ![h] = next]
          /\ now < MaxEdges /\ now' = now + 1
          /\ states' = [states EXCEPT ![s] = meta] /\ file' = [file EXCEPT ![s] = meta]
          /\ Fanout(s, meta, runtimes[s])
          /\ excused' = [excused EXCEPT ![s] = IF states[s] = None THEN @ ELSE @ \cup {"recreated"}]
      BY <1>4 DEF Checked
    <2>2. now + 1 \in 0..MaxEdges
      <3>1. now < MaxEdges /\ now \in 0..MaxEdges
        BY <2>1 DEF TypeOK
      <3> QED BY <3>1, Nulls
    <2>3. meta \in Meta
      BY <1>1, <2>2 DEF NewSession, Meta
    <2>4. used \in Runtime
      BY <1>1, <1>4, <2>3, RuntimeOfType
    <2> HIDE DEF next, used, meta
    <2>5. Stays /\ runtimes'[s] # None /\ file'[s] # None
      BY <1>1, <2>1, <2>3, <2>4, Nulls DEF Stays, TypeOK, Grounded
    <2>6. down' \in [Devices -> Seq(Frame)]
      BY <1>1, <2>1, <2>3, FanoutType DEF TypeOK
    <2>7. excused' \in [Sessions -> SUBSET Excuses]
      <3>1. excused[s] \in SUBSET Excuses /\ excused[s] \cup {"recreated"} \in SUBSET Excuses
        BY <1>1 DEF TypeOK, Excuses
      <3> QED BY <2>1, <3>1 DEF TypeOK
    <2>8. file' \in [Sessions -> Meta \cup {None}] /\ states' \in [Sessions -> Meta \cup {None}]
          /\ runtimes' \in [Sessions -> Runtime \cup {None}]
      BY <2>1, <2>3, <2>4 DEF TypeOK
    <2>9. TypeOK'
      BY <1>0, <1>2, <2>1, <2>2, <2>6, <2>7, <2>8 DEF TypeOK
    <2>10. UNCHANGED <<upgrading, booting>>
      BY DEF Checked
    <2> QED BY <1>2, <2>1, <2>5, <2>9, <2>10, PromptGrounded
  <1> QED BY <1>1, <1>3, <1>4

LEMMA HandleType ==
  ASSUME TypeOK, Grounded, NEW h \in Handlers,
         Handle(h) \/ \E s \in Sessions : SendPrompt(h, s)
  PROVE  TypeOK' /\ Grounded'
  <1>1. CASE \E s \in Sessions : SendPrompt(h, s)
    <2>1. PICK s \in Sessions, model \in Selections, bridged \in BOOLEAN :
            /\ jsonl[s] => model = NoModel /\ ~bridged
            /\ prompts' = [prompts EXCEPT ![h] =
                  [phase |-> "checking", s |-> s, exists |-> jsonl[s], model |-> model, bridged |-> bridged]]
            /\ UNCHANGED <<file, jsonl, states, runtimes, picks, upgrading, booting, clients, now, minted, restarts, excused>>
      BY <1>1 DEF SendPrompt
    <2> DEFINE p == [phase |-> "checking", s |-> s, exists |-> jsonl[s], model |-> model, bridged |-> bridged]
    <2>2. p \in Prompt
      BY DEF Prompt, TypeOK
    <2>3. p.phase = "checking" /\ (p.exists => ~p.bridged) /\ prompts' = [prompts EXCEPT ![h] = p]
      BY <2>1
    <2> HIDE DEF p
    <2>4. TypeOK'
      BY <2>1, <2>2, <2>3 DEF TypeOK, clients
    <2>5. Stays
      BY <2>1 DEF Stays, Grounded
    <2> QED BY <2>1, <2>3, <2>4, <2>5, PromptGrounded
  <1>2. CASE Checked(h)
    BY <1>2, CheckedType
  <1>3. CASE PromptAttached(h)
    <2> DEFINE p == [prompts[h] EXCEPT !.phase = "token"]
               s == prompts[h].s
    <2>1. prompts[h] \in Prompt /\ s \in Sessions /\ prompts[h].phase = "attaching" /\ runtimes[s] # None
      BY <1>3, PromptKnown DEF PromptAttached, Grounded
    <2>2. p \in Prompt /\ p.phase = "token" /\ p.s = s
      BY <2>1 DEF Prompt
    <2>3. prompts' = [prompts EXCEPT ![h] = p]
          /\ UNCHANGED <<jsonl, picks, upgrading, booting, online, rows, now, restarts>>
          /\ (Attach(s) \/ UNCHANGED <<file, states, runtimes, down, minted, excused>>)
      BY <1>3 DEF PromptAttached
    <2> HIDE DEF p, s
    <2>4. Records' /\ Stays /\ minted' \in 1..MaxCse
      <3>1. CASE Attach(s)
        BY <2>1, <3>1, AttachType
      <3>2. CASE UNCHANGED <<file, states, runtimes, down, minted, excused>>
        BY <3>2 DEF TypeOK, Records, Stays, Grounded
      <3> QED BY <2>3, <3>1, <3>2
    <2>5. TypeOK'
      BY <2>2, <2>3, <2>4 DEF TypeOK, Records
    <2>6. runtimes'[s] # None
      BY <2>1, <2>4 DEF Stays
    <2> QED BY <2>2, <2>3, <2>4, <2>5, <2>6, PromptGrounded
  <1>4. CASE Spawn(h)
    <2> DEFINE s == prompts[h].s
               runtime == [runtimes[s] EXCEPT !.live = TRUE]
    <2>1. s \in Sessions /\ runtimes[s] # None
      BY <1>4, PromptKnown DEF Spawn, Grounded
    <2>2. runtime \in Runtime
      <3>1. runtimes[s] \in Runtime
        BY <2>1 DEF TypeOK
      <3> QED BY <3>1 DEF Runtime
    <2>3. prompts' = [prompts EXCEPT ![h] = Idle] /\ SetActivity(s, states[s], runtime, "running")
          /\ UNCHANGED <<jsonl, picks, upgrading, booting, online, rows, minted, restarts>>
      BY <1>4 DEF Spawn
    <2> HIDE DEF runtime, s
    <2>4. Records' /\ Stays /\ now' \in 0..MaxEdges
      BY <2>1, <2>2, <2>3, SetActivityType
    <2>5. TypeOK'
      BY <2>3, <2>4 DEF TypeOK, Records
    <2>6. Idle.phase = "idle"
      BY DEF Idle, At
    <2> QED BY <2>3, <2>4, <2>5, <2>6, PromptGrounded
  <1>5. CASE TokenFails(h)
    <2>1. prompts' = [prompts EXCEPT ![h] = Idle]
          /\ UNCHANGED <<file, jsonl, states, runtimes, picks, upgrading, booting, clients, now, minted, restarts, excused>>
      BY <1>5 DEF TokenFails
    <2>2. TypeOK'
      BY <2>1 DEF TypeOK, clients
    <2>3. Idle.phase = "idle" /\ Stays
      BY <2>1 DEF Idle, At, Stays, Grounded
    <2> QED BY <2>1, <2>2, <2>3, PromptGrounded
  <1> QED BY <1>1, <1>2, <1>3, <1>4, <1>5 DEF Handle

(* Turns and models.                                                       *)
LEMMA TurnsType ==
  ASSUME TypeOK, Grounded, NEW s \in Sessions,
         Turns(s) \/ \E model \in Selections : Pick(s, model)
  PROVE  TypeOK' /\ Grounded'
  <1>0. runtimes[s] # None => runtimes[s] \in Runtime
    BY DEF TypeOK
  <1>1. CASE Write(s)
    <2>1. TypeOK' /\ Stays /\ UNCHANGED <<prompts, upgrading, booting>>
      BY <1>1 DEF Write, TypeOK, Stays, Grounded, daemon, clients
    <2> QED BY <2>1, StaysGrounded
  <1>2. CASE TurnEnds(s)
    <2>1. Records' /\ Stays /\ now' \in 0..MaxEdges
      BY <1>0, <1>2, SetActivityType DEF TurnEnds
    <2>2. UNCHANGED <<jsonl, prompts, picks, upgrading, booting, online, rows, minted, restarts>>
      BY <1>2 DEF TurnEnds
    <2>3. TypeOK'
      BY <2>1, <2>2 DEF TypeOK, Records
    <2> QED BY <2>1, <2>2, <2>3, StaysGrounded
  <1>3. CASE Teardown(s)
    <2> DEFINE runtime == [runtimes[s] EXCEPT !.live = FALSE]
    <2>1. runtime \in Runtime
      BY <1>0, <1>3 DEF Teardown, Runtime
    <2>2. runtimes' = [runtimes EXCEPT ![s] = runtime]
          /\ UNCHANGED <<file, jsonl, states, prompts, picks, upgrading, booting, clients, now, minted, restarts, excused>>
      BY <1>3 DEF Teardown
    <2> HIDE DEF runtime
    <2>3. TypeOK' /\ Stays
      BY <2>1, <2>2, Nulls DEF TypeOK, Stays, Grounded, clients
    <2> QED BY <2>2, <2>3, StaysGrounded
  <1>4. CASE View(s)
    <2>1. Seeded(states[s]) \in Runtime
      BY RuntimeOfType DEF TypeOK
    <2>2. runtimes' = [runtimes EXCEPT ![s] = Seeded(states[s])]
          /\ UNCHANGED <<file, jsonl, states, prompts, picks, upgrading, booting, clients, now, minted, restarts, excused>>
      BY <1>4 DEF View
    <2>3. TypeOK' /\ Stays
      BY <2>1, <2>2, Nulls DEF TypeOK, Stays, Grounded, clients
    <2> QED BY <2>2, <2>3, StaysGrounded
  <1>5. ASSUME NEW model \in Selections, picks' \in [Sessions -> Selections \cup {None}],
               SetModel(s, model) \/ UNCHANGED <<file, states, runtimes, down, excused>>,
               UNCHANGED <<jsonl, prompts, upgrading, booting, online, rows, now, minted, restarts>>
        PROVE  TypeOK' /\ Grounded'
    <2>1. Records' /\ Stays
      <3>1. CASE SetModel(s, model)
        BY <3>1, SetModelType
      <3>2. CASE UNCHANGED <<file, states, runtimes, down, excused>>
        BY <3>2 DEF TypeOK, Records, Stays, Grounded
      <3> QED BY <1>5, <3>1, <3>2
    <2>2. TypeOK'
      BY <1>5, <2>1 DEF TypeOK, Records
    <2> QED BY <1>5, <2>1, <2>2, StaysGrounded
  <1>6. CASE PickApplied(s)
    <2>1. picks[s] \in Selections /\ picks' \in [Sessions -> Selections \cup {None}]
      BY <1>6 DEF PickApplied, TypeOK
    <2> QED BY <1>5, <1>6, <2>1 DEF PickApplied
  <1>7. ASSUME NEW model \in Selections, Pick(s, model)
        PROVE  TypeOK' /\ Grounded'
    <2>1. picks' \in [Sessions -> Selections \cup {None}]
      BY <1>7 DEF Pick, TypeOK
    <2> QED BY <1>5, <1>7, <2>1 DEF Pick
  <1> QED BY <1>1, <1>2, <1>3, <1>4, <1>6, <1>7 DEF Turns

(* The bridge and the startup pass.                                        *)
LEMMA BridgeType ==
  ASSUME TypeOK, Grounded, NEW s \in Sessions, Bridge(s)
  PROVE  TypeOK' /\ Grounded'
  <1>0. /\ runtimes[s] # None => runtimes[s] \in Runtime
        /\ states[s] \in Meta \cup {None} /\ file[s] \in Meta \cup {None}
        /\ RuntimeOf(s, states[s]) \in Runtime /\ RuntimeOf(s, states[s]) # None
    BY RuntimeOfType, Nulls DEF TypeOK
  <1>1. CASE Upgrade(s)
    <2>1. /\ runtimes' = [runtimes EXCEPT ![s] = RuntimeOf(s, states[s])]
          /\ upgrading' = [upgrading EXCEPT ![s] = "attaching"]
          /\ states[s] # None
          /\ UNCHANGED <<file, jsonl, states, prompts, picks, booting, clients, now, minted, restarts, excused>>
      BY <1>1 DEF Upgrade
    <2>2. TypeOK' /\ Stays
      BY <1>0, <2>1, Nulls DEF TypeOK, Stays, Grounded, clients
    <2>3. runtimes'[s] # None /\ file'[s] # None
      BY <1>0, <2>1 DEF TypeOK, Grounded
    <2>4. \A x \in Sessions \ {s} : upgrading'[x] = upgrading[x]
      BY <2>1 DEF TypeOK
    <2> QED BY <2>1, <2>2, <2>3, <2>4, PromptKnown DEF Grounded, Stays
  <1>2. CASE UpgradeAttached(s)
    <2>1. runtimes[s] # None /\ file[s] # None
      BY <1>2 DEF UpgradeAttached, Grounded
    <2>2. Records' /\ Stays /\ minted' \in 1..MaxCse
      <3>1. CASE Attach(s)
        BY <2>1, <3>1, AttachType
      <3>2. CASE UNCHANGED <<file, states, runtimes, down, minted, excused>>
        BY <3>2 DEF TypeOK, Records, Stays, Grounded
      <3> QED BY <1>2, <3>1, <3>2 DEF UpgradeAttached
    <2>3. \E step \in {"no", "backfilling"} : upgrading' = [upgrading EXCEPT ![s] = step]
      BY <1>2 DEF UpgradeAttached
    <2>4. UNCHANGED <<jsonl, prompts, picks, booting, online, rows, now, restarts>>
      BY <1>2 DEF UpgradeAttached
    <2>5. TypeOK'
      BY <2>2, <2>3, <2>4 DEF TypeOK, Records
    <2>6. \A x \in Sessions : upgrading'[x] # "no" => runtimes[x] # None /\ file[x] # None
      BY <2>1, <2>3 DEF TypeOK, Grounded
    <2> QED BY <2>2, <2>4, <2>5, <2>6, PromptKnown DEF Grounded, Stays
  <1>3. CASE UpgradeBackfilled(s)
    <2> DEFINE meta == [file[s] EXCEPT !.bridge.done = TRUE]
    <2>1. upgrading[s] # "no" /\ upgrading' = [upgrading EXCEPT ![s] = "no"]
          /\ UNCHANGED <<jsonl, states, runtimes, prompts, picks, booting, clients, now, minted, restarts, excused>>
      BY <1>3 DEF UpgradeBackfilled
    <2>2. file[s] # None /\ file[s].bridge # NoBridge => meta \in Meta
      BY <1>0 DEF Meta, Worker
    <2>3. \/ file' = file
          \/ file[s] # None /\ file[s].bridge # NoBridge /\ file' = [file EXCEPT ![s] = meta]
      BY <1>3 DEF UpgradeBackfilled, TypeOK
    <2> HIDE DEF meta
    <2>4. file' \in [Sessions -> Meta \cup {None}] /\ \A x \in Sessions : file'[x] = None <=> file[x] = None
      BY <2>2, <2>3, Nulls DEF TypeOK
    <2>5. TypeOK' /\ Stays
      BY <2>1, <2>4 DEF TypeOK, Stays, Grounded, clients
    <2>6. \A x \in Sessions : upgrading'[x] # "no" => upgrading[x] # "no"
      BY <2>1 DEF TypeOK
    <2> QED BY <2>1, <2>5, <2>6, PromptKnown DEF Grounded, Stays
  <1>4. CASE Checkpoint(s)
    <2>1. PICK seq \in 0..MaxSeq : file' = [file EXCEPT ![s].bridge.seq = seq]
      BY <1>4 DEF Checkpoint
    <2> DEFINE meta == [file[s] EXCEPT !.bridge.seq = seq]
    <2>2. meta \in Meta
      BY <1>0, <1>4 DEF Checkpoint, Meta, Worker
    <2>3. file' = [file EXCEPT ![s] = meta] /\ file[s] # None
          /\ UNCHANGED <<jsonl, daemon, clients, now, minted, restarts, excused>>
      BY <1>4, <2>1 DEF Checkpoint
    <2> HIDE DEF meta
    <2>4. TypeOK' /\ Stays
      BY <2>2, <2>3, Nulls DEF TypeOK, Stays, Grounded, clients, daemon
    <2>5. UNCHANGED <<prompts, upgrading, booting>>
      BY <2>3 DEF daemon
    <2> QED BY <2>4, <2>5, StaysGrounded
  <1>5. CASE Detach(s)
    <2>1. Records' /\ Stays
      BY <1>5, DetachType
    <2>2. UNCHANGED <<jsonl, prompts, picks, upgrading, booting, online, rows, now, minted, restarts>>
      BY <1>5 DEF Detach
    <2>3. TypeOK'
      BY <2>1, <2>2 DEF TypeOK, Records
    <2> QED BY <2>1, <2>2, <2>3, StaysGrounded
  <1>6. CASE Reattach(s)
    <2> DEFINE runtime == RuntimeOf(s, states[s])
               cleared == [file[s] EXCEPT !.bridge = NoBridge]
    <2>1. /\ booting[s].at = "listed" /\ booting[s] \in Boots /\ booting[s].cse \in 0..MaxCse
          /\ file[s] # None /\ cleared \in Meta
          /\ UNCHANGED <<jsonl, states, prompts, picks, upgrading, clients, now, minted, restarts>>
      BY <1>0, <1>6 DEF Reattach, Grounded, Meta, TypeOK, Boots
    <2>2. \/ /\ runtimes' = [runtimes EXCEPT ![s] = runtime]
             /\ \E b \in {Booting("attaching", booting[s].cse), Booted} :
                   booting' = [booting EXCEPT ![s] = b]
             /\ UNCHANGED <<file, excused>>
          \/ /\ booting' = [booting EXCEPT ![s] = Booted]
             /\ file' = [file EXCEPT ![s] = cleared] /\ UNCHANGED runtimes
             /\ \E more \in SUBSET Excuses : excused' = [excused EXCEPT ![s] = @ \cup more]
          \/ /\ booting' = [booting EXCEPT ![s] = Booted]
             /\ UNCHANGED <<file, runtimes, excused>>
      <3> DEFINE stale == IF Found(s) = 0 THEN {} ELSE {"stale"}
                 late == IF runtime.cse = 0 THEN {} ELSE {"lost"}
      <3>1. stale \cup late \in SUBSET Excuses
        BY DEF Excuses
      <3>2. excused[s] \cup stale \cup late = excused[s] \cup (stale \cup late)
        OBVIOUS
      <3>3. \/ /\ runtimes' = [runtimes EXCEPT ![s] = runtime]
               /\ booting' = [booting EXCEPT ![s] = IF runtime.cse = 0 THEN Booting("attaching", @.cse) ELSE Booted]
               /\ UNCHANGED <<file, excused>>
            \/ /\ booting' = [booting EXCEPT ![s] = Booted]
               /\ file' = [file EXCEPT ![s] = cleared] /\ UNCHANGED runtimes
               /\ excused' = [excused EXCEPT ![s] = @ \cup stale \cup late]
            \/ /\ booting' = [booting EXCEPT ![s] = Booted]
               /\ UNCHANGED <<file, runtimes, excused>>
        BY <1>6 DEF Reattach
      <3> HIDE DEF runtime, cleared, stale, late
      <3>4. CASE /\ runtimes' = [runtimes EXCEPT ![s] = runtime]
                 /\ booting' = [booting EXCEPT ![s] = IF runtime.cse = 0 THEN Booting("attaching", @.cse) ELSE Booted]
                 /\ UNCHANGED <<file, excused>>
        BY <3>4
      <3>5. CASE /\ booting' = [booting EXCEPT ![s] = Booted]
                 /\ file' = [file EXCEPT ![s] = cleared] /\ UNCHANGED runtimes
                 /\ excused' = [excused EXCEPT ![s] = @ \cup stale \cup late]
        BY <3>1, <3>2, <3>5
      <3> QED BY <3>3, <3>4, <3>5
    <2>3. /\ Booting("attaching", booting[s].cse) \in Boots
          /\ Booted \in Boots
          /\ Booted.at = "done"
      BY <2>1, Nulls DEF Booting, Booted, Boots
    <2> HIDE DEF runtime, cleared
    <2>4. /\ file' \in [Sessions -> Meta \cup {None}]
          /\ \A x \in Sessions : file'[x] = None <=> file[x] = None
      BY <2>1, <2>2, Nulls DEF TypeOK
    <2>5. /\ runtimes' \in [Sessions -> Runtime \cup {None}]
          /\ \A x \in Sessions : runtimes[x] # None => runtimes'[x] # None
      BY <1>0, <2>2, Nulls DEF TypeOK, runtime
    <2>6. excused' \in [Sessions -> SUBSET Excuses]
      <3>1. ASSUME NEW more \in SUBSET Excuses, excused' = [excused EXCEPT ![s] = @ \cup more]
            PROVE  excused' \in [Sessions -> SUBSET Excuses]
        <4>1. excused[s] \cup more \in SUBSET Excuses
          BY DEF TypeOK
        <4> QED BY <3>1, <4>1 DEF TypeOK
      <3> QED BY <2>2, <3>1 DEF TypeOK
    <2>7. /\ booting' \in [Sessions -> Boots]
          /\ \A x \in Sessions \ {s} : booting'[x] = booting[x]
          /\ booting'[s].at # "done" => runtimes'[s] # None
      <3>1. \E b \in Boots : /\ booting' = [booting EXCEPT ![s] = b]
                             /\ b.at = "done" \/ runtimes' = [runtimes EXCEPT ![s] = runtime]
        BY <2>2, <2>3
      <3>2. PICK b \in Boots : /\ booting' = [booting EXCEPT ![s] = b]
                               /\ b.at = "done" \/ runtimes' = [runtimes EXCEPT ![s] = runtime]
        BY <3>1
      <3>3. runtime # None /\ booting \in [Sessions -> Boots] /\ runtimes \in [Sessions -> Runtime \cup {None}]
        BY <1>0 DEF TypeOK, runtime
      <3> QED BY <3>2, <3>3
    <2>8. Stays
      BY <2>1, <2>4, <2>5 DEF Stays, Grounded
    <2>9. TypeOK'
      BY <2>1, <2>4, <2>5, <2>6, <2>7 DEF TypeOK, clients
    <2> QED BY <2>1, <2>7, <2>8, <2>9, PromptKnown DEF Grounded, Stays
  <1>7. CASE Reattached(s)
    <2> DEFINE bound == [runtimes[s] EXCEPT !.cse = booting[s].cse]
    <2>1. /\ booting[s].at = "attaching" /\ booting[s].cse \in 0..MaxCse
          /\ runtimes[s] # None /\ runtimes[s] \in Runtime
          /\ booting' = [booting EXCEPT ![s] = Booted]
          /\ UNCHANGED <<file, jsonl, states, prompts, picks, upgrading, clients, now, minted, restarts>>
      BY <1>0, <1>7 DEF Reattached, Grounded, TypeOK, Boots
    <2>2. bound \in Runtime
      BY <2>1 DEF Runtime
    <2>3. \/ /\ runtimes' = [runtimes EXCEPT ![s] = bound]
             /\ \E more \in SUBSET Excuses : excused' = [excused EXCEPT ![s] = @ \cup more]
          \/ UNCHANGED <<runtimes, excused>>
      <3> DEFINE lost == IF Found(s) = booting[s].cse THEN {} ELSE {"lost"}
      <3>1. lost \in SUBSET Excuses
        BY DEF Excuses
      <3>2. \/ /\ runtimes' = [runtimes EXCEPT ![s] = bound]
               /\ excused' = [excused EXCEPT ![s] = @ \cup lost]
            \/ UNCHANGED <<runtimes, excused>>
        BY <1>7 DEF Reattached
      <3> HIDE DEF lost, bound
      <3> QED BY <3>1, <3>2
    <2> HIDE DEF bound
    <2>4. /\ runtimes' \in [Sessions -> Runtime \cup {None}]
          /\ \A x \in Sessions : runtimes[x] # None => runtimes'[x] # None
      BY <2>2, <2>3, Nulls DEF TypeOK
    <2>5. excused' \in [Sessions -> SUBSET Excuses]
      <3>1. ASSUME NEW more \in SUBSET Excuses, excused' = [excused EXCEPT ![s] = @ \cup more]
            PROVE  excused' \in [Sessions -> SUBSET Excuses]
        <4>1. excused[s] \cup more \in SUBSET Excuses
          BY DEF TypeOK
        <4> QED BY <3>1, <4>1 DEF TypeOK
      <3> QED BY <2>3, <3>1 DEF TypeOK
    <2>6. /\ booting' \in [Sessions -> Boots]
          /\ booting'[s].at = "done"
          /\ \A x \in Sessions \ {s} : booting'[x] = booting[x]
      <3>1. Booted \in Boots /\ Booted.at = "done"
        BY Nulls DEF Booting, Booted, Boots
      <3> QED BY <2>1, <3>1 DEF TypeOK
    <2>7. Stays
      BY <2>1, <2>4 DEF Stays, Grounded
    <2>8. TypeOK'
      BY <2>1, <2>4, <2>5, <2>6 DEF TypeOK, clients
    <2> QED BY <2>1, <2>6, <2>7, <2>8, PromptKnown DEF Grounded, Stays
  <1> QED BY <1>1, <1>2, <1>3, <1>4, <1>5, <1>6, <1>7 DEF Bridge

(* Devices, and the daemon's restart.                                      *)
LEMMA DevicesType ==
  ASSUME TypeOK, Grounded, NEW d \in Devices, Connect(d) \/ Disconnect(d) \/ Deliver(d)
  PROVE  TypeOK' /\ Grounded'
  <1>1. CASE Connect(d)
    <2> DEFINE first == <<[type |-> "initial", rows |-> Snapshot]>>
    <2>1. Snapshot \in Rows
      BY PublicType DEF Snapshot, Rows, TypeOK
    <2>2. first \in Seq(Frame)
      <3>1. [type |-> "initial", rows |-> Snapshot] \in Frame
        BY <2>1 DEF Frame
      <3> QED BY <3>1
    <2>3. online' = [online EXCEPT ![d] = TRUE] /\ down' = [down EXCEPT ![d] = first]
          /\ UNCHANGED <<file, jsonl, daemon, rows, now, minted, restarts, excused>>
      BY <1>1 DEF Connect, SubscribeSessionStates
    <2> HIDE DEF first
    <2>4. TypeOK' /\ Stays
      BY <2>2, <2>3 DEF TypeOK, Stays, Grounded, daemon
    <2> QED BY <2>3, <2>4, StaysGrounded DEF daemon
  <1>2. CASE Disconnect(d)
    <2>1. NoRows \in Rows /\ <<>> \in Seq(Frame)
      BY DEF NoRows, Rows
    <2>2. TypeOK' /\ Stays
      BY <1>2, <2>1 DEF Disconnect, TypeOK, Stays, Grounded, daemon
    <2> QED BY <1>2, <2>2, StaysGrounded DEF Disconnect, daemon
  <1>3. CASE Deliver(d)
    <2> DEFINE frame == Head(down[d])
    <2>1. down[d] \in Seq(Frame) /\ down[d] # <<>> /\ rows[d] \in Rows
      BY <1>3 DEF TypeOK, Deliver
    <2>2. frame \in Frame /\ Tail(down[d]) \in Seq(Frame)
      BY <2>1
    <2>3. down' = [down EXCEPT ![d] = Tail(@)] /\ rows' = [rows EXCEPT ![d] = Fed(@, frame)]
          /\ UNCHANGED <<file, jsonl, daemon, online, now, minted, restarts, excused>>
      BY <1>3 DEF Deliver
    <2> HIDE DEF frame
    <2>4. Fed(rows[d], frame) \in Rows
      BY <2>1, <2>2 DEF Fed, OnChange, Frame, Rows
    <2>5. TypeOK' /\ Stays
      BY <2>2, <2>3, <2>4 DEF TypeOK, Stays, Grounded, daemon
    <2> QED BY <2>3, <2>5, StaysGrounded DEF daemon
  <1> QED BY <1>1, <1>2, <1>3

LEMMA FoundType ==
  ASSUME TypeOK, NEW s \in Sessions
  PROVE  /\ Found(s) \in 0..MaxCse
         /\ Found(s) # 0 <=> file[s] # None /\ file[s].bridge # NoBridge
         /\ Found(s) # 0 => Found(s) = file[s].bridge.cse /\ file[s].bridge \in Worker
  <1>1. file[s] # None /\ file[s].bridge # NoBridge => file[s].bridge \in Worker
    BY DEF Meta, TypeOK
  <1> QED BY <1>1, Nulls DEF Found, Worker

LEMMA RestartType == TypeOK /\ Grounded /\ Restart => TypeOK' /\ Grounded'
  <1> SUFFICES ASSUME TypeOK, Grounded, Restart PROVE TypeOK' /\ Grounded'
    OBVIOUS
  <1>1. NoRows \in Rows /\ <<>> \in Seq(Frame)
    BY DEF NoRows, Rows
  <1>2. restarts' \in 0..MaxRestarts
    BY Nulls DEF Restart, TypeOK
  <1>3. TypeOK'
    <2>1. booting' \in [Sessions -> Boots]
      BY FoundType, ListedType DEF Restart
    <2> QED BY <1>1, <1>2, <2>1 DEF Restart, TypeOK
  <1>4. \A h \in Handlers : prompts'[h].phase = "idle"
    BY DEF Restart, Idle, At
  <1>5. \A s \in Sessions : /\ booting'[s].at # "done" => file'[s] # None
                            /\ booting'[s].at # "attaching"
    BY FoundType, ListedType DEF Restart
  <1> QED BY <1>3, <1>4, <1>5 DEF Restart, Grounded

LEMMA TypeInvStep == TypeOK /\ Grounded /\ [Next]_vars => TypeOK' /\ Grounded'
  <1> SUFFICES ASSUME TypeOK, Grounded, [Next]_vars PROVE TypeOK' /\ Grounded'
    OBVIOUS
  <1>1. CASE Daemon
    BY <1>1, HandleType, BridgeType, TurnsType DEF Daemon
  <1>2. CASE \E d \in Devices : Connect(d) \/ Disconnect(d) \/ Deliver(d)
    BY <1>2, DevicesType
  <1>3. CASE Restart
    BY <1>3, RestartType
  <1>4. CASE UNCHANGED vars
    <2>1. TypeOK' /\ Stays
      BY <1>4 DEF vars, daemon, clients, TypeOK, Stays, Grounded
    <2> QED BY <1>4, <2>1, StaysGrounded DEF vars, daemon
  <1> QED BY <1>1, <1>2, <1>3, <1>4 DEF Next

(* Every variable keeps its type, whatever awaits, bridge changes, frames  *)
(* and restarts interleave: no command goes on with a runtime, and no      *)
(* bridge writes worker state into a file, that is not there               *)
(* (router.ts:604-700, sidecode-sessions.ts:343-397).                      *)
THEOREM TypeCorrect == Spec => [](TypeOK /\ Grounded)
  BY TypeInvInit, TypeInvStep, PTL DEF Spec

-----------------------------------------------------------------------------
(* What is kept of a session.                                              *)

(* What is kept of one session is not disturbed by what is done to another. *)
Only(s) ==
    /\ \A x \in Sessions \ {s} : /\ file'[x] = file[x] /\ states'[x] = states[x]
                                 /\ runtimes'[x] = runtimes[x] /\ excused'[x] = excused[x]
    /\ now <= now' /\ minted <= minted'

(* A record that is still about the same cloud session has not gone back.  *)
Onward(old, new) ==
    FoundIn(old) # 0 /\ FoundIn(new) = FoundIn(old) =>
        new.bridge.seq >= old.bridge.seq /\ (old.bridge.done => new.bridge.done)

LEMMA KeptTypes ==
  ASSUME TypeOK
  PROVE  /\ now \in Nat /\ minted \in Nat \ {0}
         /\ \A s \in Sessions :
               /\ file[s] # None => /\ file[s] \in Meta /\ file[s].stamp \in Nat
                                    /\ file[s].bridge # NoBridge =>
                                          /\ file[s].bridge \in Worker
                                          /\ file[s].bridge.cse \in Nat \ {0}
                                          /\ file[s].bridge.seq \in Nat
                                          /\ file[s].bridge.done \in BOOLEAN
               /\ states[s] # None => states[s] \in Meta /\ states[s].stamp \in Nat
               /\ runtimes[s] # None => /\ runtimes[s] \in Runtime
                                        /\ runtimes[s].stamp \in Nat /\ runtimes[s].cse \in Nat
               /\ Found(s) = FoundIn(file[s])
  <1>1. now \in Nat /\ minted \in Nat \ {0}
    BY Nulls DEF TypeOK
  <1>2. \A x \in Meta : x.stamp \in Nat /\ x.bridge \in Worker \cup {NoBridge}
    BY Nulls DEF Meta
  <1>3. \A x \in Worker : x.cse \in Nat \ {0} /\ x.seq \in Nat /\ x.done \in BOOLEAN
    BY Nulls DEF Worker
  <1>4. \A x \in Runtime : x.stamp \in Nat /\ x.cse \in Nat
    BY Nulls DEF Runtime
  <1> QED BY <1>1, <1>2, <1>3, <1>4 DEF TypeOK, Found, FoundIn

LEMMA KeptHere ==
  ASSUME TypeOK, TypeOK', Kept, NEW s \in Sessions, Only(s),
         SameRecord(file'[s], states'[s], excused'[s]),
         SameRuntime(file'[s], runtimes'[s], excused'[s]),
         InThePast(file[s], runtimes[s])',
         Onward(file[s], file'[s])
  PROVE  Kept' /\ \A x \in Sessions : Onward(file[x], file'[x])
  <1>1. now' \in Nat /\ minted' \in Nat /\ now \in Nat /\ minted \in Nat
    BY Nulls DEF TypeOK
  <1>2. ASSUME NEW x \in Sessions, x # s
        PROVE  InThePast(file[x], runtimes[x])' /\ Onward(file[x], file'[x])
    <2>1. InThePast(file[x], runtimes[x])
      BY DEF Kept
    <2>2. file'[x] = file[x] /\ runtimes'[x] = runtimes[x] /\ now <= now' /\ minted <= minted'
      BY <1>2 DEF Only
    <2> QED BY <1>1, <2>1, <2>2, KeptTypes DEF InThePast, Onward, FoundIn
  <1> QED BY <1>2 DEF Kept, Only

(* What is persisted by the manager keeps the bridge's part of the file, so *)
(* the cache is again what the file is.                                    *)
LEMMA PersistKept ==
  ASSUME TypeOK, Grounded, Kept, NEW s \in Sessions, states[s] # None, NEW meta \in Meta,
         Persist(s, meta)
  PROVE  /\ file'[s] = states'[s] /\ file'[s] # None /\ file[s] # None
         /\ file'[s].model = meta.model /\ file'[s].stamp = meta.stamp
         /\ file'[s].bridge = file[s].bridge
         /\ FoundIn(file'[s]) = FoundIn(file[s])
         /\ Onward(file[s], file'[s])
         /\ (\A e \in {"recreated", "lost"} : e \in excused[s] => e \in excused'[s])
         /\ \A x \in Sessions \ {s} : /\ file'[x] = file[x] /\ states'[x] = states[x]
                                      /\ excused'[x] = excused[x]
  <1>1. file[s] # None
    BY DEF Grounded
  <1>2. /\ file'[s] = Merged(s, meta) /\ states'[s] = Merged(s, meta)
        /\ (\A e \in {"recreated", "lost"} : e \in excused[s] => e \in excused'[s])
        /\ \A x \in Sessions \ {s} : /\ file'[x] = file[x] /\ states'[x] = states[x]
                                     /\ excused'[x] = excused[x]
    BY DEF Persist, TypeOK
  <1>3. Merged(s, meta) \in Meta
    BY PersistType
  <1>4. /\ Merged(s, meta).model = meta.model /\ Merged(s, meta).stamp = meta.stamp
        /\ Merged(s, meta).bridge = file[s].bridge
    BY <1>1 DEF Merged, Meta
  <1>5. FoundIn(file'[s]) = FoundIn(file[s])
    BY <1>1, <1>2, <1>3, <1>4, Nulls DEF FoundIn
  <1>6. Onward(file[s], file'[s])
    <2>1. file[s].bridge # NoBridge => file[s].bridge.seq \in Nat
      BY <1>1, KeptTypes
    <2> QED BY <1>1, <1>2, <1>4, <2>1 DEF Onward, FoundIn
  <1> QED BY <1>1, <1>2, <1>3, <1>4, <1>5, <1>6, Nulls

LEMMA SetActivityKept ==
  ASSUME TypeOK, TypeOK', Grounded, Kept, NEW s \in Sessions, runtimes[s] # None,
         NEW runtime \in Runtime, runtime.model = runtimes[s].model,
         runtime.cse = runtimes[s].cse, runtime.activity = runtimes[s].activity,
         NEW activity \in {"idle", "running"},
         activity = "idle" => runtime.activity = "running",
         SetActivity(s, states[s], runtime, activity), minted' = minted
  PROVE  Kept' /\ \A x \in Sessions : Onward(file[x], file'[x])
  <1>0. now \in Nat /\ minted \in Nat
        /\ (runtimes[s] # None => runtimes[s].stamp \in Nat)
        /\ (file[s] # None => file[s].stamp \in Nat)
    BY KeptTypes
  <1> DEFINE next == [runtime EXCEPT !.activity = activity, !.stamp = now + 1]
  <1>1. /\ next.activity = activity /\ next.stamp = now + 1
        /\ next.model = runtimes[s].model /\ next.cse = runtimes[s].cse
    BY DEF Runtime
  <1>2. /\ now' = now + 1 /\ runtimes'[s] = next
        /\ \A x \in Sessions \ {s} : runtimes'[x] = runtimes[x]
    BY DEF SetActivity, TypeOK
  <1>3. CASE states[s] = None \/ runtime.activity = activity
    <2>1. UNCHANGED <<file, states, excused>>
      BY <1>3 DEF SetActivity
    <2>2. states[s] # None => activity = "running"
      BY <1>3
    <2>3. Only(s)
      BY <1>2, <2>1, KeptTypes DEF Only
    <2>4. Onward(file[s], file'[s])
      BY <2>1, KeptTypes DEF Onward, FoundIn
    <2> HIDE DEF next
    <2>5. SameRecord(file'[s], states'[s], excused'[s])
      BY <2>1 DEF Kept
    <2>6. SameRuntime(file'[s], runtimes'[s], excused'[s])
      <3>1. SameRuntime(file[s], runtimes[s], excused[s]) /\ (file[s] = None <=> states[s] = None)
        BY DEF Kept, Grounded
      <3> QED BY <1>1, <1>2, <2>1, <2>2, <3>1 DEF SameRuntime
    <2>7. InThePast(file[s], runtimes[s])'
      <3>1. InThePast(file[s], runtimes[s])
        BY DEF Kept
      <3> QED BY <1>1, <1>2, <2>1, <3>1, KeptTypes DEF InThePast, FoundIn
    <2> QED BY <2>3, <2>4, <2>5, <2>6, <2>7, KeptHere
  <1>4. CASE states[s] # None /\ runtime.activity # activity
    <2> DEFINE meta == [states[s] EXCEPT !.stamp = now + 1]
    <2>1. meta \in Meta /\ meta.model = states[s].model /\ meta.stamp = now + 1
      <3>1. states[s] \in Meta /\ now + 1 \in 0..MaxEdges
        BY <1>2, <1>4, Nulls DEF TypeOK
      <3> QED BY <3>1 DEF Meta
    <2>2. Persist(s, meta)
      BY <1>4 DEF SetActivity
    <2> HIDE DEF next, meta
    <2>3. /\ file'[s] = states'[s] /\ file'[s] # None /\ file[s] # None
          /\ file'[s].model = states[s].model /\ file'[s].stamp = now + 1
          /\ FoundIn(file'[s]) = FoundIn(file[s])
          /\ Onward(file[s], file'[s])
          /\ (\A e \in {"recreated", "lost"} : e \in excused[s] => e \in excused'[s])
          /\ \A x \in Sessions \ {s} : /\ file'[x] = file[x] /\ states'[x] = states[x]
                                       /\ excused'[x] = excused[x]
      BY <1>4, <2>1, <2>2, PersistKept
    <2>4. Only(s)
      BY <1>0, <1>2, <2>3 DEF Only
    <2>5. SameRecord(file'[s], states'[s], excused'[s])
      BY <2>3 DEF SameRecord
    <2>6. SameRuntime(file'[s], runtimes'[s], excused'[s])
      <3>1. SameRuntime(file[s], runtimes[s], excused[s]) /\ SameRecord(file[s], states[s], excused[s])
        BY DEF Kept
      <3> QED BY <1>0, <1>1, <1>2, <2>3, <3>1 DEF SameRuntime, SameRecord
    <2>7. InThePast(file[s], runtimes[s])'
      <3>1. InThePast(file[s], runtimes[s])
        BY DEF Kept
      <3> QED BY <1>0, <1>1, <1>2, <2>3, <3>1 DEF InThePast
    <2> QED BY <2>3, <2>4, <2>5, <2>6, <2>7, KeptHere
  <1> QED BY <1>3, <1>4

LEMMA SetModelKept ==
  ASSUME TypeOK, TypeOK', Grounded, Kept, NEW s \in Sessions, NEW model \in Selections,
         SetModel(s, model), UNCHANGED <<now, minted>>
  PROVE  Kept' /\ \A x \in Sessions : Onward(file[x], file'[x])
  <1>0. now \in Nat /\ minted \in Nat
        /\ (runtimes[s] # None => runtimes[s].stamp \in Nat)
        /\ (file[s] # None => file[s].stamp \in Nat)
    BY KeptTypes
  <1>1. CASE states[s] = None \/ states[s].model = model
    <2>1. UNCHANGED <<file, states, runtimes, excused>>
      BY <1>1 DEF SetModel
    <2> QED BY <2>1, KeptTypes DEF Kept, InThePast, Onward, FoundIn
  <1>2. CASE states[s] # None /\ states[s].model # model
    <2> DEFINE runtime == IF runtimes[s] = None THEN None ELSE [runtimes[s] EXCEPT !.model = model]
               meta == [states[s] EXCEPT !.model = model]
    <2>1. meta \in Meta /\ meta.model = model /\ meta.stamp = states[s].stamp
      <3>1. states[s] \in Meta
        BY <1>2 DEF TypeOK
      <3> QED BY <3>1 DEF Meta
    <2>2. /\ runtimes[s] = None => runtime = None
          /\ runtimes[s] # None => /\ runtime.model = model /\ runtime.cse = runtimes[s].cse
                                   /\ runtime.stamp = runtimes[s].stamp
                                   /\ runtime.activity = runtimes[s].activity
      BY KeptTypes DEF Runtime
    <2>3. runtimes' = [runtimes EXCEPT ![s] = runtime] /\ Persist(s, meta)
      BY <1>2 DEF SetModel
    <2> HIDE DEF runtime, meta
    <2>4. /\ runtimes'[s] = runtime
          /\ \A x \in Sessions \ {s} : runtimes'[x] = runtimes[x]
      BY <2>3 DEF TypeOK
    <2>5. /\ file'[s] = states'[s] /\ file'[s] # None /\ file[s] # None
          /\ file'[s].model = model /\ file'[s].stamp = states[s].stamp
          /\ FoundIn(file'[s]) = FoundIn(file[s])
          /\ Onward(file[s], file'[s])
          /\ (\A e \in {"recreated", "lost"} : e \in excused[s] => e \in excused'[s])
          /\ \A x \in Sessions \ {s} : /\ file'[x] = file[x] /\ states'[x] = states[x]
                                       /\ excused'[x] = excused[x]
      BY <1>2, <2>1, <2>3, PersistKept
    <2>6. Only(s)
      BY <1>0, <2>4, <2>5 DEF Only
    <2>7. SameRecord(file'[s], states'[s], excused'[s])
      BY <2>5 DEF SameRecord
    <2>8. SameRuntime(file[s], runtimes[s], excused[s]) /\ SameRecord(file[s], states[s], excused[s])
          /\ InThePast(file[s], runtimes[s])
      BY DEF Kept
    <2>9. SameRuntime(file'[s], runtimes'[s], excused'[s])
      BY <2>2, <2>4, <2>5, <2>8 DEF SameRuntime, SameRecord
    <2>10. InThePast(file[s], runtimes[s])'
      BY <2>2, <2>4, <2>5, <2>8 DEF InThePast, SameRecord
    <2> QED BY <2>5, <2>6, <2>7, <2>9, <2>10, KeptHere
  <1> QED BY <1>1, <1>2

(* A runtime that is made has the record's model and stamp, and no mirror.  *)
LEMMA RuntimeOfKept ==
  ASSUME TypeOK, TypeOK', Grounded, Kept, NEW s \in Sessions,
         runtimes' = [runtimes EXCEPT ![s] = RuntimeOf(s, states[s])],
         UNCHANGED <<file, states, excused, now, minted>>
  PROVE  Kept' /\ \A x \in Sessions : Onward(file[x], file'[x])
  <1>1. /\ runtimes'[s] = RuntimeOf(s, states[s])
        /\ \A x \in Sessions \ {s} : runtimes'[x] = runtimes[x]
    BY DEF TypeOK
  <1>2. Only(s) /\ Onward(file[s], file'[s])
    BY <1>1, KeptTypes DEF Only, Onward, FoundIn
  <1>3. /\ SameRecord(file[s], states[s], excused[s])
        /\ SameRuntime(file[s], runtimes[s], excused[s])
        /\ InThePast(file[s], runtimes[s])
        /\ (file[s] = None <=> states[s] = None)
    BY DEF Kept, Grounded
  <1>4. CASE runtimes[s] # None
    <2>1. runtimes'[s] = runtimes[s]
      BY <1>1, <1>4 DEF RuntimeOf
    <2>2. InThePast(file[s], runtimes[s])'
      BY <1>3, <2>1 DEF InThePast
    <2> QED BY <1>2, <1>3, <2>1, <2>2, KeptHere
  <1>5. CASE runtimes[s] = None
    <2>1. /\ runtimes'[s].cse = 0
          /\ runtimes'[s].model = IF states[s] = None THEN NoModel ELSE states[s].model
          /\ runtimes'[s].stamp = IF states[s] = None THEN now ELSE states[s].stamp
      BY <1>1, <1>5 DEF RuntimeOf, Seeded
    <2>2. SameRuntime(file'[s], runtimes'[s], excused'[s])
      BY <1>3, <2>1, KeptTypes DEF SameRuntime, SameRecord
    <2>3. InThePast(file[s], runtimes[s])'
      BY <1>3, <2>1, KeptTypes DEF InThePast, SameRecord
    <2> QED BY <1>2, <1>3, <2>2, <2>3, KeptHere
  <1> QED BY <1>4, <1>5

LEMMA CheckedKept ==
  ASSUME TypeOK, TypeOK', Grounded, Kept, NEW h \in Handlers, Checked(h)
  PROVE  Kept' /\ \A x \in Sessions : Onward(file[x], file'[x])
  <1>0. prompts[h] \in Prompt /\ UNCHANGED minted
    BY PromptKnown DEF Checked
  <1>1. PICK s \in Sessions, model \in Selections : prompts[h].s = s /\ prompts[h].model = model
    BY <1>0 DEF Prompt
  <1> DEFINE meta == NewSession(model)
  <1>2. CASE prompts[h].exists
    <2>1. runtimes' = [runtimes EXCEPT ![s] = RuntimeOf(s, states[s])]
          /\ UNCHANGED <<file, states, now, excused>>
      BY <1>1, <1>2 DEF Checked
    <2> QED BY <1>0, <2>1, RuntimeOfKept
  <1>3. CASE ~prompts[h].exists
    <2>1. /\ runtimes' = [runtimes EXCEPT ![s] = RuntimeOf(s, meta)]
          /\ now' = now + 1
          /\ states' = [states EXCEPT ![s] = meta] /\ file' = [file EXCEPT ![s] = meta]
          /\ excused' = [excused EXCEPT ![s] = IF states[s] = None THEN @ ELSE @ \cup {"recreated"}]
      BY <1>1, <1>3 DEF Checked
    <2>2. meta.model = model /\ meta.stamp = now + 1 /\ meta.bridge = NoBridge
      BY DEF NewSession
    <2>3. /\ runtimes'[s] = RuntimeOf(s, meta) /\ states'[s] = meta /\ file'[s] = meta
          /\ (states[s] # None => "recreated" \in excused'[s])
          /\ excused[s] \subseteq excused'[s]
          /\ \A x \in Sessions \ {s} : /\ file'[x] = file[x] /\ states'[x] = states[x]
                                       /\ runtimes'[x] = runtimes[x] /\ excused'[x] = excused[x]
      BY <1>1, <2>1 DEF TypeOK
    <2>4. Only(s)
      BY <1>0, <2>1, <2>3, KeptTypes DEF Only
    <2>5. FoundIn(meta) = 0 /\ meta # None
      <3>1. now + 1 \in 0..MaxEdges
        BY <2>1 DEF TypeOK
      <3>2. meta \in Meta
        BY <3>1 DEF NewSession, Meta
      <3> QED BY <2>2, <3>2, Nulls DEF FoundIn
    <2> HIDE DEF meta
    <2>6. Onward(file[s], file'[s])
      BY <2>3, <2>5 DEF Onward
    <2>7. SameRecord(file'[s], states'[s], excused'[s])
      BY <2>3 DEF SameRecord
    <2>8. /\ SameRuntime(file[s], runtimes[s], excused[s])
          /\ InThePast(file[s], runtimes[s])
          /\ (file[s] = None <=> states[s] = None)
      BY <1>1 DEF Kept, Grounded
    <2>9. CASE runtimes[s] # None
      <3>1. runtimes'[s] = runtimes[s] /\ runtimes[s].stamp \in Nat /\ now \in Nat /\ minted \in Nat
            /\ runtimes[s].cse \in Nat
        BY <1>1, <2>3, <2>9, KeptTypes DEF RuntimeOf
      <3>2. SameRuntime(file'[s], runtimes'[s], excused'[s])
        <4>1. FoundIn(file[s]) = 0 \/ "recreated" \in excused'[s]
          BY <2>3, <2>8 DEF FoundIn
        <4> QED BY <2>1, <2>2, <2>3, <2>5, <2>8, <2>9, <3>1, <4>1 DEF SameRuntime, InThePast
      <3>3. InThePast(file[s], runtimes[s])'
        BY <1>0, <2>1, <2>2, <2>3, <2>5, <2>8, <2>9, <3>1 DEF InThePast
      <3> QED BY <1>1, <2>4, <2>6, <2>7, <3>2, <3>3, KeptHere
    <2>10. CASE runtimes[s] = None
      <3>1. runtimes'[s].cse = 0 /\ runtimes'[s].model = meta.model /\ runtimes'[s].stamp = meta.stamp
            /\ now \in Nat /\ minted \in Nat
        BY <2>3, <2>5, <2>10, KeptTypes DEF RuntimeOf, Seeded
      <3>2. SameRuntime(file'[s], runtimes'[s], excused'[s])
        BY <2>2, <2>3, <2>5, <3>1 DEF SameRuntime
      <3>3. InThePast(file[s], runtimes[s])'
        BY <1>0, <2>1, <2>2, <2>3, <2>5, <3>1 DEF InThePast
      <3> QED BY <1>1, <2>4, <2>6, <2>7, <3>2, <3>3, KeptHere
    <2> QED BY <2>9, <2>10
  <1> QED BY <1>0, <1>2, <1>3 DEF Prompt

(* A fresh attach mints a cloud session no file has yet.                   *)
LEMMA AttachKept ==
  ASSUME TypeOK, TypeOK', Grounded, Kept, NEW s \in Sessions, runtimes[s] # None,
         file[s] # None, Attach(s), now' = now
  PROVE  Kept' /\ \A x \in Sessions : Onward(file[x], file'[x])
  <1> DEFINE bridge == [cse |-> minted + 1, seq |-> 0, done |-> FALSE]
             runtime == [runtimes[s] EXCEPT !.cse = minted + 1]
             kept == [file[s] EXCEPT !.bridge = bridge]
             meta == [states[s] EXCEPT !.bridge = bridge]
  <1>0. /\ minted \in Nat \ {0} /\ now \in Nat /\ minted' = minted + 1
        /\ runtimes[s] \in Runtime /\ file[s] \in Meta /\ states[s] \in Meta
        /\ SameRecord(file[s], states[s], excused[s])
        /\ SameRuntime(file[s], runtimes[s], excused[s])
        /\ InThePast(file[s], runtimes[s])
    BY KeptTypes DEF Attach, Kept, Grounded
  <1>1. /\ file' = [file EXCEPT ![s] = kept] /\ runtimes' = [runtimes EXCEPT ![s] = runtime]
        /\ states' = [states EXCEPT ![s] = meta]
        /\ excused' = [excused EXCEPT ![s] = @ \ {"stale"}]
    BY <1>0, Nulls DEF Attach, NotifyBridgeChanged
  <1>2. /\ file'[s] = kept /\ runtimes'[s] = runtime /\ states'[s] = meta
        /\ (\A e \in {"recreated", "lost"} : e \in excused[s] => e \in excused'[s])
        /\ \A x \in Sessions \ {s} : /\ file'[x] = file[x] /\ states'[x] = states[x]
                                     /\ runtimes'[x] = runtimes[x] /\ excused'[x] = excused[x]
    BY <1>1 DEF TypeOK
  <1>3. /\ kept.model = file[s].model /\ kept.stamp = file[s].stamp /\ kept.bridge = bridge
        /\ meta.model = states[s].model /\ meta.stamp = states[s].stamp /\ meta.bridge = bridge
        /\ bridge.cse = minted + 1
    BY <1>0 DEF Meta
  <1>4. /\ runtime.model = runtimes[s].model /\ runtime.stamp = runtimes[s].stamp
        /\ runtime.activity = runtimes[s].activity /\ runtime.cse = minted + 1
    BY <1>0 DEF Runtime
  <1>5. bridge # NoBridge /\ kept # None
    <2>1. bridge \in Worker
      <3>1. minted + 1 \in 1..MaxCse /\ 0 \in 0..MaxSeq
        BY <1>0, Nulls DEF Attach, TypeOK
      <3> QED BY <3>1 DEF Worker
    <2>2. kept \in Meta
      BY <1>0, <2>1 DEF Meta
    <2> QED BY <2>1, <2>2, Nulls
  <1> HIDE DEF bridge, runtime, kept, meta
  <1>6. FoundIn(kept) = minted + 1
    BY <1>3, <1>5 DEF FoundIn
  <1>7. Only(s)
    BY <1>0, <1>2 DEF Only
  <1>8. Onward(file[s], file'[s])
    <2>1. FoundIn(file[s]) # minted + 1
      BY <1>0, KeptTypes DEF InThePast, FoundIn
    <2> QED BY <1>2, <1>6, <2>1 DEF Onward
  <1>9. SameRecord(file'[s], states'[s], excused'[s])
    BY <1>0, <1>2, <1>3, <1>5 DEF SameRecord
  <1>10. SameRuntime(file'[s], runtimes'[s], excused'[s])
    BY <1>0, <1>2, <1>3, <1>4, <1>5, <1>6 DEF SameRuntime
  <1>11. InThePast(file[s], runtimes[s])'
    BY <1>0, <1>2, <1>3, <1>4, <1>5, <1>6 DEF InThePast
  <1> QED BY <1>7, <1>8, <1>9, <1>10, <1>11, KeptHere

LEMMA DetachKept ==
  ASSUME TypeOK, TypeOK', Grounded, Kept, NEW s \in Sessions, Detach(s)
  PROVE  Kept' /\ \A x \in Sessions : Onward(file[x], file'[x])
  <1> DEFINE runtime == [runtimes[s] EXCEPT !.cse = 0]
             kept == IF file[s] = None THEN None ELSE [file[s] EXCEPT !.bridge = NoBridge]
             meta == IF states[s] = None THEN None ELSE [states[s] EXCEPT !.bridge = NoBridge]
  <1>0. /\ minted \in Nat \ {0} /\ UNCHANGED <<now, minted>> /\ runtimes[s] # None
        /\ (file[s] = None <=> states[s] = None) /\ runtimes[s] \in Runtime
        /\ (file[s] # None => file[s] \in Meta /\ states[s] \in Meta)
        /\ SameRecord(file[s], states[s], excused[s])
        /\ SameRuntime(file[s], runtimes[s], excused[s])
        /\ InThePast(file[s], runtimes[s]) /\ now \in Nat
    BY KeptTypes DEF Detach, Kept, Grounded
  <1>1. /\ file' = [file EXCEPT ![s] = kept] /\ runtimes' = [runtimes EXCEPT ![s] = runtime]
        /\ states' = [states EXCEPT ![s] = meta]
        /\ excused' = [excused EXCEPT ![s] = @ \ {"stale"}]
    BY DEF Detach, NotifyBridgeChanged
  <1>2. /\ file'[s] = kept /\ runtimes'[s] = runtime /\ states'[s] = meta
        /\ (\A e \in {"recreated", "lost"} : e \in excused[s] => e \in excused'[s])
        /\ \A x \in Sessions \ {s} : /\ file'[x] = file[x] /\ states'[x] = states[x]
                                     /\ runtimes'[x] = runtimes[x] /\ excused'[x] = excused[x]
    BY <1>1 DEF TypeOK
  <1>3. file[s] # None =>
          /\ kept.model = file[s].model /\ kept.stamp = file[s].stamp /\ kept.bridge = NoBridge
          /\ meta.model = states[s].model /\ meta.stamp = states[s].stamp /\ meta.bridge = NoBridge
    BY <1>0 DEF Meta
  <1>4. /\ runtime.model = runtimes[s].model /\ runtime.stamp = runtimes[s].stamp
        /\ runtime.activity = runtimes[s].activity /\ runtime.cse = 0
    BY <1>0 DEF Runtime
  <1>5. kept = None <=> file[s] = None
    BY <1>0, Nulls DEF Meta
  <1> HIDE DEF runtime, kept, meta
  <1>6. FoundIn(kept) = 0
    BY <1>3, <1>5 DEF FoundIn
  <1>7. Only(s)
    BY <1>0, <1>2 DEF Only
  <1>8. Onward(file[s], file'[s])
    BY <1>2, <1>6 DEF Onward
  <1>9. SameRecord(file'[s], states'[s], excused'[s])
    BY <1>0, <1>2, <1>3, <1>5 DEF SameRecord
  <1>10. SameRuntime(file'[s], runtimes'[s], excused'[s])
    BY <1>0, <1>2, <1>3, <1>4, <1>5, <1>6 DEF SameRuntime
  <1>11. InThePast(file[s], runtimes[s])'
    BY <1>0, <1>2, <1>3, <1>4, <1>5, <1>6 DEF InThePast
  <1> QED BY <1>7, <1>8, <1>9, <1>10, <1>11, KeptHere

(* What is written into the worker state of a file stays about its session. *)
LEMMA WorkerKept ==
  ASSUME TypeOK, TypeOK', Grounded, Kept, NEW s \in Sessions, NEW bridge \in Worker,
         file[s] # None, file[s].bridge # NoBridge, bridge.cse = file[s].bridge.cse,
         bridge.seq >= file[s].bridge.seq, file[s].bridge.done => bridge.done,
         file' = [file EXCEPT ![s].bridge = bridge],
         UNCHANGED <<states, runtimes, now, minted, excused>>
  PROVE  Kept' /\ \A x \in Sessions : Onward(file[x], file'[x])
  <1> DEFINE kept == [file[s] EXCEPT !.bridge = bridge]
  <1>1. file[s] \in Meta
    BY DEF TypeOK
  <1>2. kept.model = file[s].model /\ kept.stamp = file[s].stamp /\ kept.bridge = bridge
        /\ kept \in Meta
    BY <1>1 DEF Meta
  <1>3. file'[s] = kept /\ \A x \in Sessions \ {s} : file'[x] = file[x]
    BY DEF TypeOK
  <1> HIDE DEF kept
  <1>4. kept # None /\ bridge # NoBridge
    BY <1>2, Nulls
  <1>5. FoundIn(kept) = FoundIn(file[s])
    BY <1>2, <1>4 DEF FoundIn
  <1>6. Only(s)
    BY <1>3, KeptTypes DEF Only
  <1>7. Onward(file[s], file'[s])
    BY <1>2, <1>3 DEF Onward
  <1>8. /\ SameRecord(file[s], states[s], excused[s])
        /\ SameRuntime(file[s], runtimes[s], excused[s])
        /\ InThePast(file[s], runtimes[s])
    BY DEF Kept
  <1>9. SameRecord(file'[s], states'[s], excused'[s])
    BY <1>2, <1>3, <1>4, <1>8 DEF SameRecord
  <1>10. SameRuntime(file'[s], runtimes'[s], excused'[s])
    BY <1>2, <1>3, <1>4, <1>5, <1>8 DEF SameRuntime
  <1>11. InThePast(file[s], runtimes[s])'
    BY <1>2, <1>3, <1>5, <1>8 DEF InThePast
  <1> QED BY <1>6, <1>7, <1>9, <1>10, <1>11, KeptHere

(* Where nothing of what is kept changes, it stays.                        *)
LEMMA NothingKept ==
  ASSUME TypeOK, Kept, UNCHANGED <<file, states, runtimes, excused, now, minted>>
  PROVE  Kept' /\ \A x \in Sessions : Onward(file[x], file'[x])
  BY KeptTypes DEF Kept, InThePast, Onward, FoundIn

(* The startup pass goes for what it found, or clears what is there now.    *)
LEMMA ReattachKept ==
  ASSUME TypeOK, TypeOK', Grounded, Kept, NEW s \in Sessions, Reattach(s)
  PROVE  Kept' /\ \A x \in Sessions : Onward(file[x], file'[x])
  <1> DEFINE runtime == RuntimeOf(s, states[s])
             cleared == [file[s] EXCEPT !.bridge = NoBridge]
  <1>0. /\ minted \in Nat \ {0} /\ now \in Nat /\ UNCHANGED <<states, now, minted>>
        /\ file[s] # None /\ states[s] # None /\ file[s] \in Meta /\ states[s] \in Meta
        /\ SameRecord(file[s], states[s], excused[s])
        /\ SameRuntime(file[s], runtimes[s], excused[s])
        /\ InThePast(file[s], runtimes[s])
        /\ Found(s) = FoundIn(file[s])
    BY KeptTypes DEF Reattach, Kept, Grounded
  <1>1. /\ runtime \in Runtime /\ (runtimes[s] # None => runtime = runtimes[s])
        /\ runtimes[s] = None =>
              runtime.cse = 0 /\ runtime.model = states[s].model /\ runtime.stamp = states[s].stamp
    BY <1>0, RuntimeOfType DEF RuntimeOf, Seeded
  <1>2. CASE /\ runtimes' = [runtimes EXCEPT ![s] = RuntimeOf(s, states[s])]
             /\ UNCHANGED <<file, excused>>
    BY <1>0, <1>2, RuntimeOfKept
  <1>3. CASE /\ file' = [file EXCEPT ![s].bridge = NoBridge]
             /\ excused' = [excused EXCEPT ![s] = @ \cup (IF Found(s) = 0 THEN {} ELSE {"stale"})
                                                    \cup (IF runtime.cse = 0 THEN {} ELSE {"lost"})]
             /\ UNCHANGED runtimes
    <2>1. /\ cleared.model = file[s].model /\ cleared.stamp = file[s].stamp
          /\ cleared.bridge = NoBridge /\ cleared \in Meta
      BY <1>0 DEF Meta
    <2> HIDE DEF cleared, runtime
    <2>2. /\ file'[s] = cleared
          /\ \A x \in Sessions \ {s} : file'[x] = file[x] /\ excused'[x] = excused[x]
          /\ excused[s] \subseteq excused'[s]
          /\ (Found(s) # 0 => "stale" \in excused'[s])
          /\ (runtime.cse # 0 => "lost" \in excused'[s])
      BY <1>3 DEF TypeOK, cleared
    <2>3. cleared # None /\ FoundIn(cleared) = 0
      BY <2>1, Nulls DEF FoundIn
    <2>4. Only(s) /\ Onward(file[s], file'[s])
      BY <1>0, <1>3, <2>2, <2>3 DEF Only, Onward
    <2>5. SameRecord(file'[s], states'[s], excused'[s])
      <3>1. Found(s) = 0 => file[s].bridge = NoBridge
        BY <1>0, FoundType
      <3> QED BY <1>0, <2>1, <2>2, <3>1 DEF SameRecord
    <2>6. SameRuntime(file'[s], runtimes'[s], excused'[s])
      BY <1>0, <1>1, <1>3, <2>1, <2>2, <2>3 DEF SameRuntime
    <2>7. InThePast(file[s], runtimes[s])'
      BY <1>0, <1>3, <2>1, <2>2, <2>3 DEF InThePast
    <2> QED BY <2>4, <2>5, <2>6, <2>7, KeptHere
  <1>4. CASE UNCHANGED <<file, runtimes, excused>>
    <2> HIDE DEF runtime
    <2>1. Only(s) /\ Onward(file[s], file'[s])
      BY <1>0, <1>4, KeptTypes DEF Only, Onward, FoundIn
    <2>2. InThePast(file[s], runtimes[s])'
      BY <1>0, <1>4 DEF InThePast
    <2> QED BY <1>0, <1>4, <2>1, <2>2, KeptHere
  <1> QED BY <1>2, <1>3, <1>4 DEF Reattach

(* What it attaches lands on whatever is attached by then, and is excused  *)
(* if the file names another cloud session.                                *)
LEMMA ReattachedKept ==
  ASSUME TypeOK, TypeOK', Grounded, Kept, NEW s \in Sessions, Reattached(s)
  PROVE  Kept' /\ \A x \in Sessions : Onward(file[x], file'[x])
  <1> DEFINE bound == [runtimes[s] EXCEPT !.cse = booting[s].cse]
             lost == IF Found(s) = booting[s].cse THEN {} ELSE {"lost"}
  <1>0. /\ UNCHANGED <<file, states, now, minted>>
        /\ runtimes[s] # None /\ runtimes[s] \in Runtime
        /\ SameRecord(file[s], states[s], excused[s])
        /\ SameRuntime(file[s], runtimes[s], excused[s])
        /\ InThePast(file[s], runtimes[s])
        /\ Found(s) = FoundIn(file[s])
    BY KeptTypes DEF Reattached, Kept, Grounded
  <1>1. CASE /\ runtimes' = [runtimes EXCEPT ![s] = bound]
             /\ excused' = [excused EXCEPT ![s] = @ \cup lost]
    <2>1. /\ bound.cse = booting[s].cse /\ bound.model = runtimes[s].model
          /\ bound.stamp = runtimes[s].stamp /\ bound.activity = runtimes[s].activity
      BY <1>0 DEF Runtime
    <2> HIDE DEF bound
    <2>2. /\ runtimes'[s] = bound
          /\ \A x \in Sessions \ {s} : runtimes'[x] = runtimes[x] /\ excused'[x] = excused[x]
          /\ excused[s] \subseteq excused'[s]
          /\ (Found(s) # booting[s].cse => "lost" \in excused'[s])
      BY <1>1 DEF TypeOK
    <2>3. Only(s) /\ Onward(file[s], file'[s])
      BY <1>0, <2>2, KeptTypes DEF Only, Onward, FoundIn
    <2>4. SameRecord(file'[s], states'[s], excused'[s])
      BY <1>0, <2>2 DEF SameRecord
    <2>5. SameRuntime(file'[s], runtimes'[s], excused'[s])
      BY <1>0, <2>1, <2>2 DEF SameRuntime
    <2>6. InThePast(file[s], runtimes[s])'
      BY <1>0, <2>1, <2>2 DEF InThePast
    <2> QED BY <2>3, <2>4, <2>5, <2>6, KeptHere
  <1>2. CASE UNCHANGED <<runtimes, excused>>
    BY <1>0, <1>2, NothingKept
  <1> QED BY <1>1, <1>2 DEF Reattached

LEMMA DaemonKept ==
  ASSUME TypeOK, TypeOK', Grounded, Kept, Daemon
  PROVE  Kept' /\ \A x \in Sessions : Onward(file[x], file'[x])
  <1>1. ASSUME NEW h \in Handlers, Handle(h) \/ \E s \in Sessions : SendPrompt(h, s)
        PROVE  Kept' /\ \A x \in Sessions : Onward(file[x], file'[x])
    <2>1. CASE Checked(h)
      BY <2>1, CheckedKept
    <2>2. CASE PromptAttached(h)
      <3>1. CASE Attach(prompts[h].s)
        <4>1. PICK s \in Sessions : s = prompts[h].s
          BY <2>2, PromptKnown DEF PromptAttached
        <4>2. runtimes[s] # None /\ file[s] # None
          BY <2>2, <4>1 DEF PromptAttached, Grounded
        <4> QED BY <2>2, <3>1, <4>1, <4>2, AttachKept DEF PromptAttached
      <3>2. CASE UNCHANGED <<file, states, runtimes, down, minted, excused>>
        BY <2>2, <3>2, NothingKept DEF PromptAttached
      <3> QED BY <2>2, <3>1, <3>2 DEF PromptAttached
    <2>3. CASE Spawn(h)
      <3>1. PICK s \in Sessions : s = prompts[h].s
        BY <2>3, PromptKnown DEF Spawn
      <3> DEFINE runtime == [runtimes[s] EXCEPT !.live = TRUE]
      <3>2. runtimes[s] # None /\ runtimes[s] \in Runtime
        BY <2>3, <3>1 DEF Spawn, Grounded, TypeOK
      <3>3. runtime \in Runtime /\ runtime.model = runtimes[s].model
            /\ runtime.cse = runtimes[s].cse /\ runtime.activity = runtimes[s].activity
        BY <3>2 DEF Runtime
      <3>4. SetActivity(s, states[s], runtime, "running") /\ minted' = minted
        BY <2>3, <3>1 DEF Spawn
      <3> HIDE DEF runtime
      <3> QED BY <3>2, <3>3, <3>4, SetActivityKept
    <2>4. CASE TokenFails(h) \/ \E s \in Sessions : SendPrompt(h, s)
      BY <2>4, NothingKept DEF TokenFails, SendPrompt
    <2> QED BY <1>1, <2>1, <2>2, <2>3, <2>4 DEF Handle
  <1>2. ASSUME NEW s \in Sessions, Bridge(s)
        PROVE  Kept' /\ \A x \in Sessions : Onward(file[x], file'[x])
    <2>1. CASE Upgrade(s)
      BY <2>1, RuntimeOfKept DEF Upgrade
    <2>2. CASE UpgradeAttached(s)
      <3>1. runtimes[s] # None /\ file[s] # None
        BY <2>2 DEF UpgradeAttached, Grounded
      <3>2. CASE Attach(s)
        BY <2>2, <3>1, <3>2, AttachKept DEF UpgradeAttached
      <3>3. CASE UNCHANGED <<file, states, runtimes, down, minted, excused>>
        BY <2>2, <3>3, NothingKept DEF UpgradeAttached
      <3> QED BY <2>2, <3>2, <3>3 DEF UpgradeAttached
    <2>3. CASE UpgradeBackfilled(s)
      <3>0. UNCHANGED <<states, runtimes, now, minted, excused>>
        BY <2>3 DEF UpgradeBackfilled
      <3>1. CASE file' = file
        BY <3>0, <3>1, NothingKept
      <3>2. CASE file' # file
        <4> DEFINE bridge == [file[s].bridge EXCEPT !.done = TRUE]
        <4>1. file[s] # None /\ file[s].bridge # NoBridge
              /\ file' = [file EXCEPT ![s].bridge = bridge]
          BY <2>3, <3>2 DEF UpgradeBackfilled, TypeOK
        <4>2. file[s].bridge \in Worker /\ file[s].bridge.seq \in Nat
          BY <4>1, KeptTypes
        <4>3. bridge \in Worker /\ bridge.cse = file[s].bridge.cse
              /\ bridge.seq = file[s].bridge.seq /\ bridge.done = TRUE
          BY <4>2 DEF Worker
        <4>4. bridge.seq >= file[s].bridge.seq
          BY <4>2, <4>3
        <4> HIDE DEF bridge
        <4> QED BY <3>0, <4>1, <4>3, <4>4, WorkerKept
      <3> QED BY <3>1, <3>2
    <2>4. CASE Checkpoint(s)
      <3>0. UNCHANGED <<states, runtimes, now, minted, excused>>
            /\ file[s] # None /\ file[s].bridge # NoBridge
        BY <2>4 DEF Checkpoint, daemon
      <3>1. PICK seq \in 0..MaxSeq : seq > file[s].bridge.seq /\ file' = [file EXCEPT ![s].bridge.seq = seq]
        BY <2>4 DEF Checkpoint
      <3> DEFINE bridge == [file[s].bridge EXCEPT !.seq = seq]
      <3>2. file[s].bridge \in Worker /\ file[s].bridge.seq \in Nat /\ seq \in Nat
        BY <3>0, KeptTypes
      <3>3. bridge \in Worker /\ bridge.cse = file[s].bridge.cse
            /\ bridge.seq >= file[s].bridge.seq /\ bridge.done = file[s].bridge.done
        BY <3>1, <3>2 DEF Worker
      <3>4. file' = [file EXCEPT ![s].bridge = bridge]
        BY <3>1
      <3> HIDE DEF bridge
      <3> QED BY <3>0, <3>3, <3>4, WorkerKept
    <2>5. CASE Detach(s)
      BY <2>5, DetachKept
    <2>6. CASE Reattach(s)
      BY <2>6, ReattachKept
    <2>7. CASE Reattached(s)
      BY <2>7, ReattachedKept
    <2> QED BY <1>2, <2>1, <2>2, <2>3, <2>4, <2>5, <2>6, <2>7 DEF Bridge
  <1>3. ASSUME NEW s \in Sessions, Turns(s) \/ \E model \in Selections : Pick(s, model)
        PROVE  Kept' /\ \A x \in Sessions : Onward(file[x], file'[x])
    <2>1. CASE Write(s)
      BY <2>1, NothingKept DEF Write, daemon
    <2>2. CASE TurnEnds(s)
      <3>1. runtimes[s] # None /\ runtimes[s] \in Runtime /\ runtimes[s].activity = "running"
            /\ SetActivity(s, states[s], runtimes[s], "idle") /\ minted' = minted
        BY <2>2 DEF TurnEnds, TypeOK
      <3> QED BY <3>1, SetActivityKept
    <2>3. CASE Teardown(s)
      <3> DEFINE runtime == [runtimes[s] EXCEPT !.live = FALSE]
      <3>1. runtimes[s] # None /\ runtimes[s] \in Runtime /\ runtimes' = [runtimes EXCEPT ![s] = runtime]
            /\ UNCHANGED <<file, states, now, minted, excused>>
        BY <2>3 DEF Teardown, TypeOK
      <3>2. /\ runtime.model = runtimes[s].model /\ runtime.stamp = runtimes[s].stamp
            /\ runtime.activity = runtimes[s].activity /\ runtime.cse = runtimes[s].cse
        BY <3>1 DEF Runtime
      <3> HIDE DEF runtime
      <3>3. runtimes'[s] = runtime /\ \A x \in Sessions \ {s} : runtimes'[x] = runtimes[x]
        BY <3>1 DEF TypeOK
      <3>4. Only(s) /\ Onward(file[s], file'[s])
        BY <3>1, <3>3, KeptTypes DEF Only, Onward, FoundIn
      <3>5. /\ SameRecord(file[s], states[s], excused[s])
            /\ SameRuntime(file[s], runtimes[s], excused[s])
            /\ InThePast(file[s], runtimes[s])
        BY DEF Kept
      <3>6. SameRuntime(file'[s], runtimes'[s], excused'[s])
        BY <3>1, <3>2, <3>3, <3>5 DEF SameRuntime
      <3>7. InThePast(file[s], runtimes[s])'
        BY <3>1, <3>2, <3>3, <3>5 DEF InThePast
      <3> QED BY <3>1, <3>4, <3>5, <3>6, <3>7, KeptHere
    <2>4. CASE View(s)
      <3>1. runtimes' = [runtimes EXCEPT ![s] = RuntimeOf(s, states[s])]
            /\ UNCHANGED <<file, states, excused, now, minted>>
        BY <2>4 DEF View, RuntimeOf
      <3> QED BY <3>1, RuntimeOfKept
    <2>5. ASSUME NEW model \in Selections,
                 SetModel(s, model) \/ UNCHANGED <<file, states, runtimes, down, excused>>,
                 UNCHANGED <<now, minted>>
          PROVE  Kept' /\ \A x \in Sessions : Onward(file[x], file'[x])
      BY <2>5, SetModelKept, NothingKept
    <2>6. CASE PickApplied(s)
      <3>1. picks[s] \in Selections
        BY <2>6 DEF PickApplied, TypeOK
      <3> QED BY <2>5, <2>6, <3>1 DEF PickApplied
    <2>7. CASE \E model \in Selections : Pick(s, model)
      BY <2>5, <2>7 DEF Pick
    <2> QED BY <1>3, <2>1, <2>2, <2>3, <2>4, <2>6, <2>7 DEF Turns
  <1> QED BY <1>1, <1>2, <1>3 DEF Daemon

LEMMA KeptInit == Init => Kept
  <1> SUFFICES ASSUME Init PROVE Kept
    OBVIOUS
  <1>1. TypeOK /\ now = 0 /\ minted = 1 /\ states = file
        /\ runtimes = [s \in Sessions |-> None]
    BY TypeInvInit DEF Init
  <1>2. ASSUME NEW s \in Sessions, file[s] # None
        PROVE  /\ file[s].stamp = 0
               /\ file[s].bridge # NoBridge => file[s].bridge.cse = 1
    BY <1>2 DEF Init
  <1>3. \A s \in Sessions : FoundIn(file[s]) \in {0, 1}
    BY <1>2 DEF FoundIn
  <1>4. ASSUME NEW s \in Sessions
        PROVE  /\ SameRecord(file[s], states[s], excused[s])
               /\ SameRuntime(file[s], runtimes[s], excused[s])
               /\ InThePast(file[s], runtimes[s])
    <2>1. states[s] = file[s] /\ runtimes[s] = None
      BY <1>1
    <2>2. SameRecord(file[s], states[s], excused[s])
      BY <2>1 DEF SameRecord
    <2>3. SameRuntime(file[s], runtimes[s], excused[s])
      BY <2>1 DEF SameRuntime
    <2>4. InThePast(file[s], runtimes[s])
      BY <1>1, <1>2, <1>3, <2>1 DEF InThePast
    <2> QED BY <2>2, <2>3, <2>4
  <1> QED BY <1>4 DEF Kept

LEMMA KeptStep ==
  TypeOK /\ Grounded /\ TypeOK' /\ Kept /\ [Next]_vars =>
      Kept' /\ \A s \in Sessions : Onward(file[s], file'[s])
  <1> SUFFICES ASSUME TypeOK, Grounded, TypeOK', Kept, [Next]_vars
               PROVE  Kept' /\ \A s \in Sessions : Onward(file[s], file'[s])
    OBVIOUS
  <1>1. CASE Daemon
    BY <1>1, DaemonKept
  <1>2. CASE \E d \in Devices : Connect(d) \/ Disconnect(d) \/ Deliver(d)
    BY <1>2, NothingKept DEF Connect, Disconnect, Deliver, daemon
  <1>3. CASE Restart
    <2>1. /\ file' = file /\ states' = file /\ runtimes' = [s \in Sessions |-> None]
          /\ UNCHANGED <<now, minted>>
      BY <1>3 DEF Restart
    <2>2. \A s \in Sessions : Onward(file[s], file'[s])
      BY <2>1, KeptTypes DEF Onward, FoundIn
    <2> QED BY <2>1, <2>2 DEF Kept, SameRecord, SameRuntime, InThePast
  <1>4. CASE UNCHANGED vars
    BY <1>4, NothingKept DEF vars, daemon
  <1> QED BY <1>1, <1>2, <1>3, <1>4 DEF Next

(* A cloud session's checkpoint and backfill mark are never taken back: no *)
(* record that is rewritten from a cache, created a second time, attached, *)
(* cleared or checkpointed late names the same cloud session with less in  *)
(* it (sidecode-sessions.ts:343-397, session-runtime-manager.ts:477-507).  *)
THEOREM CheckpointIsKept == Spec => CheckpointKept
  <1>1. TypeOK /\ Grounded /\ TypeOK' /\ Kept /\ [Next]_vars =>
            [\A s \in Sessions : Found(s) # 0 /\ Found(s)' = Found(s) =>
                /\ file'[s].bridge.seq >= file[s].bridge.seq
                /\ file[s].bridge.done => file'[s].bridge.done]_vars
    <2> SUFFICES ASSUME TypeOK, Grounded, TypeOK', Kept, [Next]_vars,
                        NEW s \in Sessions, Found(s) # 0, Found(s)' = Found(s)
                 PROVE  /\ file'[s].bridge.seq >= file[s].bridge.seq
                        /\ file[s].bridge.done => file'[s].bridge.done
      OBVIOUS
    <2>1. Onward(file[s], file'[s])
      BY KeptStep
    <2>2. FoundIn(file[s]) # 0 /\ FoundIn(file'[s]) = FoundIn(file[s])
      BY DEF Found, FoundIn
    <2> QED BY <2>1, <2>2 DEF Onward
  <1> QED BY <1>1, TypeInvInit, TypeInvStep, KeptInit, KeptStep, PTL DEF Spec, CheckpointKept

(* What is kept of a session is what its next life starts from.            *)
LEMMA KeptIsDurable ==
  ASSUME TypeOK, Grounded, Kept
  PROVE  DurableList
  <1> SUFFICES ASSUME NEW s \in Sessions
               PROVE
        /\ states[s] # None /\ excused[s] \cap {"recreated", "stale"} = {} =>
               LET shown == Public(states[s], runtimes[s])
                   kept == Public(file[s], None)
               IN  /\ file[s] # None
                   /\ kept.model = shown.model /\ kept.bridged = shown.bridged
                   /\ shown.activity = "idle" => kept.stamp >= shown.stamp
        /\ runtimes[s] # None /\ runtimes[s].cse # 0
           /\ excused[s] \cap {"recreated", "lost"} = {} =>
               Found(s) = runtimes[s].cse
    BY DEF DurableList
  <1>1. /\ SameRecord(file[s], states[s], excused[s])
        /\ SameRuntime(file[s], runtimes[s], excused[s])
        /\ (states[s] = None <=> file[s] = None)
        /\ Found(s) = FoundIn(file[s])
    BY KeptTypes DEF Kept, Grounded
  <1>2. ASSUME states[s] # None, "recreated" \notin excused[s], "stale" \notin excused[s]
        PROVE  LET shown == Public(states[s], runtimes[s])
                   kept == Public(file[s], None)
               IN  /\ file[s] # None
                   /\ kept.model = shown.model /\ kept.bridged = shown.bridged
                   /\ shown.activity = "idle" => kept.stamp >= shown.stamp
    <2> DEFINE shown == Public(states[s], runtimes[s])
               kept == Public(file[s], None)
    <2>1. file[s] # None /\ file[s].stamp \in Nat
      BY <1>1, <1>2, KeptTypes
    <2>2. /\ kept.model = file[s].model /\ kept.stamp = file[s].stamp
          /\ kept.bridged = (file[s].bridge # NoBridge)
      BY <2>1 DEF Public
    <2>3. /\ shown.bridged = (states[s].bridge # NoBridge)
          /\ shown.activity = IF runtimes[s] = None THEN "idle" ELSE runtimes[s].activity
          /\ shown.model = IF runtimes[s] # None /\ runtimes[s].model # NoModel
                           THEN runtimes[s].model ELSE states[s].model
          /\ shown.stamp = IF runtimes[s] # None THEN runtimes[s].stamp ELSE states[s].stamp
      BY <1>2 DEF Public
    <2> HIDE DEF shown, kept
    <2>4. /\ states[s].model = file[s].model /\ states[s].stamp = file[s].stamp
          /\ (states[s].bridge = NoBridge <=> file[s].bridge = NoBridge)
      BY <1>1, <1>2, <2>1 DEF SameRecord
    <2>5. runtimes[s] # None =>
            /\ runtimes[s].activity = "idle" => runtimes[s].stamp <= file[s].stamp
            /\ runtimes[s].model \in {NoModel, file[s].model} /\ runtimes[s].stamp \in Nat
      BY <1>1, <1>2, <2>1, KeptTypes DEF SameRuntime
    <2>6. kept.model = shown.model /\ kept.bridged = shown.bridged
      BY <2>2, <2>3, <2>4, <2>5
    <2>7. shown.activity = "idle" => kept.stamp >= shown.stamp
      BY <2>1, <2>2, <2>3, <2>4, <2>5
    <2> QED BY <2>1, <2>6, <2>7 DEF shown, kept
  <1>3. ASSUME runtimes[s] # None, runtimes[s].cse # 0,
               "recreated" \notin excused[s], "lost" \notin excused[s]
        PROVE  Found(s) = runtimes[s].cse
    BY <1>1, <1>3 DEF SameRuntime
  <1> QED BY <1>2, <1>3

(* What the list shows survives a restart, and a mirror that runs is on    *)
(* file under its own cloud session, outside the windows that are named:   *)
(* the cache, the runtime and the file of a session agree on all that is   *)
(* shown of it, although the bridge writes the file behind the manager's   *)
(* back (session-runtime-manager.ts:465-507, bridge-service.ts:477-500).   *)
THEOREM ListIsDurable == Spec => []DurableList
  BY TypeInvInit, TypeInvStep, KeptInit, KeptStep, KeptIsDurable, PTL DEF Spec

-----------------------------------------------------------------------------
(* What the devices are told.                                              *)

LEMMA PublicOf ==
  ASSUME NEW meta \in Meta, NEW runtime \in Runtime \cup {None}
  PROVE  /\ Public(meta, runtime) \in Row /\ Public(meta, runtime) # None
         /\ Public(meta, runtime).activity = IF runtime = None THEN "idle" ELSE runtime.activity
         /\ Public(meta, runtime).model = IF runtime # None /\ runtime.model # NoModel
                                          THEN runtime.model ELSE meta.model
         /\ Public(meta, runtime).stamp = IF runtime # None THEN runtime.stamp ELSE meta.stamp
         /\ Public(meta, runtime).bridged = (meta.bridge # NoBridge)
  <1>1. meta # None
    BY Nulls
  <1>2. Public(meta, runtime) \in Row /\ Public(meta, runtime) # None
    BY <1>1, PublicType, Nulls
  <1> QED BY <1>1, <1>2 DEF Public

(* Rows that differ in the stamp of a running session only show the same.  *)
LEMMA ShownSame ==
  ASSUME NEW a \in Row, NEW b \in Row, a.activity = b.activity, a.model = b.model,
         a.bridged = b.bridged, a.activity = "running" \/ a.stamp = b.stamp
  PROVE  Shown(a) = Shown(b)
  <1>1. Shown(a) = [activity |-> a.activity, model |-> a.model, bridged |-> a.bridged,
                    stamp |-> IF a.activity = "running" THEN 0 ELSE a.stamp]
    BY DEF Shown, Row
  <1>2. Shown(b) = [activity |-> b.activity, model |-> b.model, bridged |-> b.bridged,
                    stamp |-> IF b.activity = "running" THEN 0 ELSE b.stamp]
    BY DEF Shown, Row
  <1> QED BY <1>1, <1>2

(* What nobody is told of does not show.                                   *)
LEMMA InformedQuiet ==
  ASSUME TypeOK, Informed, UNCHANGED <<online, down, rows>>,
         \A x \in Sessions : states'[x] # None =>
             /\ states[x] # None
             /\ Shown(Public(states'[x], runtimes'[x])) = Shown(Public(states[x], runtimes[x]))
  PROVE  Informed'
  <1>1. ASSUME NEW x \in Sessions, NEW state
        PROVE  Agrees(state, x) =>
                  (states'[x] # None => state # None /\ Shown(state) = Shown(Public(states'[x], runtimes'[x])))
    BY DEF Agrees
  <1> SUFFICES ASSUME NEW d \in Devices, NEW x \in Sessions, online[d],
                      NEW n \in 0..Len(down[d]), Last(d, x, n)', states'[x] # None
               PROVE  LET state == IF n = 0 THEN rows[d][x] ELSE Word(down[d][n], x)
                      IN  state # None /\ Shown(state) = Shown(Public(states'[x], runtimes'[x]))
    BY DEF Informed, Agrees
  <1>2. Last(d, x, n)
    BY DEF Last
  <1>3. Agrees(IF n = 0 THEN rows[d][x] ELSE Word(down[d][n], x), x)
    BY <1>2 DEF Informed
  <1> QED BY <1>1, <1>3

(* What every device that is online is told of becomes the last word.      *)
LEMMA InformedTold ==
  ASSUME TypeOK, Informed, NEW s \in Sessions, NEW meta, NEW runtime,
         Fanout(s, meta, runtime), UNCHANGED <<online, rows>>,
         \A x \in Sessions \ {s} : states'[x] = states[x] /\ runtimes'[x] = runtimes[x],
         states'[s] # None =>
             /\ Public(meta, runtime) # None
             /\ Shown(Public(meta, runtime)) = Shown(Public(states'[s], runtimes'[s]))
  PROVE  Informed'
  <1> SUFFICES ASSUME NEW d \in Devices, NEW x \in Sessions, online[d],
                      NEW n \in 0..Len(down'[d]), Last(d, x, n)', states'[x] # None
               PROVE  LET state == IF n = 0 THEN rows[d][x] ELSE Word(down'[d][n], x)
                      IN  state # None /\ Shown(state) = Shown(Public(states'[x], runtimes'[x]))
    BY DEF Informed, Agrees
  <1> DEFINE frame == [type |-> "changed", s |-> s, state |-> Public(meta, runtime)]
  <1>1. down[d] \in Seq(Frame) /\ down'[d] = Append(down[d], frame)
    BY DEF TypeOK, Fanout
  <1>2. frame.type = "changed" /\ frame.s = s /\ frame.state = Public(meta, runtime)
    OBVIOUS
  <1> HIDE DEF frame
  <1>3. /\ Len(down[d]) \in Nat /\ Len(down'[d]) = Len(down[d]) + 1
        /\ down'[d][Len(down[d]) + 1] = frame
        /\ \A i \in 1..Len(down[d]) : down'[d][i] = down[d][i]
    BY <1>1
  <1>4. CASE x = s
    <2>1. Concerns(frame, x)
      BY <1>2, <1>4 DEF Concerns
    <2>2. n = Len(down[d]) + 1
      BY <1>3, <2>1 DEF Last
    <2>3. Word(down'[d][n], x) = Public(meta, runtime)
      BY <1>2, <1>3, <2>2 DEF Word
    <2> QED BY <1>3, <1>4, <2>2, <2>3
  <1>5. CASE x # s
    <2>1. ~Concerns(frame, x)
      BY <1>2, <1>5 DEF Concerns
    <2>2. n # Len(down[d]) + 1 /\ n \in 0..Len(down[d])
      BY <1>3, <2>1 DEF Last
    <2>3. Last(d, x, n)
      BY <1>3, <2>2 DEF Last
    <2>4. Agrees(IF n = 0 THEN rows[d][x] ELSE Word(down[d][n], x), x)
      BY <2>2, <2>3 DEF Informed
    <2>5. states'[x] = states[x] /\ runtimes'[x] = runtimes[x]
      BY <1>5
    <2>6. n # 0 => down'[d][n] = down[d][n]
      BY <1>3, <2>2
    <2> QED BY <2>4, <2>5, <2>6 DEF Agrees
  <1> QED BY <1>4, <1>5

(* A transition of a session's activity is told; what is not told is not   *)
(* shown.                                                                  *)
LEMMA SetActivityTold ==
  ASSUME TypeOK, Grounded, Informed, NEW s \in Sessions, runtimes[s] # None,
         NEW runtime \in Runtime, runtime.model = runtimes[s].model,
         runtime.activity = runtimes[s].activity,
         NEW activity \in {"idle", "running"},
         activity = "idle" => runtime.activity = "running",
         SetActivity(s, states[s], runtime, activity), UNCHANGED <<online, rows>>
  PROVE  Informed'
  <1> DEFINE next == [runtime EXCEPT !.activity = activity, !.stamp = now + 1]
  <1>0. now + 1 \in 0..MaxEdges
    BY Nulls DEF SetActivity, TypeOK
  <1>1. /\ next \in Runtime /\ next.activity = activity /\ next.stamp = now + 1
        /\ next.model = runtimes[s].model
    BY <1>0 DEF Runtime
  <1>2. /\ runtimes'[s] = next /\ \A x \in Sessions \ {s} : runtimes'[x] = runtimes[x]
    BY DEF SetActivity, TypeOK
  <1>3. next # None
    BY <1>1, Nulls
  <1>4. CASE runtime.activity = activity
    <2>1. UNCHANGED <<states, down>> /\ activity = "running"
      BY <1>4 DEF SetActivity
    <2> HIDE DEF next
    <2>2. ASSUME states[s] # None
          PROVE  Shown(Public(states[s], next)) = Shown(Public(states[s], runtimes[s]))
      <3>1. states[s] \in Meta /\ runtimes[s] \in Runtime
        BY <2>2 DEF TypeOK
      <3>2. /\ Public(states[s], next) \in Row
            /\ Public(states[s], next).activity = "running"
            /\ Public(states[s], next).model = IF runtimes[s].model # NoModel
                                               THEN runtimes[s].model ELSE states[s].model
            /\ Public(states[s], next).bridged = (states[s].bridge # NoBridge)
        BY <1>1, <1>3, <2>1, <3>1, PublicOf
      <3>3. /\ Public(states[s], runtimes[s]) \in Row
            /\ Public(states[s], runtimes[s]).activity = "running"
            /\ Public(states[s], runtimes[s]).model = IF runtimes[s].model # NoModel
                                                      THEN runtimes[s].model ELSE states[s].model
            /\ Public(states[s], runtimes[s]).bridged = (states[s].bridge # NoBridge)
        BY <1>4, <2>1, <3>1, PublicOf
      <3>4. /\ Public(states[s], next) \in Row /\ Public(states[s], runtimes[s]) \in Row
            /\ Public(states[s], next).activity = "running"
            /\ Public(states[s], runtimes[s]).activity = "running"
            /\ Public(states[s], next).model = Public(states[s], runtimes[s]).model
            /\ Public(states[s], next).bridged = Public(states[s], runtimes[s]).bridged
        BY <3>2, <3>3
      <3> QED BY <3>4, ShownSame
    <2> QED BY <1>2, <2>1, <2>2, InformedQuiet
  <1>5. CASE runtime.activity # activity /\ states[s] = None
    <2>1. Fanout(s, states[s], next) /\ UNCHANGED states
      BY <1>5 DEF SetActivity
    <2> HIDE DEF next
    <2> QED BY <1>2, <1>5, <2>1, InformedTold
  <1>6. CASE runtime.activity # activity /\ states[s] # None
    <2> DEFINE meta == [states[s] EXCEPT !.stamp = now + 1]
    <2>1. meta \in Meta /\ states[s] \in Meta
      BY <1>6, <1>0 DEF Meta, TypeOK
    <2>2. Persist(s, meta) /\ Fanout(s, Merged(s, states[s]), next)
      BY <1>6 DEF SetActivity
    <2>3. /\ Merged(s, states[s]).model = Merged(s, meta).model
          /\ Merged(s, states[s]).bridge = Merged(s, meta).bridge
      BY <2>1 DEF Merged, Meta
    <2> HIDE DEF next, meta
    <2>4. Merged(s, meta) \in Meta /\ Merged(s, states[s]) \in Meta
      BY <2>1, PersistType
    <2>5. states'[s] = Merged(s, meta) /\ \A x \in Sessions \ {s} : states'[x] = states[x]
      BY <2>2 DEF Persist, TypeOK
    <2>6. /\ Public(Merged(s, states[s]), next) # None
          /\ Shown(Public(Merged(s, states[s]), next)) = Shown(Public(Merged(s, meta), next))
      <3>1. /\ Public(Merged(s, states[s]), next) # None
            /\ Public(Merged(s, states[s]), next) \in Row /\ Public(Merged(s, meta), next) \in Row
            /\ Public(Merged(s, states[s]), next).activity = Public(Merged(s, meta), next).activity
            /\ Public(Merged(s, states[s]), next).model = Public(Merged(s, meta), next).model
            /\ Public(Merged(s, states[s]), next).stamp = Public(Merged(s, meta), next).stamp
            /\ Public(Merged(s, states[s]), next).bridged = Public(Merged(s, meta), next).bridged
        BY <1>1, <1>3, <2>3, <2>4, PublicOf
      <3> QED BY <3>1, ShownSame
    <2> QED BY <1>2, <2>2, <2>5, <2>6, InformedTold
  <1> QED BY <1>4, <1>5, <1>6

LEMMA SetModelTold ==
  ASSUME TypeOK, Grounded, Informed, NEW s \in Sessions, NEW model \in Selections,
         SetModel(s, model), UNCHANGED <<online, rows>>
  PROVE  Informed'
  <1>1. CASE states[s] = None \/ states[s].model = model
    BY <1>1, InformedQuiet DEF SetModel
  <1>2. CASE states[s] # None /\ states[s].model # model
    <2> DEFINE runtime == IF runtimes[s] = None THEN None ELSE [runtimes[s] EXCEPT !.model = model]
               meta == [states[s] EXCEPT !.model = model]
    <2>1. meta \in Meta
      BY <1>2 DEF Meta, TypeOK
    <2>2. runtime \in Runtime \cup {None}
      BY Nulls DEF Runtime, TypeOK
    <2>3. runtimes' = [runtimes EXCEPT ![s] = runtime] /\ Persist(s, meta)
          /\ Fanout(s, Merged(s, meta), runtime)
      BY <1>2 DEF SetModel
    <2> HIDE DEF runtime, meta
    <2>4. Merged(s, meta) \in Meta
      BY <2>1, PersistType
    <2>5. /\ states'[s] = Merged(s, meta) /\ runtimes'[s] = runtime
          /\ \A x \in Sessions \ {s} : states'[x] = states[x] /\ runtimes'[x] = runtimes[x]
      BY <2>3 DEF Persist, TypeOK
    <2>6. Public(Merged(s, meta), runtime) # None
      BY <2>2, <2>4, PublicOf
    <2> QED BY <2>3, <2>5, <2>6, InformedTold
  <1> QED BY <1>1, <1>2

(* A change of the bridge is told as the cache has it.                     *)
LEMMA NotifyTold ==
  ASSUME TypeOK, Informed, NEW s \in Sessions, NEW bridge, NEW runtime \in Runtime,
         NotifyBridgeChanged(s, bridge, runtime), states' \in [Sessions -> Meta \cup {None}],
         runtimes' = [runtimes EXCEPT ![s] = runtime], UNCHANGED <<online, rows>>
  PROVE  Informed'
  <1> DEFINE meta == IF states[s] = None THEN None ELSE [states[s] EXCEPT !.bridge = bridge]
  <1>1. /\ states' = [states EXCEPT ![s] = meta]
        /\ IF Public(meta, runtime) = None THEN UNCHANGED down ELSE Fanout(s, meta, runtime)
    BY DEF NotifyBridgeChanged
  <1> HIDE DEF meta
  <1>2. /\ states'[s] = meta /\ runtimes'[s] = runtime /\ meta \in Meta \cup {None}
        /\ \A x \in Sessions \ {s} : states'[x] = states[x] /\ runtimes'[x] = runtimes[x]
    BY <1>1 DEF TypeOK
  <1>3. Public(meta, runtime) # None
    BY <1>2, PublicType, Nulls
  <1> QED BY <1>1, <1>2, <1>3, InformedTold

LEMMA AttachTold ==
  ASSUME TypeOK, Grounded, Informed, NEW s \in Sessions, runtimes[s] # None,
         Attach(s), UNCHANGED <<online, rows>>
  PROVE  Informed'
  <1> DEFINE bridge == [cse |-> minted + 1, seq |-> 0, done |-> FALSE]
             kept == IF file[s] = None THEN NoBridge ELSE bridge
             runtime == [runtimes[s] EXCEPT !.cse = minted + 1]
  <1>1. runtime \in Runtime
    <2>1. runtimes[s] \in Runtime /\ minted + 1 \in 0..MaxCse
      BY Nulls DEF TypeOK, Attach
    <2> QED BY <2>1 DEF Runtime
  <1>2. runtimes' = [runtimes EXCEPT ![s] = runtime] /\ NotifyBridgeChanged(s, kept, runtime)
    BY DEF Attach
  <1>3. states' \in [Sessions -> Meta \cup {None}]
    BY AttachType DEF Records
  <1> HIDE DEF runtime, kept
  <1> QED BY <1>1, <1>2, <1>3, NotifyTold

LEMMA DetachTold ==
  ASSUME TypeOK, Grounded, Informed, NEW s \in Sessions, Detach(s)
  PROVE  Informed'
  <1> DEFINE runtime == [runtimes[s] EXCEPT !.cse = 0]
  <1>1. runtime \in Runtime
    <2>1. runtimes[s] \in Runtime /\ 0 \in 0..MaxCse
      BY Nulls DEF TypeOK, Detach
    <2> QED BY <2>1 DEF Runtime
  <1>2. runtimes' = [runtimes EXCEPT ![s] = runtime] /\ NotifyBridgeChanged(s, NoBridge, runtime)
        /\ UNCHANGED <<online, rows>>
    BY DEF Detach
  <1>3. states' \in [Sessions -> Meta \cup {None}]
    BY DetachType DEF Records
  <1> HIDE DEF runtime
  <1> QED BY <1>1, <1>2, <1>3, NotifyTold

(* A runtime that is made, and one that only its query or its mirror       *)
(* changes, shows what the cache showed without it.                        *)
LEMMA RuntimeQuiet ==
  ASSUME TypeOK, Grounded, Informed, NEW s \in Sessions, NEW runtime \in Runtime,
         LET before == RuntimeOf(s, states[s])
         IN  /\ runtime.activity = before.activity /\ runtime.model = before.model
             /\ runtime.stamp = before.stamp,
         runtimes' = [runtimes EXCEPT ![s] = runtime],
         UNCHANGED <<states, online, down, rows>>
  PROVE  Informed'
  <1>1. runtimes'[s] = runtime /\ \A x \in Sessions \ {s} : runtimes'[x] = runtimes[x]
    BY DEF TypeOK
  <1>2. ASSUME states[s] # None
        PROVE  Shown(Public(states[s], runtime)) = Shown(Public(states[s], runtimes[s]))
    <2>1. states[s] \in Meta /\ runtimes[s] \in Runtime \cup {None} /\ runtime # None
      BY <1>2, Nulls DEF TypeOK
    <2>2. /\ runtimes[s] # None => /\ runtime.activity = runtimes[s].activity
                                   /\ runtime.model = runtimes[s].model
                                   /\ runtime.stamp = runtimes[s].stamp
          /\ runtimes[s] = None => /\ runtime.activity = "idle"
                                   /\ runtime.model = states[s].model
                                   /\ runtime.stamp = states[s].stamp
      BY <1>2 DEF RuntimeOf, Seeded
    <2>3. /\ Public(states[s], runtime) \in Row /\ Public(states[s], runtimes[s]) \in Row
          /\ Public(states[s], runtime).activity = Public(states[s], runtimes[s]).activity
          /\ Public(states[s], runtime).model = Public(states[s], runtimes[s]).model
          /\ Public(states[s], runtime).stamp = Public(states[s], runtimes[s]).stamp
          /\ Public(states[s], runtime).bridged = Public(states[s], runtimes[s]).bridged
      BY <2>1, <2>2, PublicOf
    <2> QED BY <2>3, ShownSame
  <1> QED BY <1>1, <1>2, InformedQuiet

LEMMA CheckedTold ==
  ASSUME TypeOK, TypeOK', Grounded, Informed, NEW h \in Handlers, Checked(h)
  PROVE  Informed'
  <1>0. prompts[h] \in Prompt /\ UNCHANGED <<online, rows>>
    BY PromptKnown DEF Checked
  <1>1. PICK s \in Sessions, model \in Selections : prompts[h].s = s /\ prompts[h].model = model
    BY <1>0 DEF Prompt
  <1> DEFINE meta == NewSession(model)
  <1>2. CASE prompts[h].exists
    <2>1. runtimes' = [runtimes EXCEPT ![s] = RuntimeOf(s, states[s])] /\ UNCHANGED <<states, down>>
      BY <1>1, <1>2 DEF Checked
    <2>2. RuntimeOf(s, states[s]) \in Runtime
      BY RuntimeOfType DEF TypeOK
    <2> QED BY <1>0, <2>1, <2>2, RuntimeQuiet
  <1>3. CASE ~prompts[h].exists
    <2>1. /\ runtimes' = [runtimes EXCEPT ![s] = RuntimeOf(s, meta)] /\ now' = now + 1
          /\ states' = [states EXCEPT ![s] = meta] /\ Fanout(s, meta, runtimes[s])
      BY <1>1, <1>3 DEF Checked
    <2>2. meta \in Meta
      <3>1. now + 1 \in 0..MaxEdges
        BY <2>1 DEF TypeOK
      <3> QED BY <3>1 DEF NewSession, Meta
    <2> HIDE DEF meta
    <2>3. /\ states'[s] = meta /\ runtimes'[s] = RuntimeOf(s, meta)
          /\ \A x \in Sessions \ {s} : states'[x] = states[x] /\ runtimes'[x] = runtimes[x]
      BY <2>1 DEF TypeOK
    <2>4. RuntimeOf(s, meta) \in Runtime /\ runtimes[s] \in Runtime \cup {None}
          /\ RuntimeOf(s, meta) # None
      BY <2>2, RuntimeOfType, Nulls DEF TypeOK
    <2>5. Public(meta, runtimes[s]) # None
          /\ Shown(Public(meta, runtimes[s])) = Shown(Public(meta, RuntimeOf(s, meta)))
      <3>1. CASE runtimes[s] # None
        BY <2>2, <2>4, <3>1, PublicOf DEF RuntimeOf
      <3>2. CASE runtimes[s] = None
        <4>1. RuntimeOf(s, meta).activity = "idle" /\ RuntimeOf(s, meta).model = meta.model
              /\ RuntimeOf(s, meta).stamp = meta.stamp
          BY <2>2, <3>2, Nulls DEF RuntimeOf, Seeded
        <4>2. /\ Public(meta, runtimes[s]) \in Row /\ Public(meta, RuntimeOf(s, meta)) \in Row
              /\ Public(meta, runtimes[s]).activity = Public(meta, RuntimeOf(s, meta)).activity
              /\ Public(meta, runtimes[s]).model = Public(meta, RuntimeOf(s, meta)).model
              /\ Public(meta, runtimes[s]).stamp = Public(meta, RuntimeOf(s, meta)).stamp
              /\ Public(meta, runtimes[s]).bridged = Public(meta, RuntimeOf(s, meta)).bridged
              /\ Public(meta, runtimes[s]) # None
          BY <2>2, <2>4, <3>2, <4>1, PublicOf
        <4> QED BY <4>2, ShownSame
      <3> QED BY <3>1, <3>2
    <2> QED BY <1>0, <2>1, <2>3, <2>5, InformedTold
  <1> QED BY <1>0, <1>2, <1>3 DEF Prompt

LEMMA DaemonTold ==
  ASSUME TypeOK, TypeOK', Grounded, Informed, Daemon
  PROVE  Informed'
  <1>0. ASSUME UNCHANGED <<states, runtimes, online, down, rows>>
        PROVE  Informed'
    BY <1>0, InformedQuiet
  <1>1. ASSUME NEW h \in Handlers, Handle(h) \/ \E s \in Sessions : SendPrompt(h, s)
        PROVE  Informed'
    <2>1. CASE Checked(h)
      BY <2>1, CheckedTold
    <2>2. CASE PromptAttached(h)
      <3>1. PICK s \in Sessions : s = prompts[h].s
        BY <2>2, PromptKnown DEF PromptAttached
      <3>2. runtimes[s] # None /\ UNCHANGED <<online, rows>>
            /\ (Attach(s) \/ UNCHANGED <<states, runtimes, down>>)
        BY <2>2, <3>1 DEF PromptAttached, Grounded
      <3> QED BY <1>0, <3>2, AttachTold
    <2>3. CASE Spawn(h)
      <3>1. PICK s \in Sessions : s = prompts[h].s
        BY <2>3, PromptKnown DEF Spawn
      <3> DEFINE runtime == [runtimes[s] EXCEPT !.live = TRUE]
      <3>2. runtimes[s] # None /\ runtimes[s] \in Runtime
        BY <2>3, <3>1 DEF Spawn, Grounded, TypeOK
      <3>3. runtime \in Runtime /\ runtime.model = runtimes[s].model
            /\ runtime.activity = runtimes[s].activity
        BY <3>2 DEF Runtime
      <3>4. SetActivity(s, states[s], runtime, "running") /\ UNCHANGED <<online, rows>>
        BY <2>3, <3>1 DEF Spawn
      <3> HIDE DEF runtime
      <3> QED BY <3>2, <3>3, <3>4, SetActivityTold
    <2>4. CASE TokenFails(h) \/ \E s \in Sessions : SendPrompt(h, s)
      BY <1>0, <2>4 DEF TokenFails, SendPrompt, clients
    <2> QED BY <1>1, <2>1, <2>2, <2>3, <2>4 DEF Handle
  <1>2. ASSUME NEW s \in Sessions, Bridge(s)
        PROVE  Informed'
    <2>1. CASE Upgrade(s)
      <3>1. RuntimeOf(s, states[s]) \in Runtime
        BY RuntimeOfType DEF TypeOK
      <3> QED BY <2>1, <3>1, RuntimeQuiet DEF Upgrade, clients
    <2>2. CASE UpgradeAttached(s)
      <3>1. runtimes[s] # None /\ UNCHANGED <<online, rows>>
            /\ (Attach(s) \/ UNCHANGED <<states, runtimes, down>>)
        BY <2>2 DEF UpgradeAttached, Grounded
      <3> QED BY <1>0, <3>1, AttachTold
    <2>3. CASE UpgradeBackfilled(s) \/ Checkpoint(s)
      BY <1>0, <2>3 DEF UpgradeBackfilled, Checkpoint, clients, daemon
    <2>4. CASE Detach(s)
      BY <2>4, DetachTold
    <2>5. CASE Reattach(s)
      <3>0. UNCHANGED <<states, online, down, rows>>
        BY <2>5 DEF Reattach, clients
      <3>1. CASE runtimes' = runtimes
        BY <1>0, <3>0, <3>1
      <3>2. CASE runtimes' # runtimes
        <4>1. runtimes' = [runtimes EXCEPT ![s] = RuntimeOf(s, states[s])]
          BY <2>5, <3>2 DEF Reattach
        <4>2. RuntimeOf(s, states[s]) \in Runtime
          BY RuntimeOfType DEF TypeOK
        <4> QED BY <3>0, <4>1, <4>2, RuntimeQuiet
      <3> QED BY <3>1, <3>2
    <2>6. CASE Reattached(s)
      <3>0. UNCHANGED <<states, online, down, rows>>
        BY <2>6 DEF Reattached, clients
      <3>1. CASE runtimes' = runtimes
        BY <1>0, <3>0, <3>1
      <3>2. CASE runtimes' # runtimes
        <4> DEFINE runtime == [runtimes[s] EXCEPT !.cse = booting[s].cse]
        <4>1. runtimes' = [runtimes EXCEPT ![s] = runtime]
          BY <2>6, <3>2 DEF Reattached
        <4>2. /\ runtimes[s] # None /\ runtimes[s] \in Runtime /\ booting[s].cse \in 0..MaxCse
              /\ RuntimeOf(s, states[s]) = runtimes[s]
          BY <2>6 DEF Reattached, Grounded, TypeOK, RuntimeOf, Boots
        <4>3. runtime \in Runtime /\ runtime.activity = runtimes[s].activity
              /\ runtime.model = runtimes[s].model /\ runtime.stamp = runtimes[s].stamp
          BY <4>2 DEF Runtime
        <4> HIDE DEF runtime
        <4> QED BY <3>0, <4>1, <4>2, <4>3, RuntimeQuiet
      <3> QED BY <3>1, <3>2
    <2> QED BY <1>2, <2>1, <2>2, <2>3, <2>4, <2>5, <2>6 DEF Bridge
  <1>3. ASSUME NEW s \in Sessions, Turns(s) \/ \E model \in Selections : Pick(s, model)
        PROVE  Informed'
    <2>1. CASE Write(s)
      BY <1>0, <2>1 DEF Write, daemon, clients
    <2>2. CASE TurnEnds(s)
      <3>1. runtimes[s] # None /\ runtimes[s] \in Runtime /\ runtimes[s].activity = "running"
            /\ SetActivity(s, states[s], runtimes[s], "idle") /\ UNCHANGED <<online, rows>>
        BY <2>2 DEF TurnEnds, TypeOK
      <3> QED BY <3>1, SetActivityTold
    <2>3. CASE Teardown(s)
      <3> DEFINE runtime == [runtimes[s] EXCEPT !.live = FALSE]
      <3>1. runtimes[s] # None /\ runtimes[s] \in Runtime /\ runtimes' = [runtimes EXCEPT ![s] = runtime]
            /\ UNCHANGED <<states, online, down, rows>>
        BY <2>3 DEF Teardown, TypeOK, clients
      <3>2. /\ runtime \in Runtime /\ runtime.model = runtimes[s].model
            /\ runtime.stamp = runtimes[s].stamp /\ runtime.activity = runtimes[s].activity
            /\ RuntimeOf(s, states[s]) = runtimes[s]
        BY <3>1 DEF Runtime, RuntimeOf
      <3> HIDE DEF runtime
      <3> QED BY <3>1, <3>2, RuntimeQuiet
    <2>4. CASE View(s)
      <3>1. /\ RuntimeOf(s, states[s]) \in Runtime
            /\ runtimes' = [runtimes EXCEPT ![s] = RuntimeOf(s, states[s])]
            /\ UNCHANGED <<states, online, down, rows>>
        BY <2>4, RuntimeOfType DEF View, RuntimeOf, TypeOK, clients
      <3> QED BY <3>1, RuntimeQuiet
    <2>5. ASSUME NEW model \in Selections,
                 SetModel(s, model) \/ UNCHANGED <<file, states, runtimes, down, excused>>,
                 UNCHANGED <<online, rows>>
          PROVE  Informed'
      BY <1>0, <2>5, SetModelTold
    <2>6. CASE PickApplied(s)
      <3>1. picks[s] \in Selections
        BY <2>6 DEF PickApplied, TypeOK
      <3> QED BY <2>5, <2>6, <3>1 DEF PickApplied
    <2>7. CASE \E model \in Selections : Pick(s, model)
      BY <2>5, <2>7 DEF Pick
    <2> QED BY <1>3, <2>1, <2>2, <2>3, <2>4, <2>6, <2>7 DEF Turns
  <1> QED BY <1>1, <1>2, <1>3 DEF Daemon

(* A device that connects is told everything; what it takes in is no longer *)
(* on the wire.                                                            *)
LEMMA DevicesTold ==
  ASSUME TypeOK, Informed, NEW d \in Devices, Connect(d) \/ Disconnect(d) \/ Deliver(d)
  PROVE  Informed'
  <1>0. UNCHANGED <<states, runtimes>>
    BY DEF Connect, Disconnect, Deliver, daemon
  <1> SUFFICES ASSUME NEW e \in Devices, NEW x \in Sessions, online'[e],
                      NEW n \in 0..Len(down'[e]), Last(e, x, n)', states[x] # None
               PROVE  LET state == IF n = 0 THEN rows'[e][x] ELSE Word(down'[e][n], x)
                      IN  state # None /\ Shown(state) = Shown(Public(states[x], runtimes[x]))
    BY <1>0 DEF Informed, Agrees
  <1>1. CASE e # d
    <2>1. online'[e] = online[e] /\ down'[e] = down[e] /\ rows'[e] = rows[e]
      BY <1>1 DEF Connect, SubscribeSessionStates, Disconnect, Deliver, TypeOK
    <2>2. Last(e, x, n)
      BY <2>1 DEF Last
    <2>3. Agrees(IF n = 0 THEN rows[e][x] ELSE Word(down[e][n], x), x)
      BY <2>1, <2>2 DEF Informed
    <2> QED BY <2>1, <2>3 DEF Agrees
  <1>2. CASE e = d /\ Connect(d)
    <2> DEFINE frame == [type |-> "initial", rows |-> Snapshot]
    <2>1. down'[e] = <<frame>>
      BY <1>2 DEF Connect, SubscribeSessionStates, TypeOK
    <2>2. Concerns(frame, x)
      BY DEF Concerns
    <2>3. n = 1
      BY <2>1, <2>2 DEF Last
    <2>4. Word(down'[e][n], x) = Public(states[x], runtimes[x])
      BY <2>1, <2>3 DEF Word, Snapshot
    <2>5. Public(states[x], runtimes[x]) # None
      BY PublicType DEF TypeOK
    <2> QED BY <2>3, <2>4, <2>5
  <1>3. CASE e = d /\ Disconnect(d)
    BY <1>3 DEF Disconnect, TypeOK
  <1>4. CASE e = d /\ Deliver(d)
    <2>1. /\ down[d] \in Seq(Frame) /\ down[d] # <<>> /\ down'[d] = Tail(down[d])
          /\ rows'[d] = Fed(rows[d], Head(down[d])) /\ rows[d] \in Rows
          /\ online[d]
      BY <1>4 DEF Deliver, TypeOK
    <2>2. /\ Len(down[d]) \in Nat \ {0} /\ Len(down'[d]) = Len(down[d]) - 1
          /\ Head(down[d]) = down[d][1] /\ down[d][1] \in Frame
          /\ \A i \in 1..(Len(down[d]) - 1) : down'[d][i] = down[d][i+1]
      BY <2>1
    <2>3. \A m \in (n+2)..Len(down[d]) : ~Concerns(down[d][m], x)
      <3> SUFFICES ASSUME NEW m \in (n+2)..Len(down[d]) PROVE ~Concerns(down[d][m], x)
        OBVIOUS
      <3>1. m - 1 \in (n+1)..Len(down'[d]) /\ m - 1 \in 1..(Len(down[d]) - 1) /\ (m - 1) + 1 = m
        BY <1>4, <2>2
      <3> QED BY <1>4, <2>2, <3>1 DEF Last
    <2>4. CASE n # 0
      <3>1. down'[d][n] = down[d][n+1] /\ n + 1 \in 0..Len(down[d]) /\ n + 1 # 0
        BY <1>4, <2>2, <2>4
      <3>2. Last(d, x, n + 1)
        BY <1>4, <2>3, <2>4, <3>1 DEF Last
      <3>3. Agrees(Word(down[d][n+1], x), x)
        BY <2>1, <3>1, <3>2 DEF Informed
      <3> QED BY <1>4, <2>4, <3>1, <3>3 DEF Agrees
    <2>5. CASE n = 0 /\ Concerns(down[d][1], x)
      <3>1. Last(d, x, 1) /\ 1 \in 0..Len(down[d])
        BY <2>2, <2>3, <2>5 DEF Last
      <3>2. Agrees(Word(down[d][1], x), x)
        BY <2>1, <3>1 DEF Informed
      <3>3. rows'[d][x] = Word(down[d][1], x)
        BY <2>1, <2>2, <2>5 DEF Fed, OnChange, Word, Concerns, Rows
      <3> QED BY <1>4, <2>5, <3>2, <3>3 DEF Agrees
    <2>6. CASE n = 0 /\ ~Concerns(down[d][1], x)
      <3>1. Last(d, x, 0) /\ 0 \in 0..Len(down[d])
        BY <2>2, <2>3, <2>6 DEF Last
      <3>2. Agrees(rows[d][x], x)
        BY <2>1, <3>1 DEF Informed
      <3>3. rows'[d][x] = rows[d][x]
        BY <2>1, <2>2, <2>6 DEF Fed, OnChange, Concerns, Rows
      <3> QED BY <1>4, <2>6, <3>2, <3>3 DEF Agrees
    <2> QED BY <2>4, <2>5, <2>6
  <1> QED BY <1>1, <1>2, <1>3, <1>4

LEMMA InformedInit == Init => Informed
  BY DEF Init, Informed

LEMMA InformedStep ==
  TypeOK /\ Grounded /\ TypeOK' /\ Informed /\ [Next]_vars => Informed'
  <1> SUFFICES ASSUME TypeOK, Grounded, TypeOK', Informed, [Next]_vars PROVE Informed'
    OBVIOUS
  <1>1. CASE Daemon
    BY <1>1, DaemonTold
  <1>2. CASE \E d \in Devices : Connect(d) \/ Disconnect(d) \/ Deliver(d)
    BY <1>2, DevicesTold
  <1>3. CASE Restart
    BY <1>3 DEF Restart, Informed
  <1>4. CASE UNCHANGED vars
    BY <1>4, InformedQuiet DEF vars, daemon, clients
  <1> QED BY <1>1, <1>2, <1>3, <1>4 DEF Next

LEMMA InformedConverges == TypeOK /\ Informed => ListConverges
  <1> SUFFICES ASSUME TypeOK, Informed, NEW d \in Devices, NEW s \in Sessions,
                      online[d], down[d] = <<>>, states[s] # None
               PROVE  rows[d][s] # None /\ Shown(rows[d][s]) = Shown(Public(states[s], runtimes[s]))
    BY DEF ListConverges
  <1>1. Len(down[d]) = 0 /\ Last(d, s, 0)
    BY DEF Last
  <1> QED BY <1>1 DEF Informed, Agrees

(* No change of a session goes untold to a device that keeps the list:     *)
(* however commands, turns, attaches, frames, reconnects and restarts      *)
(* interleave, a device that has taken in all that was sent to it shows    *)
(* what the daemon has (session-runtime-manager.ts:414-463).               *)
THEOREM ListIsInformed == Spec => []ListConverges
  BY TypeInvInit, TypeInvStep, InformedInit, InformedStep, InformedConverges, PTL DEF Spec

=============================================================================
