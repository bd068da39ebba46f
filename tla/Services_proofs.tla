-------------------------- MODULE Services_proofs --------------------------
(***************************************************************************)
(* Proofs about the components that serve the sessions from beside, for    *)
(* every value of their constants: OAuthRefresh, GitWatch and Terminal.    *)
(*                                                                         *)
(* OAuthRefresh: no order of callers, timers, rivals, answers and writes   *)
(* throws a rotated refresh token away; inductive once it is known whose   *)
(* every token is (OneHolder).                                             *)
(* GitWatch: whose every listener is, and that a mounted bar keeps its     *)
(* own, comes from what is on the wire towards the daemon (Heard); that a  *)
(* bar never goes back in time, from what every status that is cached, on  *)
(* its way or shown has been overtaken by (Dated).                         *)
(* Terminal: that the client of a shell hears all of it comes from which   *)
(* socket is whose (Tied, Clients) and from what each client's screen will *)
(* show once it has read what is on its way (Hears), which also bounds     *)
(* the backlog by what is owed.                                            *)
(***************************************************************************)
EXTENDS OAuthRefresh, GitWatch, Terminal, TLAPS, WellFoundedInduction


(* A token that has been granted but not written is held by one client     *)
(* only, and nobody can spend it before it is written; every token there   *)
(* is was issued.                                                          *)
OneHolder ==
    /\ \A t \in live : t <= issued
    /\ store # NoCreds => store.token <= issued
    /\ refresh # NoRefresh => refresh.token <= issued
    /\ rival # Nobody =>
           /\ rival \in live
           /\ store # NoCreds => store.token # rival
           /\ refresh # NoRefresh => refresh.token # rival
    /\ refresh # NoRefresh /\ refresh.answer = "granted" =>
           /\ refresh.token \in live
           /\ store # NoCreds => store.token # refresh.token

-----------------------------------------------------------------------------
(* Type correctness.                                                       *)

LEMMA Nulls ==
    /\ NoCreds \notin Creds /\ NoRefresh \notin Refreshes /\ Nobody \notin Tokens
    /\ MaxTokens \in Nat \ {0} /\ MaxFaults \in Nat /\ MaxAsks \in Nat
    /\ 1 \in Tokens /\ Tokens \subseteq Nat
  BY OAuthAssumption, NullsAssumption DEF Tokens

LEMMA TypeInit == Init => TypeOK
  <1> SUFFICES ASSUME Init PROVE TypeOK
    OBVIOUS
  <1>1. store \in Creds \cup {NoCreds}
    BY Nulls DEF Init, Creds, Ages
  <1>2. timers \in [set : Kinds \cup {"none"}, stray : SUBSET Kinds]
    BY DEF Init
  <1>3. 0 \in 0..MaxFaults /\ 0 \in 0..MaxAsks
    BY Nulls
  <1> QED BY <1>1, <1>2, <1>3, Nulls DEF Init, TypeOK, Plans

(* What the operators on timers, tokens and callers yield.                 *)
LEMMA TimersType ==
  ASSUME TypeOK
  PROVE  /\ ScheduleProactive(timers) \in [set : Kinds \cup {"none"}, stray : SUBSET Kinds]
         /\ Schedule(timers) \in [set : Kinds \cup {"none"}, stray : SUBSET Kinds]
         /\ ArmRetry(timers) \in [set : Kinds \cup {"none"}, stray : SUBSET Kinds]
         /\ \A kind \in Kinds :
               /\ Gone(timers, kind) \in [set : Kinds \cup {"none"}, stray : SUBSET Kinds]
               /\ ScheduleProactive(Gone(timers, kind)) \in [set : Kinds \cup {"none"}, stray : SUBSET Kinds]
         /\ [timers EXCEPT !.set = "none"] \in [set : Kinds \cup {"none"}, stray : SUBSET Kinds]
  <1> DEFINE T == [set : Kinds \cup {"none"}, stray : SUBSET Kinds]
  <1>1. timers \in T /\ timers.set \in Kinds \cup {"none"} /\ timers.stray \in SUBSET Kinds
    BY DEF TypeOK
  <1>2. \A t \in T : Schedule(t) \in T
    BY DEF Schedule, Kinds
  <1>3. \A t \in T : ScheduleProactive(t) \in T
    BY <1>2 DEF ScheduleProactive
  <1>4. [timers EXCEPT !.set = "none"] \in T
    BY <1>1
  <1>5. ArmRetry(timers) \in T
    <2>1. timers.stray \cup ({timers.set} \ {"none"}) \in SUBSET Kinds
      BY <1>1
    <2>2. "retry" \in Kinds
      BY DEF Kinds
    <2> QED BY <1>1, <2>1, <2>2 DEF ArmRetry
  <1>6. \A kind \in Kinds : Gone(timers, kind) \in T
    <2> TAKE kind \in Kinds
    <2>1. (timers.stray \ {kind}) \cup ({timers.set} \ {"none"}) \in SUBSET Kinds
      BY <1>1
    <2> QED BY <1>1, <1>4, <2>1 DEF Gone
  <1> QED BY <1>1, <1>2, <1>3, <1>4, <1>5, <1>6

LEMMA EnsureFreshType ==
  ASSUME TypeOK, NEW c \in Callers, EnsureFresh(c)
  PROVE  /\ asks' \in [Callers -> {"idle", "waiting", "token", "failed", "network"}]
         /\ refresh' \in Refreshes \cup {NoRefresh}
         /\ \/ refresh' = refresh
            \/ refresh = NoRefresh /\ store # NoCreds
               /\ refresh' = [token |-> store.token, answer |-> "none"]
  <1>1. store # NoCreds => [token |-> store.token, answer |-> "none"] \in Refreshes
    BY DEF TypeOK, Creds, Refreshes, Answers
  <1>2. asks' \in [Callers -> {"idle", "waiting", "token", "failed", "network"}]
    BY DEF EnsureFresh, TypeOK
  <1> QED BY <1>1, <1>2 DEF EnsureFresh, Joined, TypeOK

LEMMA SettlesType ==
  ASSUME TypeOK, Settles
  PROVE  TypeOK'
  <1>1. ASSUME NEW outcome \in {"token", "failed", "network"}, Settle(outcome)
        PROVE  /\ refresh' \in Refreshes \cup {NoRefresh} /\ pending' \in BOOLEAN
               /\ asks' \in [Callers -> {"idle", "waiting", "token", "failed", "network"}]
               /\ UNCHANGED <<live, issued, rival, running, plan, sessions, asked>>
    BY <1>1 DEF Settle, TypeOK
  <1>2. CASE Granted
    <2>1. Written \in Creds
      BY <1>2, Nulls DEF Granted, TypeOK, Written, Fresh, Creds, Refreshes, Ages
    <2>2. store' \in Creds \cup {NoCreds} /\ faults' \in 0..MaxFaults /\ lost' \in BOOLEAN
          /\ rejected' \in BOOLEAN
      <3>1. \/ store' = Written /\ UNCHANGED <<faults, lost>>
            \/ faults < MaxFaults /\ faults' = faults + 1 /\ lost' = TRUE /\ UNCHANGED store
        BY <1>2 DEF Granted
      <3>2. faults' \in 0..MaxFaults
        BY <3>1, Nulls DEF TypeOK
      <3>3. lost' \in BOOLEAN /\ store' \in Creds \cup {NoCreds}
        BY <2>1, <3>1 DEF TypeOK
      <3>4. rejected' = FALSE
        BY <1>2 DEF Granted
      <3> QED BY <3>2, <3>3, <3>4
    <2>3. Settle("token") /\ timers' = ScheduleProactive(timers)
      BY <1>2 DEF Granted
    <2> QED BY <1>1, <2>2, <2>3, TimersType DEF TypeOK
  <1>3. CASE Rejected
    <2>1. /\ Settle(IF Reread THEN "token" ELSE "failed")
          /\ timers' = IF Reread THEN ScheduleProactive(timers) ELSE timers
          /\ rejected' \in BOOLEAN /\ UNCHANGED <<store, faults, lost>>
      BY <1>3 DEF Rejected, Reread
    <2>2. (IF Reread THEN "token" ELSE "failed") \in {"token", "failed", "network"}
      OBVIOUS
    <2> QED BY <1>1, <2>1, <2>2, TimersType DEF TypeOK
  <1>4. CASE Failed
    <2>1. /\ Settle("network") /\ UNCHANGED <<store, faults, lost, rejected>>
          /\ timers' = IF pending THEN ArmRetry(timers) ELSE timers
      BY <1>4 DEF Failed
    <2> QED BY <1>1, <2>1, TimersType DEF TypeOK
  <1> QED BY <1>2, <1>3, <1>4 DEF Settles

LEMMA BridgingType ==
  ASSUME TypeOK, NEW s \in Sessions, Bridging(s)
  PROVE  TypeOK'
  <1>0. s \in Callers
    BY DEF Callers
  <1>1. CASE Attach(s)
    <2>1. asked' \in 0..MaxAsks
      BY <1>1, Nulls DEF Attach, TypeOK
    <2>2. EnsureFresh(s) /\ sessions' = [sessions EXCEPT ![s] = "attaching"] /\ running' = TRUE
          /\ timers' = (IF running \/ store = NoCreds THEN timers ELSE Schedule(timers))
          /\ UNCHANGED <<account, pending, plan, faults, lost, rejected>>
      BY <1>1 DEF Attach
    <2> QED BY <1>0, <2>1, <2>2, EnsureFreshType, TimersType DEF TypeOK, account
  <1>2. CASE Attached(s)
    BY <1>0, <1>2 DEF Attached, TypeOK, account
  <1>3. ASSUME NEW left, StopIfLast(left)
        PROVE  running' \in BOOLEAN /\ timers' \in [set : Kinds \cup {"none"}, stray : SUBSET Kinds]
    BY <1>3, TimersType DEF StopIfLast, Stop, TypeOK
  <1>4. CASE AttachFails(s)
    <2>1. StopIfLast(Bridged) /\ sessions' = [sessions EXCEPT ![s] = "none"]
          /\ asks' = [asks EXCEPT ![s] = "idle"]
          /\ UNCHANGED <<account, refresh, pending, plan, faults, asked, lost, rejected>>
      BY <1>4 DEF AttachFails
    <2> QED BY <1>0, <1>3, <2>1 DEF TypeOK, account
  <1>5. CASE Detach(s)
    <2>1. StopIfLast(Bridged \ {s}) /\ sessions' = [sessions EXCEPT ![s] = "none"]
          /\ UNCHANGED <<account, refresh, asks, pending, plan, faults, asked, lost, rejected>>
      BY <1>5 DEF Detach
    <2> QED BY <1>3, <2>1 DEF TypeOK, account
  <1> QED BY <1>1, <1>2, <1>4, <1>5 DEF Bridging

LEMMA MenuType ==
  ASSUME TypeOK, OpenMenu \/ NoToken \/ UsageAnswers \/ Expires
  PROVE  TypeOK'
  <1>0. Menu \in Callers
    BY DEF Callers
  <1>1. CASE OpenMenu
    <2>1. asked' \in 0..MaxAsks
      BY <1>1, Nulls DEF OpenMenu, TypeOK
    <2>2. EnsureFresh(Menu)
          /\ UNCHANGED <<account, plan, pending, running, timers, sessions, faults, lost, rejected>>
      BY <1>1 DEF OpenMenu
    <2> QED BY <1>0, <2>1, <2>2, EnsureFreshType DEF TypeOK, account
  <1>2. ASSUME NEW result \in {"cached", "signed_out", "error"}, FetchEnds(result)
        PROVE  TypeOK'
    <2>1. Shown(result) \in Plans
      BY DEF Shown, Plans, TypeOK
    <2> QED BY <1>0, <1>2, <2>1 DEF FetchEnds, TypeOK, account
  <1>3. CASE NoToken
    <2>1. (IF asks[Menu] = "failed" THEN "signed_out" ELSE "error") \in {"cached", "signed_out", "error"}
      OBVIOUS
    <2> QED BY <1>2, <1>3, <2>1 DEF NoToken
  <1>4. CASE UsageAnswers
    BY <1>2, <1>4 DEF UsageAnswers
  <1>5. CASE Expires
    BY <1>5 DEF Expires, TypeOK, Plans, account, manager
  <1> QED BY <1>1, <1>3, <1>4, <1>5

LEMMA RequestType ==
  ASSUME TypeOK, Exchange \/ NetworkFails
  PROVE  TypeOK'
  <1>0. refresh \in Refreshes
    BY DEF Exchange, NetworkFails, TypeOK
  <1>1. CASE Exchange /\ refresh.token \in live
    <2>1. /\ issued < MaxTokens /\ issued' = issued + 1
          /\ live' = (live \ {refresh.token}) \cup {issued + 1}
          /\ refresh' = [token |-> issued + 1, answer |-> "granted"]
          /\ UNCHANGED <<store, rival, asks, pending, running, timers, plan, sessions, faults, asked, lost, rejected>>
      BY <1>1 DEF Exchange
    <2>2. issued + 1 \in Tokens
      BY <2>1, Nulls DEF TypeOK, Tokens
    <2>3. refresh' \in Refreshes
      BY <2>1, <2>2 DEF Refreshes, Answers
    <2> QED BY <2>1, <2>2, <2>3 DEF TypeOK
  <1>2. CASE Exchange /\ refresh.token \notin live
    <2>1. refresh' = [refresh EXCEPT !.answer = "invalid_grant"]
          /\ UNCHANGED <<live, issued, store, rival, asks, pending, running, timers, plan, sessions, faults, asked, lost, rejected>>
      BY <1>2 DEF Exchange
    <2>2. refresh' \in Refreshes
      BY <1>0, <2>1 DEF Refreshes, Answers
    <2> QED BY <2>1, <2>2 DEF TypeOK
  <1>3. CASE NetworkFails
    <2>1. refresh' = [refresh EXCEPT !.answer = "network"] /\ lost' \in BOOLEAN
          /\ UNCHANGED <<account, asks, pending, running, timers, plan, sessions, asked, rejected>>
      BY <1>3 DEF NetworkFails, TypeOK
    <2>2. refresh' \in Refreshes
      BY <1>0, <2>1 DEF Refreshes, Answers
    <2>3. faults' \in 0..MaxFaults
      BY <1>3, Nulls DEF NetworkFails, TypeOK
    <2> QED BY <2>1, <2>2, <2>3 DEF TypeOK, account
  <1> QED BY <1>1, <1>2, <1>3

LEMMA FiresType ==
  ASSUME TypeOK, Fires
  PROVE  /\ TypeOK'
         /\ \/ refresh' = refresh
            \/ refresh = NoRefresh /\ store # NoCreds
               /\ refresh' = [token |-> store.token, answer |-> "none"]
         /\ UNCHANGED <<account, lost>>
  <1>0. "proactive" \in Kinds /\ "retry" \in Kinds
    BY DEF Kinds
  <1>1. CASE ProactiveFires
    <2>1. /\ timers' = Gone(timers, "proactive")
          /\ IF store = NoCreds /\ refresh = NoRefresh
             THEN UNCHANGED <<refresh, pending>>
             ELSE refresh' = Joined /\ pending' = TRUE
          /\ UNCHANGED <<account, asks, running, plan, sessions, faults, asked, lost, rejected>>
      BY <1>1 DEF ProactiveFires
    <2>2. store # NoCreds => [token |-> store.token, answer |-> "none"] \in Refreshes
      BY DEF TypeOK, Creds, Refreshes, Answers
    <2>3. /\ refresh' \in Refreshes \cup {NoRefresh} /\ pending' \in BOOLEAN
          /\ \/ refresh' = refresh
             \/ refresh = NoRefresh /\ store # NoCreds
                /\ refresh' = [token |-> store.token, answer |-> "none"]
      BY <2>1, <2>2 DEF Joined, TypeOK
    <2> QED BY <1>0, <2>1, <2>3, TimersType DEF TypeOK, account
  <1>2. CASE RetryFires
    <2>1. /\ timers' = IF store = NoCreds THEN Gone(timers, "retry") ELSE ScheduleProactive(Gone(timers, "retry"))
          /\ UNCHANGED <<account, refresh, asks, pending, running, plan, sessions, faults, asked, lost, rejected>>
      BY <1>2 DEF RetryFires
    <2> QED BY <1>0, <2>1, TimersType DEF TypeOK, account
  <1> QED BY <1>1, <1>2 DEF Fires

LEMMA WorldType ==
  ASSUME TypeOK, World
  PROVE  TypeOK'
  <1>0. ASSUME NEW t \in Tokens PROVE Fresh(t) \in Creds
    BY DEF Fresh, Creds, Ages
  <1>1. CASE TimePasses
    <2>1. store \in Creds /\ store.age \in {"fresh", "due"}
      BY <1>1 DEF TimePasses, TypeOK, Creds, Ages
    <2>2. Older[store.age] \in Ages
      BY <2>1 DEF Older, Ages
    <2>3. store' \in Creds
      BY <1>1, <2>1, <2>2 DEF TimePasses, Creds
    <2> QED BY <1>1, <2>3 DEF TimePasses, TypeOK, manager
  <1>2. CASE RivalRefreshes
    <2>1. issued + 1 \in Tokens
      BY <1>2, Nulls DEF RivalRefreshes, TypeOK, Tokens
    <2> QED BY <1>2, <2>1 DEF RivalRefreshes, TypeOK, manager
  <1>3. CASE RivalWrites
    BY <1>0, <1>3 DEF RivalWrites, TypeOK, manager
  <1>4. CASE Login
    <2>1. issued + 1 \in Tokens
      BY <1>4, Nulls DEF Login, TypeOK, Tokens
    <2> QED BY <1>0, <1>4, <2>1 DEF Login, TypeOK, manager
  <1>5. CASE Logout
    BY <1>5 DEF Logout, TypeOK, manager
  <1> QED BY <1>1, <1>2, <1>3, <1>4, <1>5 DEF World

LEMMA TypeStep == TypeOK /\ [Next]_vars => TypeOK'
  <1> SUFFICES ASSUME TypeOK, [Next]_vars PROVE TypeOK'
    OBVIOUS
  <1>1. CASE UNCHANGED vars
    BY <1>1 DEF vars, account, manager, TypeOK
  <1> QED BY <1>1, RequestType, SettlesType, FiresType, WorldType, MenuType, BridgingType DEF Next

(* The keychain, the requests, the timers and the callers keep their types *)
(* whatever fails and whoever writes in between (oauth-refresh.ts:120-345). *)
THEOREM TypeCorrect == Spec => []TypeOK
  BY TypeInit, TypeStep, PTL DEF Spec

-----------------------------------------------------------------------------
(* Whose the tokens are.                                                   *)

LEMMA HolderTypes ==
  ASSUME TypeOK
  PROVE  /\ issued \in Nat /\ \A t \in live : t \in Nat
         /\ store # NoCreds => store.token \in Nat /\ store \in Creds
         /\ refresh # NoRefresh => refresh.token \in Nat /\ refresh \in Refreshes
         /\ rival # Nobody => rival \in Nat
  BY Nulls DEF TypeOK, Creds, Refreshes

LEMMA HolderInit == Init => OneHolder /\ RotationKept
  BY Nulls DEF Init, OneHolder, RotationKept

(* A step that asks for a token, or is about something else.               *)
LEMMA AskKeeps ==
  ASSUME TypeOK, OneHolder, RotationKept, UNCHANGED <<account, lost>>,
         \/ refresh' = refresh
         \/ refresh = NoRefresh /\ store # NoCreds
            /\ refresh' = [token |-> store.token, answer |-> "none"]
  PROVE  OneHolder' /\ RotationKept'
  <1>1. UNCHANGED <<store, live, issued, rival, lost>>
    BY DEF account
  <1>2. CASE refresh' = refresh
    BY <1>1, <1>2 DEF OneHolder, RotationKept
  <1>3. CASE refresh = NoRefresh /\ store # NoCreds
             /\ refresh' = [token |-> store.token, answer |-> "none"]
    <2>1. refresh' # NoRefresh => refresh'.token = store.token /\ refresh'.answer = "none"
      BY <1>3
    <2>2. OneHolder'
      BY <1>1, <1>3, <2>1 DEF OneHolder
    <2> QED BY <1>1, <1>3, <2>2 DEF RotationKept
  <1> QED BY <1>2, <1>3

LEMMA ExchangeKeeps ==
  ASSUME TypeOK, OneHolder, RotationKept, Exchange \/ NetworkFails
  PROVE  OneHolder' /\ RotationKept'
  <1>0. refresh \in Refreshes /\ refresh # NoRefresh
    BY DEF Exchange, NetworkFails, TypeOK
  <1>1. CASE Exchange /\ refresh.token \in live
    <2>1. /\ issued' = issued + 1
          /\ live' = (live \ {refresh.token}) \cup {issued + 1}
          /\ refresh' = [token |-> issued + 1, answer |-> "granted"]
          /\ refresh'.token = issued + 1 /\ refresh'.answer = "granted"
          /\ UNCHANGED <<store, rival, lost>>
      BY <1>1 DEF Exchange
    <2>2. refresh' # NoRefresh
      <3>1. refresh' \in Refreshes \cup {NoRefresh} /\ [token |-> issued + 1, answer |-> "granted"] \in Refreshes
        <4>1. issued + 1 \in Tokens
          BY <1>1, Nulls DEF Exchange, TypeOK, Tokens
        <4> QED BY <2>1, <4>1 DEF Refreshes, Answers
      <3> QED BY <2>1, <3>1, Nulls
    <2>3. OneHolder'
      BY <1>0, <2>1, HolderTypes DEF OneHolder
    <2>4. RotationKept'
      BY <2>1, <2>2 DEF RotationKept
    <2> QED BY <2>3, <2>4
  <1>2. CASE (Exchange /\ refresh.token \notin live) \/ NetworkFails
    <2>1. \E answer \in {"invalid_grant", "network"} : refresh' = [refresh EXCEPT !.answer = answer]
      BY <1>2 DEF Exchange, NetworkFails
    <2>2. refresh'.token = refresh.token /\ refresh'.answer # "granted"
      BY <1>0, <2>1 DEF Refreshes
    <2>3. UNCHANGED <<store, live, issued, rival>>
      BY <1>2 DEF Exchange, NetworkFails, account
    <2>4. refresh.answer = "granted" => lost'
      BY <1>2 DEF Exchange, NetworkFails
    <2>5. lost => lost'
      BY <1>2 DEF Exchange, NetworkFails
    <2>6. OneHolder'
      BY <1>0, <2>2, <2>3 DEF OneHolder
    <2>7. RotationKept'
      BY <1>0, <2>2, <2>3, <2>4, <2>5 DEF RotationKept
    <2> QED BY <2>6, <2>7
  <1> QED BY <1>1, <1>2

LEMMA SettlesKeep ==
  ASSUME TypeOK, OneHolder, RotationKept, Settles
  PROVE  OneHolder' /\ RotationKept'
  <1>0. refresh' = NoRefresh /\ UNCHANGED <<live, issued, rival>> /\ refresh # NoRefresh
    BY DEF Settles, Granted, Rejected, Failed, Settle
  <1>1. CASE Granted /\ store' = Written
    <2>1. Written.token = refresh.token /\ refresh.answer = "granted"
      BY <1>1 DEF Granted, Written, Fresh
    <2>2. OneHolder'
      BY <1>0, <1>1, <2>1 DEF OneHolder
    <2>3. RotationKept'
      BY <1>0, <1>1, <2>1 DEF RotationKept, OneHolder
    <2> QED BY <2>2, <2>3
  <1>2. CASE Granted /\ lost' = TRUE /\ UNCHANGED store
    BY <1>0, <1>2 DEF OneHolder, RotationKept
  <1>3. CASE Rejected \/ Failed
    <2>1. UNCHANGED <<store, lost>> /\ refresh.answer # "granted"
      BY <1>3 DEF Rejected, Failed
    <2> QED BY <1>0, <2>1 DEF OneHolder, RotationKept
  <1>4. Granted => store' = Written \/ (lost' = TRUE /\ UNCHANGED store)
    BY DEF Granted
  <1> QED BY <1>1, <1>2, <1>3, <1>4 DEF Settles

LEMMA WorldKeeps ==
  ASSUME TypeOK, OneHolder, RotationKept, World
  PROVE  OneHolder' /\ RotationKept'
  <1>0. UNCHANGED <<refresh, lost>>
    BY DEF World, TimePasses, RivalRefreshes, RivalWrites, Login, Logout, manager
  <1>1. CASE TimePasses
    <2>1. store' # NoCreds => store # NoCreds /\ store'.token = store.token
      BY <1>1, HolderTypes DEF TimePasses, Creds
    <2>2. UNCHANGED <<live, issued, rival>>
      BY <1>1 DEF TimePasses
    <2> QED BY <1>0, <2>1, <2>2 DEF OneHolder, RotationKept
  <1>2. CASE RivalRefreshes
    <2>1. /\ rival = Nobody /\ store # NoCreds /\ issued' = issued + 1 /\ rival' = issued + 1
          /\ live' = (live \ {store.token}) \cup {issued + 1} /\ UNCHANGED store
      BY <1>2 DEF RivalRefreshes
    <2>2. OneHolder'
      BY <1>0, <2>1, HolderTypes DEF OneHolder
    <2>3. RotationKept'
      BY <1>0, <2>1 DEF RotationKept
    <2> QED BY <2>2, <2>3
  <1>3. CASE RivalWrites
    <2>1. /\ rival # Nobody /\ rival' = Nobody /\ UNCHANGED <<live, issued>>
          /\ store' = Fresh(rival) /\ Fresh(rival).token = rival
      BY <1>3 DEF RivalWrites, Fresh
    <2>2. OneHolder'
      BY <1>0, <2>1 DEF OneHolder
    <2>3. RotationKept'
      BY <1>0, <2>1 DEF RotationKept, OneHolder
    <2> QED BY <2>2, <2>3
  <1>4. CASE Login
    <2>1. /\ issued' = issued + 1 /\ live' = live \cup {issued + 1} /\ UNCHANGED rival
          /\ store' = Fresh(issued + 1) /\ Fresh(issued + 1).token = issued + 1
      BY <1>4 DEF Login, Fresh
    <2>2. OneHolder'
      BY <1>0, <2>1, HolderTypes DEF OneHolder
    <2>3. RotationKept'
      BY <1>0, <2>1 DEF RotationKept
    <2> QED BY <2>2, <2>3
  <1>5. CASE Logout
    BY <1>0, <1>5 DEF Logout, OneHolder, RotationKept
  <1> QED BY <1>1, <1>2, <1>3, <1>4, <1>5 DEF World

LEMMA HolderStep == TypeOK /\ OneHolder /\ RotationKept /\ [Next]_vars => OneHolder' /\ RotationKept'
  <1> SUFFICES ASSUME TypeOK, OneHolder, RotationKept, [Next]_vars
               PROVE  OneHolder' /\ RotationKept'
    OBVIOUS
  <1>1. CASE Fires
    BY <1>1, FiresType, AskKeeps
  <1>2. CASE OpenMenu \/ NoToken \/ UsageAnswers \/ Expires
    <2>1. CASE OpenMenu
      <3>1. UNCHANGED <<account, lost>> /\ EnsureFresh(Menu) /\ Menu \in Callers
        BY <2>1 DEF OpenMenu, Callers
      <3> QED BY <3>1, EnsureFreshType, AskKeeps
    <2>2. CASE NoToken \/ UsageAnswers \/ Expires
      <3>1. UNCHANGED <<account, lost, refresh>>
        BY <2>2 DEF NoToken, UsageAnswers, Expires, FetchEnds, manager
      <3> QED BY <3>1, AskKeeps
    <2> QED BY <1>2, <2>1, <2>2
  <1>3. ASSUME NEW s \in Sessions, Bridging(s)
        PROVE  OneHolder' /\ RotationKept'
    <2>1. CASE Attach(s)
      <3>1. UNCHANGED <<account, lost>> /\ EnsureFresh(s) /\ s \in Callers
        BY <2>1 DEF Attach, Callers
      <3> QED BY <3>1, EnsureFreshType, AskKeeps
    <2>2. CASE Attached(s) \/ AttachFails(s) \/ Detach(s)
      <3>1. UNCHANGED <<account, lost, refresh>>
        BY <2>2 DEF Attached, AttachFails, Detach
      <3> QED BY <3>1, AskKeeps
    <2> QED BY <1>3, <2>1, <2>2 DEF Bridging
  <1>4. CASE UNCHANGED vars
    BY <1>4, AskKeeps DEF vars, manager
  <1> QED BY <1>1, <1>2, <1>3, <1>4, ExchangeKeeps, SettlesKeep, WorldKeeps DEF Next

(* A token that was granted and not yet written is no other client's to    *)
(* spend: it is live, nobody else holds it, and the keychain does not have *)
(* it - the callers of the daemon share one refresh, and a rival writes    *)
(* what it got (oauth-refresh.ts:150-237).                                 *)
THEOREM OneHolderOfAToken == Spec => []OneHolder
  BY TypeInit, TypeStep, HolderInit, HolderStep, PTL DEF Spec

(* No order of callers, timers, rivals, answers and writes throws a        *)
(* rotated token away: what the keychain holds is accepted, or what        *)
(* replaced it is on its way there, or was lost on the network or by a     *)
(* write that failed (oauth-refresh.ts:191-237).                           *)
THEOREM RotationIsKept == Spec => []RotationKept
  BY TypeInit, TypeStep, HolderInit, HolderStep, PTL DEF Spec

-----------------------------------------------------------------------------
(* The Git status bar (GitWatch).                                          *)

Requests ==
    [type : {"getGitStatus", "subscribeGitStatus", "unsubscribeGitStatus"}, effect : Nat]
GitFrames ==
    [type : {"getGitStatus.response", "gitStatus", "subscribeGitStatus.response"},
     status : Status \cup {None}, effect : Nat]
Fetches ==
    [phase : {"idle", "queued", "reading"}, repo : BOOLEAN, head : 0..MaxEdits,
     push : BOOLEAN, asks : SUBSET (Devices \X Nat)]

\* What the watcher holds, it holds for listeners.
Watched ==
    /\ disk \in [repo : BOOLEAN, head : Nat, tree : Nat]
    /\ {handles, healing, debounce} \subseteq BOOLEAN
    /\ healing <=> listeners # {}
    /\ (handles \/ debounce) => healing
    /\ listeners \subseteq open /\ open \subseteq Devices \X Nat

Wired ==
    /\ epoch \in [Devices -> Nat] /\ online \in [Devices -> BOOLEAN]
    /\ up \in [Devices -> Seq(Requests)]
    /\ runs \in [Devices -> Nat] /\ mount \in [Devices -> Nat]
    /\ owner \in [Devices -> Nat] /\ acked \in [Devices -> Nat]
    /\ \A d \in Devices : online[d] => Conn(d) \in open

\* The last thing on the wire that is not a question is a subscribe; or
\* there is no such thing, and the listener is there.
Subscribed(q, c, there) ==
    \/ c \in there /\ \A i \in DOMAIN q : q[i].type = "getGitStatus"
    \/ \E i \in DOMAIN q : /\ q[i].type = "subscribeGitStatus"
                           /\ \A j \in DOMAIN q : j > i => q[j].type = "getGitStatus"

\* A mounted bar has the callback slot and its subscription, from the moment
\* its subscribe is sent.
Attended(d) ==
    /\ online[d] /\ mount[d] # 0 =>
          owner[d] = mount[d] /\ Subscribed(up[d], Conn(d), listeners)
    /\ acked[d] # 0 => acked[d] = mount[d]

Heard == Watched /\ Wired /\ \A d \in Devices : Attended(d)

\* A status without a repository has no changes.
Proper(s) == s \in Status /\ (~s.repo => s.tree = 0)

\* Nothing that is, was or will be shown is newer than s; what is being
\* fetched will not be older.
Behind(s) ==
    s # None =>
        /\ Proper(s) /\ NotOlder(s, disk)
        /\ cached # None => NotOlder(s, cached)
        /\ \A i \in FetchIds :
              fetches[i].phase = "reading" => s.head <= fetches[i].head /\ (s.repo => fetches[i].repo)

\* One fetch at a time, and it read what the repository was.
OneFetch ==
    /\ fetches \in [FetchIds -> Fetches]
    /\ inFlight \in FetchIds \cup {0}
    /\ \A i \in FetchIds :
          /\ fetches[i].phase = "idle" => fetches[i] = Idle
          /\ fetches[i].phase = "idle" <=> inFlight # i
          /\ fetches[i].phase = "reading" =>
                fetches[i].head <= disk.head /\ (fetches[i].repo => disk.repo)

Tells(frame) == frame.type # "subscribeGitStatus.response"

\* What is on the way to a bar is not older than what it shows, nor than
\* what comes before it.
InTurn(shown, q) ==
    /\ \A i \in DOMAIN q : Tells(q[i]) => NotOlder(shown, q[i].status)
    /\ \A i, j \in DOMAIN q :
          i < j /\ Tells(q[i]) /\ Tells(q[j]) => NotOlder(q[i].status, q[j].status)
AllBehind(q) == \A i \in DOMAIN q : Tells(q[i]) => q[i].status # None /\ Behind(q[i].status)

Read ==
    /\ Proper(disk) /\ (~disk.repo => disk.head = 0)
    /\ OneFetch /\ Behind(cached) /\ cached \in Status \cup {None}
Dated ==
    /\ Read
    /\ down \in [Devices -> Seq(GitFrames)] /\ data \in [Devices -> Status \cup {None}]
    /\ \A d \in Devices : Behind(data[d]) /\ AllBehind(down[d]) /\ InTurn(data[d], down[d])

-----------------------------------------------------------------------------
(* Requests on their way to the daemon.                                    *)

LEMMA RequestIs ==
    ASSUME NEW type \in {"getGitStatus", "subscribeGitStatus", "unsubscribeGitStatus"}, NEW n \in Nat
    PROVE  Request(type, n) \in Requests /\ Request(type, n).type = type
  BY DEF Request, Requests

LEMMA StillSubscribed ==
    ASSUME NEW q \in Seq(Requests), NEW r \in Requests, r.type = "getGitStatus",
           NEW c, NEW there, Subscribed(q, c, there)
    PROVE  Subscribed(Append(q, r), c, there)
  <1>1. PICK n \in Nat : n = Len(q) /\ DOMAIN q = 1 .. n
    <2>1. Len(q) \in Nat /\ DOMAIN q = 1 .. Len(q)
      OBVIOUS
    <2> QED BY <2>1
  <1>2. PICK longer : longer = Append(q, r)
    OBVIOUS
  <1>3. /\ DOMAIN longer = 1 .. n + 1 /\ longer[n + 1] = r
        /\ \A i \in 1 .. n : longer[i] = q[i]
    BY <1>1, <1>2
  <1>4. CASE c \in there /\ \A i \in DOMAIN q : q[i].type = "getGitStatus"
    <2>1. \A i \in DOMAIN longer : longer[i].type = "getGitStatus"
      BY <1>1, <1>3, <1>4
    <2> QED BY <1>2, <1>4, <2>1 DEF Subscribed
  <1>5. ASSUME NEW i \in DOMAIN q, q[i].type = "subscribeGitStatus",
               \A j \in DOMAIN q : j > i => q[j].type = "getGitStatus"
        PROVE  Subscribed(longer, c, there)
    <2>1. i \in DOMAIN longer /\ longer[i].type = "subscribeGitStatus"
      BY <1>1, <1>3, <1>5
    <2>2. \A j \in DOMAIN longer : j > i => longer[j].type = "getGitStatus"
      BY <1>1, <1>3, <1>5
    <2> QED BY <2>1, <2>2 DEF Subscribed
  <1> QED BY <1>2, <1>4, <1>5 DEF Subscribed

LEMMA NowSubscribed ==
    ASSUME NEW q \in Seq(Requests), NEW r \in Requests, r.type = "subscribeGitStatus",
           NEW c, NEW there
    PROVE  Subscribed(Append(q, r), c, there)
  <1>1. PICK n \in Nat : n = Len(q) /\ DOMAIN q = 1 .. n
    <2>1. Len(q) \in Nat /\ DOMAIN q = 1 .. Len(q)
      OBVIOUS
    <2> QED BY <2>1
  <1>2. PICK longer : longer = Append(q, r)
    OBVIOUS
  <1>3. DOMAIN longer = 1 .. n + 1 /\ longer[n + 1] = r
    BY <1>1, <1>2
  <1>4. n + 1 \in DOMAIN longer /\ \A j \in DOMAIN longer : ~(j > n + 1)
    BY <1>3
  <1> QED BY <1>2, <1>3, <1>4 DEF Subscribed

\* The daemon takes a request: what it does about it is what was promised.
LEMMA TakenSubscribed ==
    ASSUME NEW q \in Seq(Requests), q # <<>>, NEW c, NEW there, Subscribed(q, c, there),
           NEW now,
           Head(q).type = "getGitStatus" => (c \in now <=> c \in there),
           Head(q).type = "subscribeGitStatus" => c \in now
    PROVE  Subscribed(Tail(q), c, now)
  <1>1. PICK n \in Nat : n = Len(q) /\ DOMAIN q = 1 .. n /\ n > 0
    <2>1. Len(q) \in Nat /\ DOMAIN q = 1 .. Len(q) /\ Len(q) > 0
      OBVIOUS
    <2> QED BY <2>1
  <1>2. PICK rest : rest = Tail(q)
    OBVIOUS
  <1>3. /\ DOMAIN rest = 1 .. n - 1 /\ Head(q) = q[1]
        /\ \A i \in 1 .. n - 1 : rest[i] = q[i + 1]
    BY <1>1, <1>2
  <1>4. CASE c \in there /\ \A i \in DOMAIN q : q[i].type = "getGitStatus"
    <2>1. \A i \in DOMAIN rest : rest[i].type = "getGitStatus"
      BY <1>1, <1>3, <1>4
    <2>2. 1 \in DOMAIN q /\ Head(q) = q[1]
      BY <1>1, <1>3
    <2>3. c \in now
      BY <1>4, <2>2
    <2> QED BY <1>2, <2>1, <2>3 DEF Subscribed
  <1>5. ASSUME NEW i \in DOMAIN q, q[i].type = "subscribeGitStatus",
               \A j \in DOMAIN q : j > i => q[j].type = "getGitStatus"
        PROVE  Subscribed(rest, c, now)
    <2>1. CASE i = 1
      <3>1. \A j \in DOMAIN rest : rest[j].type = "getGitStatus"
        BY <1>1, <1>3, <1>5, <2>1
      <3>2. c \in now
        BY <1>3, <1>5, <2>1
      <3> QED BY <3>1, <3>2 DEF Subscribed
    <2>2. CASE i # 1
      <3>1. i - 1 \in DOMAIN rest /\ rest[i - 1].type = "subscribeGitStatus"
        BY <1>1, <1>3, <1>5, <2>2
      <3>2. \A j \in DOMAIN rest : j > i - 1 => rest[j].type = "getGitStatus"
        BY <1>1, <1>3, <1>5, <2>2
      <3> QED BY <3>1, <3>2 DEF Subscribed
    <2> QED BY <2>1, <2>2
  <1> QED BY <1>2, <1>4, <1>5 DEF Subscribed

LEMMA RegisteredSo ==
    ASSUME NEW d \in Devices, up[d] \in Seq(Requests), Subscribed(up[d], Conn(d), listeners)
    PROVE  Registered(d)
  <1>1. PICK q \in Seq(Requests) : q = up[d]
    OBVIOUS
  <1>2. PICK last : last = {i \in DOMAIN q : q[i].type # "getGitStatus"}
    OBVIOUS
  <1>3. Registered(d) <=>
          IF last = {} THEN Conn(d) \in listeners
          ELSE q[CHOOSE i \in last : \A j \in last : j <= i].type = "subscribeGitStatus"
    BY <1>1, <1>2 DEF Registered
  <1>4. CASE (Conn(d) \in listeners) /\ \A i \in DOMAIN q : q[i].type = "getGitStatus"
    BY <1>2, <1>3, <1>4
  <1>5. ASSUME NEW i \in DOMAIN q, q[i].type = "subscribeGitStatus",
               \A j \in DOMAIN q : j > i => q[j].type = "getGitStatus"
        PROVE  Registered(d)
    <2>1. DOMAIN q \subseteq Nat
      OBVIOUS
    <2>2. i \in last /\ \A j \in last : j <= i
      BY <1>2, <1>5, <2>1
    <2>3. \A k \in last : (\A j \in last : j <= k) => k = i
      BY <1>2, <2>1, <2>2
    <2>4. PICK k : k = CHOOSE m \in last : \A j \in last : j <= m
      OBVIOUS
    <2>5. k \in last /\ \A j \in last : j <= k
      BY <2>2, <2>4
    <2>6. k = i
      BY <2>3, <2>5
    <2> QED BY <1>3, <1>5, <2>2, <2>4, <2>6
  <1> QED BY <1>1, <1>4, <1>5 DEF Subscribed

-----------------------------------------------------------------------------
(* The watcher is watched, and every bar attended to.                      *)

LEMMA HeardFirst == WatchInit => Heard
  <1> SUFFICES ASSUME WatchInit PROVE Heard
    OBVIOUS
  <1>1. Watched
    <2>1. open \subseteq Devices \X Nat /\ listeners = {} /\ ~handles /\ ~healing /\ ~debounce
      BY DEF WatchInit
    <2>2. disk \in [repo : BOOLEAN, head : Nat, tree : Nat]
      BY DEF WatchInit
    <2>3. {handles, healing, debounce} \subseteq BOOLEAN
      BY DEF WatchInit
    <2> QED BY <2>1, <2>2, <2>3 DEF Watched
  <1>2. Wired
    BY DEF WatchInit, Wired, Conn
  <1>3. \A d \in Devices : Attended(d)
    BY DEF WatchInit, Attended
  <1> QED BY <1>1, <1>2, <1>3 DEF Heard

\* What happens elsewhere does not take a bar's attention away.
LEMMA AttendedStill ==
    ASSUME NEW d \in Devices, Attended(d),
           online'[d] = online[d], mount'[d] = mount[d], owner'[d] = owner[d],
           acked'[d] = acked[d], up'[d] = up[d], epoch'[d] = epoch[d],
           online[d] /\ Conn(d) \in listeners => Conn(d) \in listeners'
    PROVE  Attended(d)'
  <1>1. PICK c : c = Conn(d)
    OBVIOUS
  <1>2. Conn(d)' = c
    BY <1>1 DEF Conn
  <1>3. online[d] /\ Subscribed(up[d], c, listeners) => Subscribed(up[d], c, listeners')
    BY <1>1 DEF Subscribed
  <1>4. Attended(d)' <=>
          /\ online'[d] /\ mount'[d] # 0 => owner'[d] = mount'[d] /\ Subscribed(up'[d], c, listeners')
          /\ acked'[d] # 0 => acked'[d] = mount'[d]
    BY <1>2 DEF Attended
  <1>5. /\ online[d] /\ mount[d] # 0 => owner[d] = mount[d] /\ Subscribed(up[d], c, listeners)
        /\ acked[d] # 0 => acked[d] = mount[d]
    BY <1>1 DEF Attended
  <1> QED BY <1>3, <1>4, <1>5

\* The steps that leave the wires, the connections and the bars as they are.
LEMMA HeardAside ==
    ASSUME Heard, UNCHANGED <<open, epoch, online, up, runs, mount, owner, acked>>, listeners' = listeners,
           Watched'
    PROVE  Heard'
  <1>1. \A d \in Devices : Attended(d)'
    BY AttendedStill DEF Heard
  <1>2. Wired'
    BY DEF Heard, Wired, Conn
  <1> QED BY <1>1, <1>2 DEF Heard

LEMMA HeardWatcher ==
    ASSUME Heard,
           \/ FetchSteps \/ DebounceFires \/ SelfHeal
           \/ EditTree \/ MoveHead \/ GitInit
    PROVE  Heard'
  <1>0. disk' \in [repo : BOOLEAN, head : Nat, tree : Nat]
    <2>1. PICK r \in BOOLEAN, h \in Nat, t \in Nat : disk = [repo |-> r, head |-> h, tree |-> t]
      BY DEF Heard, Watched
    <2>2. \/ disk' = disk
          \/ disk' = [disk EXCEPT !.tree = @ + 1]
          \/ disk' = [disk EXCEPT !.head = @ + 1]
          \/ disk' = [disk EXCEPT !.repo = TRUE]
      BY DEF FetchSteps, FetchBegins, FetchSettles, DebounceFires, SelfHeal,
             EditTree, MoveHead, GitInit
    <2>3. CASE disk' = disk
      BY <2>3 DEF Heard, Watched
    <2>4. CASE disk' = [disk EXCEPT !.tree = @ + 1]
      BY <2>1, <2>4
    <2>5. CASE disk' = [disk EXCEPT !.head = @ + 1]
      BY <2>1, <2>5
    <2>6. CASE disk' = [disk EXCEPT !.repo = TRUE]
      BY <2>1, <2>6
    <2> QED BY <2>2, <2>3, <2>4, <2>5, <2>6
  <1>1. /\ UNCHANGED <<handles, healing, listeners, open, epoch, online, up, runs, mount, owner, acked>>
        /\ debounce' \in {debounce, FALSE, debounce \/ handles}
    BY DEF FetchSteps, FetchBegins, FetchSettles, DebounceFires, SelfHeal,
           EditTree, MoveHead, GitInit, watcher, client, wires
  <1>2. Watched'
    BY <1>0, <1>1 DEF Heard, Watched
  <1> QED BY <1>1, <1>2, HeardAside

\* The loss of a listener.
LEMMA StopsWatching ==
    ASSUME Watched, NEW left, left \subseteq listeners, left \subseteq open', open' \subseteq open, disk' = disk,
           StopWatching(left)
    PROVE  Watched'
  BY DEF Watched, StopWatching

LEMMA HeardClosing ==
    ASSUME Heard, Closing
    PROVE  Heard'
  <1>1. PICK c \in open : NoticeClose(c)
    BY DEF Closing
  <1>2. PICK left : left = listeners \ {c}
    OBVIOUS
  <1>3. /\ ~(online[c[1]] /\ c = Conn(c[1]))
        /\ open' = open \ {c} /\ StopWatching(left) /\ listeners' = left
        /\ UNCHANGED <<disk, epoch, online, up, runs, mount, owner, acked>>
    BY <1>1, <1>2 DEF NoticeClose, StopWatching, client
  <1>4. Watched'
    BY <1>2, <1>3, StopsWatching DEF Heard, Watched
  <1>5. \A d \in Devices : online[d] => Conn(d) # c
    BY <1>3 DEF Conn
  <1>6. \A d \in Devices : Conn(d)' = Conn(d)
    BY <1>3 DEF Conn
  <1>7. Wired'
    BY <1>3, <1>5, <1>6 DEF Heard, Wired
  <1>8. \A d \in Devices : Attended(d)'
    BY <1>2, <1>3, <1>5, AttendedStill DEF Heard
  <1> QED BY <1>4, <1>7, <1>8 DEF Heard

\* What the daemon does about a request of a device: the queue is one
\* shorter, and the listeners of others stay.
LEMMA HeardTaken ==
    ASSUME Heard, NEW d \in Devices, online[d], up[d] # <<>>, up' = [up EXCEPT ![d] = Tail(@)],
           UNCHANGED <<open, epoch, online, runs, mount, owner, acked>>,
           Watched',
           \A c : c # Conn(d) => (c \in listeners' <=> c \in listeners),
           Head(up[d]).type = "getGitStatus" => (Conn(d) \in listeners' <=> Conn(d) \in listeners),
           Head(up[d]).type = "subscribeGitStatus" => Conn(d) \in listeners'
    PROVE  Heard'
  <1>1. up[d] \in Seq(Requests)
    BY DEF Heard, Wired
  <1>2. Tail(up[d]) \in Seq(Requests)
    BY <1>1
  <1>3. \A e \in Devices : Conn(e)' = Conn(e)
    BY DEF Conn
  <1>4. Wired'
    BY <1>2, <1>3 DEF Heard, Wired
  <1>5. ASSUME NEW e \in Devices, e # d PROVE Attended(e)'
    <2>1. Conn(e) # Conn(d) /\ up'[e] = up[e]
      BY <1>5 DEF Conn, Heard, Wired
    <2> QED BY <1>5, <2>1, AttendedStill DEF Heard
  <1>6. Attended(d)'
    <2>1. PICK q \in Seq(Requests) : q = up[d]
      BY <1>1
    <2>2. PICK c : c = Conn(d)
      OBVIOUS
    <2>6. Subscribed(q, c, listeners) => Subscribed(Tail(q), c, listeners')
      BY <2>1, <2>2, TakenSubscribed
    <2>7. up'[d] = Tail(q)
      BY <2>1 DEF Heard, Wired
    <2>8. /\ online[d] /\ mount[d] # 0 => owner[d] = mount[d] /\ Subscribed(q, c, listeners)
          /\ acked[d] # 0 => acked[d] = mount[d]
      BY <2>1, <2>2 DEF Heard, Attended
    <2>9. Attended(d)' <=>
            /\ online'[d] /\ mount'[d] # 0 => owner'[d] = mount'[d] /\ Subscribed(up'[d], c, listeners')
            /\ acked'[d] # 0 => acked'[d] = mount'[d]
      BY <1>3, <2>2 DEF Attended
    <2> QED BY <2>6, <2>7, <2>8, <2>9
  <1> QED BY <1>4, <1>5, <1>6 DEF Heard

LEMMA HeardHandle ==
    ASSUME Heard, NEW d \in Devices, Handle(d)
    PROVE  Heard'
  <1>1. CASE HandleGetStatus(d)
    <2>1. /\ online[d] /\ up[d] # <<>> /\ up' = [up EXCEPT ![d] = Tail(@)]
          /\ Head(up[d]).type = "getGitStatus"
          /\ UNCHANGED <<handles, healing, debounce, listeners>>
          /\ UNCHANGED <<disk, open, epoch, online, runs, mount, owner, acked>>
      BY <1>1 DEF HandleGetStatus, Take, client
    <2>2. Watched'
      BY <2>1 DEF Heard, Watched
    <2> QED BY <2>1, <2>2, HeardTaken
  <1>2. CASE HandleSubscribe(d)
    <2>1. PICK c : c = Conn(d)
      OBVIOUS
    <2>2. /\ online[d] /\ up[d] # <<>> /\ up' = [up EXCEPT ![d] = Tail(@)]
          /\ Head(up[d]).type = "subscribeGitStatus"
          /\ listeners' = (listeners \ {c}) \cup {c}
          /\ UNCHANGED <<disk, open, epoch, online, runs, mount, owner, acked>>
      BY <1>2, <2>1 DEF HandleSubscribe, Take, client
    <2>3. IF listeners \ {c} = {}
          THEN handles' = disk.repo /\ healing' = TRUE /\ debounce' = FALSE
          ELSE UNCHANGED <<handles, healing, debounce>>
      BY <1>2, <2>1 DEF HandleSubscribe
    <2>4. c \in open
      BY <2>1, <2>2 DEF Heard, Wired
    <2>5. Watched'
      BY <2>2, <2>3, <2>4 DEF Heard, Watched
    <2> QED BY <2>1, <2>2, <2>5, HeardTaken
  <1>3. CASE HandleUnsubscribe(d)
    <2>1. PICK left : left = listeners \ {Conn(d)}
      OBVIOUS
    <2>2. /\ online[d] /\ up[d] # <<>> /\ up' = [up EXCEPT ![d] = Tail(@)]
          /\ Head(up[d]).type = "unsubscribeGitStatus"
          /\ StopWatching(left) /\ listeners' = left
          /\ UNCHANGED <<disk, open, epoch, online, runs, mount, owner, acked>>
      BY <1>3, <2>1 DEF HandleUnsubscribe, Take, client, StopWatching
    <2>3. Watched'
      BY <2>1, <2>2, StopsWatching DEF Heard, Watched
    <2> QED BY <2>1, <2>2, <2>3, HeardTaken
  <1> QED BY <1>1, <1>2, <1>3 DEF Handle

\* What a bar does leaves the watcher and the other bars alone.
LEMMA HeardBar ==
    ASSUME Heard, NEW d \in Devices, UNCHANGED <<disk, handles, healing, debounce, listeners>>,
           open \subseteq open', open' \subseteq Devices \X Nat, Wired', Attended(d)',
           \A e \in Devices \ {d} :
               /\ online'[e] = online[e] /\ mount'[e] = mount[e] /\ owner'[e] = owner[e]
               /\ acked'[e] = acked[e] /\ up'[e] = up[e] /\ epoch'[e] = epoch[e]
    PROVE  Heard'
  <1>1. Watched'
    BY DEF Heard, Watched
  <1>2. \A e \in Devices \ {d} : Attended(e)'
    BY AttendedStill DEF Heard
  <1> QED BY <1>1, <1>2 DEF Heard

\* The effect: the callback slot is its own, and its subscribe is sent last.
LEMMA Enabled ==
    ASSUME Heard, NEW d \in Devices, NEW sent \in Seq(Requests), Enable(d, sent)
    PROVE  \E n \in Nat \ {0}, q \in Seq(Requests) :
               /\ runs' = [runs EXCEPT ![d] = n] /\ mount' = [mount EXCEPT ![d] = n]
               /\ owner' = [owner EXCEPT ![d] = n] /\ acked' = [acked EXCEPT ![d] = 0]
               /\ up' = [up EXCEPT ![d] = q]
               /\ \A c, there : Subscribed(q, c, there)
  <1>1. PICK n : n = runs[d] + 1
    OBVIOUS
  <1>2. n \in Nat \ {0}
    BY <1>1 DEF Heard, Wired
  <1>3. PICK asking \in {<<>>, <<Request("getGitStatus", 0)>>} :
          /\ runs' = [runs EXCEPT ![d] = n] /\ mount' = [mount EXCEPT ![d] = n]
          /\ owner' = [owner EXCEPT ![d] = n] /\ acked' = [acked EXCEPT ![d] = 0]
          /\ up' = [up EXCEPT ![d] = sent \o asking \o <<Request("subscribeGitStatus", n)>>]
    BY <1>1 DEF Enable
  <1>4. PICK r \in Requests : r = Request("subscribeGitStatus", n) /\ r.type = "subscribeGitStatus"
    BY <1>2, RequestIs
  <1>5. asking \in Seq(Requests)
    <2>1. PICK a \in Requests : a = Request("getGitStatus", 0)
      BY RequestIs
    <2>2. <<>> \in Seq(Requests) /\ <<a>> \in Seq(Requests)
      OBVIOUS
    <2> QED BY <2>1, <2>2
  <1>6. PICK before \in Seq(Requests) : before = sent \o asking
    <2>1. sent \o asking \in Seq(Requests)
      BY <1>5
    <2> QED BY <2>1
  <1>7. before \o <<r>> = Append(before, r) /\ Append(before, r) \in Seq(Requests)
    OBVIOUS
  <1>8. \A c, there : Subscribed(Append(before, r), c, there)
    BY <1>4, NowSubscribed
  <1> QED BY <1>2, <1>3, <1>4, <1>6, <1>7, <1>8

LEMMA HeardMount ==
    ASSUME Heard, NEW d \in Devices, Mount(d)
    PROVE  Heard'
  <1>1. up[d] \in Seq(Requests)
    BY DEF Heard, Wired
  <1>2. Enable(d, up[d]) /\ UNCHANGED <<disk, handles, healing, debounce, listeners, open, epoch, online>>
    BY DEF Mount, watcher
  <1>3. PICK n \in Nat \ {0}, q \in Seq(Requests) :
               /\ runs' = [runs EXCEPT ![d] = n] /\ mount' = [mount EXCEPT ![d] = n]
               /\ owner' = [owner EXCEPT ![d] = n] /\ acked' = [acked EXCEPT ![d] = 0]
               /\ up' = [up EXCEPT ![d] = q]
               /\ \A c, there : Subscribed(q, c, there)
    BY <1>1, <1>2, Enabled
  <1>4. Wired'
    BY <1>2, <1>3 DEF Heard, Wired, Conn
  <1>5. mount'[d] = n /\ owner'[d] = n /\ acked'[d] = 0 /\ up'[d] = q
    BY <1>3 DEF Heard, Wired
  <1>6. Attended(d)'
    BY <1>3, <1>5 DEF Attended
  <1>7. open' \subseteq Devices \X Nat
    BY <1>2 DEF Heard, Watched
  <1> QED BY <1>2, <1>3, <1>4, <1>6, <1>7, HeardBar DEF Heard, Wired

LEMMA HeardReconnect ==
    ASSUME Heard, NEW d \in Devices, Reconnect(d)
    PROVE  Heard'
  <1>1. Held(d) \in Seq(Requests)
    BY RequestIs DEF Held
  <1>2. /\ online' = [online EXCEPT ![d] = TRUE] /\ epoch' = [epoch EXCEPT ![d] = @ + 1]
        /\ open' = open \cup {<<d, epoch[d] + 1>>}
        /\ UNCHANGED <<disk, handles, healing, debounce, listeners>>
    BY DEF Reconnect, watcher
  <1>3. epoch' \in [Devices -> Nat] /\ epoch'[d] = epoch[d] + 1 /\ online' \in [Devices -> BOOLEAN]
    BY <1>2 DEF Heard, Wired
  <1>4. open' \subseteq Devices \X Nat /\ open \subseteq open'
    BY <1>2, <1>3 DEF Heard, Watched
  <1>5. \A e \in Devices : online'[e] => Conn(e)' \in open'
    <2> SUFFICES ASSUME NEW e \in Devices, online'[e] PROVE <<e, epoch'[e]>> \in open'
      BY DEF Conn
    <2>1. CASE e = d
      BY <1>2, <1>3, <2>1
    <2>2. CASE e # d
      BY <1>2, <1>4, <2>2 DEF Heard, Wired, Conn
    <2> QED BY <2>1, <2>2
  <1>6. CASE mount[d] # 0
    <2>1. PICK n \in Nat \ {0}, q \in Seq(Requests) :
               /\ runs' = [runs EXCEPT ![d] = n] /\ mount' = [mount EXCEPT ![d] = n]
               /\ owner' = [owner EXCEPT ![d] = n] /\ acked' = [acked EXCEPT ![d] = 0]
               /\ up' = [up EXCEPT ![d] = q]
               /\ \A c, there : Subscribed(q, c, there)
      <3>1. Enable(d, Held(d))
        BY <1>6 DEF Reconnect
      <3> QED BY <1>1, <3>1, Enabled
    <2>2. Wired'
      BY <1>3, <1>5, <2>1 DEF Heard, Wired
    <2>3. mount'[d] = n /\ owner'[d] = n /\ acked'[d] = 0 /\ up'[d] = q
      BY <2>1 DEF Heard, Wired
    <2>4. Attended(d)'
      BY <2>1, <2>3 DEF Attended
    <2> QED BY <1>2, <1>4, <2>1, <2>2, <2>4, HeardBar DEF Heard, Wired
  <1>7. CASE mount[d] = 0
    <2>1. UNCHANGED <<runs, mount, owner, acked>> /\ up' = [up EXCEPT ![d] = Held(d)]
      BY <1>7 DEF Reconnect
    <2>2. Wired'
      BY <1>1, <1>3, <1>5, <2>1 DEF Heard, Wired
    <2>3. Attended(d)'
      BY <1>7, <2>1 DEF Heard, Attended
    <2> QED BY <1>2, <1>4, <2>1, <2>2, <2>3, HeardBar DEF Heard, Wired
  <1> QED BY <1>6, <1>7

\* A release is a request more on the wire, of one who holds the slot.
LEMMA Released ==
    ASSUME Heard, NEW d \in Devices, NEW n \in Nat, Release(d, n)
    PROVE  \/ UNCHANGED <<owner, up>> /\ owner[d] # n
           \/ /\ owner[d] = n /\ owner' = [owner EXCEPT ![d] = 0]
              /\ \E q \in Seq(Requests) : up' = [up EXCEPT ![d] = q]
  <1>1. PICK r \in Requests : r = Request("unsubscribeGitStatus", n)
    BY RequestIs
  <1>2. Append(up[d], r) \in Seq(Requests)
    BY DEF Heard, Wired
  <1> QED BY <1>1, <1>2 DEF Release, Owns

LEMMA HeardUnmount ==
    ASSUME Heard, NEW d \in Devices, Unmount(d)
    PROVE  Heard'
  <1>1. /\ UNCHANGED <<disk, handles, healing, debounce, listeners, open, epoch, online, runs>>
        /\ mount' = [mount EXCEPT ![d] = 0] /\ acked' = [acked EXCEPT ![d] = 0]
    BY DEF Unmount, watcher
  <1>2. /\ owner' = owner \/ owner' = [owner EXCEPT ![d] = 0]
        /\ \E q \in Seq(Requests) : up' = [up EXCEPT ![d] = q]
    <2>1. CASE acked[d] # 0
      <3>1. acked[d] \in Nat /\ Release(d, acked[d])
        BY <2>1 DEF Unmount, Heard, Wired
      <3>2. up[d] \in Seq(Requests) /\ up = [up EXCEPT ![d] = up[d]]
        BY DEF Heard, Wired
      <3> QED BY <3>1, <3>2, Released
    <2>2. CASE acked[d] = 0
      <3>1. up[d] \in Seq(Requests) /\ up = [up EXCEPT ![d] = up[d]]
        BY DEF Heard, Wired
      <3> QED BY <2>2, <3>1 DEF Unmount
    <2> QED BY <2>1, <2>2
  <1>3. Wired'
    BY <1>1, <1>2 DEF Heard, Wired, Conn
  <1>4. Attended(d)'
    BY <1>1 DEF Heard, Wired, Attended
  <1>5. open' \subseteq Devices \X Nat
    BY <1>1 DEF Heard, Watched
  <1> QED BY <1>1, <1>2, <1>3, <1>4, <1>5, HeardBar DEF Heard, Wired

LEMMA HeardDrop ==
    ASSUME Heard, NEW d \in Devices, Drop(d)
    PROVE  Heard'
  <1>1. /\ UNCHANGED <<disk, handles, healing, debounce, listeners, open, epoch, runs, mount>>
        /\ online' = [online EXCEPT ![d] = FALSE] /\ up' = [up EXCEPT ![d] = <<>>]
        /\ owner' = [owner EXCEPT ![d] = 0] /\ acked' = [acked EXCEPT ![d] = 0]
    BY DEF Drop, watcher
  <1>2. Wired'
    BY <1>1 DEF Heard, Wired, Conn
  <1>3. online'[d] = FALSE /\ acked'[d] = 0
    BY <1>1 DEF Heard, Wired
  <1>4. Attended(d)'
    BY <1>3 DEF Attended
  <1>5. open' \subseteq Devices \X Nat
    BY <1>1 DEF Heard, Watched
  <1> QED BY <1>1, <1>2, <1>4, <1>5, HeardBar DEF Heard, Wired

LEMMA HeardRetry ==
    ASSUME Heard, NEW d \in Devices, RetryQuery(d)
    PROVE  Heard'
  <1>1. PICK r \in Requests : r = Request("getGitStatus", 0) /\ r.type = "getGitStatus"
    BY RequestIs
  <1>2. /\ UNCHANGED <<disk, handles, healing, debounce, listeners, open, epoch, online, runs, mount, owner, acked>>
        /\ up' = IF online[d] THEN [up EXCEPT ![d] = Append(@, r)] ELSE up
    BY <1>1 DEF RetryQuery, watcher
  <1>3. up[d] \in Seq(Requests) /\ Append(up[d], r) \in Seq(Requests)
    BY DEF Heard, Wired
  <1>4. Wired'
    BY <1>2, <1>3 DEF Heard, Wired, Conn
  <1>5. Attended(d)'
    <2>1. PICK c : c = Conn(d)
      OBVIOUS
    <2>2. Conn(d)' = c /\ (online[d] => up'[d] = Append(up[d], r))
      BY <1>2, <2>1 DEF Conn, Heard, Wired
    <2>3. Subscribed(up[d], c, listeners) => Subscribed(Append(up[d], r), c, listeners)
      BY <1>1, <1>3, StillSubscribed
    <2>4. /\ online[d] /\ mount[d] # 0 => owner[d] = mount[d] /\ Subscribed(up[d], c, listeners)
          /\ acked[d] # 0 => acked[d] = mount[d]
      BY <2>1 DEF Heard, Attended
    <2> QED BY <1>2, <2>2, <2>3, <2>4 DEF Attended
  <1>6. open' \subseteq Devices \X Nat
    BY <1>2 DEF Heard, Watched
  <1> QED BY <1>2, <1>4, <1>5, <1>6, HeardBar DEF Heard, Wired

\* A late answer does not take the slot from the bar that is mounted.
LEMMA HeardDeliver ==
    ASSUME Heard, NEW d \in Devices, Deliver(d), Head(down[d]).effect \in Nat
    PROVE  Heard'
  <1>1. PICK frame : frame = Head(down[d])
    OBVIOUS
  <1>2. /\ UNCHANGED <<disk, handles, healing, debounce, listeners, open, epoch, online, runs, mount>>
        /\ OnResponse(d, frame) \/ OnPush(d, frame) \/ OnAck(d, frame)
    BY <1>1 DEF Deliver, watcher
  <1>3. open' \subseteq Devices \X Nat
    BY <1>2 DEF Heard, Watched
  <1>4. CASE UNCHANGED <<owner, acked, up>>
    <2>1. Wired'
      BY <1>2, <1>4 DEF Heard, Wired, Conn
    <2>2. Attended(d)'
      BY <1>2, <1>4, AttendedStill DEF Heard
    <2> QED BY <1>2, <1>3, <1>4, <2>1, <2>2, HeardBar
  <1>5. CASE UNCHANGED <<owner, up>> /\ acked' = [acked EXCEPT ![d] = mount[d]]
    <2>1. Wired'
      BY <1>2, <1>5 DEF Heard, Wired, Conn
    <2>2. acked'[d] = mount[d] /\ Conn(d)' = Conn(d)
      BY <1>2, <1>5 DEF Heard, Wired, Conn
    <2>3. Attended(d)'
      BY <1>2, <1>5, <2>2 DEF Heard, Attended
    <2> QED BY <1>2, <1>3, <1>5, <2>1, <2>3, HeardBar DEF Heard, Wired
  <1>6. CASE frame.effect # mount[d] /\ Release(d, frame.effect) /\ acked' = acked
    <2>1. CASE UNCHANGED <<owner, up>>
      BY <1>4, <1>6, <2>1
    <2>2. CASE ~UNCHANGED <<owner, up>>
      <3>1. PICK q \in Seq(Requests) :
              /\ owner[d] = frame.effect /\ owner' = [owner EXCEPT ![d] = 0]
              /\ up' = [up EXCEPT ![d] = q]
        BY <1>1, <1>6, <2>2, Released
      <3>2. Wired'
        BY <1>2, <1>6, <3>1 DEF Heard, Wired, Conn
      <3>3. ~(online[d] /\ mount[d] # 0) /\ acked'[d] = acked[d] /\ (acked[d] # 0 => acked[d] = mount[d])
        BY <1>6, <3>1 DEF Heard, Attended
      <3>4. Attended(d)'
        BY <1>2, <3>3 DEF Attended
      <3> QED BY <1>2, <1>3, <1>6, <3>1, <3>2, <3>4, HeardBar DEF Heard, Wired
    <2> QED BY <2>1, <2>2
  <1>7. \/ UNCHANGED <<owner, acked, up>>
        \/ UNCHANGED <<owner, up>> /\ acked' = [acked EXCEPT ![d] = mount[d]]
        \/ frame.effect # mount[d] /\ Release(d, frame.effect) /\ acked' = acked
    BY <1>2 DEF OnResponse, OnPush, OnAck
  <1> QED BY <1>4, <1>5, <1>6, <1>7

-----------------------------------------------------------------------------
(* Nothing is older than what came before it.                              *)

LEMMA StatusIs ==
    ASSUME NEW s, s \in Status
    PROVE  s.repo \in BOOLEAN /\ s.head \in 0..MaxEdits /\ s.tree \in 0..MaxEdits
  BY DEF Status

LEMMA NotOlderThan ==
    ASSUME NEW s, s \in Status \cup {None}, NEW t \in Status \cup {None},
           NEW u \in Status, NoStatusAssumption, MaxEdits \in Nat,
           NotOlder(s, t), NotOlder(t, u)
    PROVE  NotOlder(s, u)
  <1>1. CASE s = None
    BY <1>1 DEF NotOlder
  <1>2. CASE s # None
    <2>1. t # None /\ u # None
      BY <1>2 DEF NotOlder, NoStatusAssumption
    <2>2. s.head \in Nat /\ t.head \in Nat /\ u.head \in Nat /\ s.tree \in Nat /\ t.tree \in Nat /\ u.tree \in Nat
      BY <1>2, <2>1, StatusIs
    <2>3. s.head <= t.head /\ s.tree <= t.tree /\ (s.repo => t.repo)
      BY <1>2 DEF NotOlder
    <2>4. t.head <= u.head /\ t.tree <= u.tree /\ (t.repo => u.repo)
      BY <2>1 DEF NotOlder
    <2> QED BY <2>1, <2>2, <2>3, <2>4 DEF NotOlder
  <1> QED BY <1>1, <1>2

LEMMA SameAge ==
    ASSUME NEW s \in Status \cup {None}, NoStatusAssumption, MaxEdits \in Nat
    PROVE  NotOlder(s, s)
  <1>1. CASE s = None
    BY <1>1 DEF NotOlder
  <1>2. CASE s # None
    <2>1. s.head \in Nat /\ s.tree \in Nat
      BY <1>2, StatusIs
    <2> QED BY <1>2, <2>1 DEF NotOlder
  <1> QED BY <1>1, <1>2

\* A frame more on its way.
LEMMA Posted ==
    ASSUME NEW shown, NEW q \in Seq(GitFrames), InTurn(shown, q), NEW frame \in GitFrames,
           Tells(frame) =>
               /\ NotOlder(shown, frame.status)
               /\ \A i \in DOMAIN q : Tells(q[i]) => NotOlder(q[i].status, frame.status)
    PROVE  /\ Append(q, frame) \in Seq(GitFrames) /\ InTurn(shown, Append(q, frame))
           /\ \A i \in DOMAIN Append(q, frame) :
                 Append(q, frame)[i] = frame \/ \E j \in DOMAIN q : Append(q, frame)[i] = q[j]
  <1>1. PICK n \in Nat : n = Len(q) /\ DOMAIN q = 1 .. n
    <2>1. Len(q) \in Nat /\ DOMAIN q = 1 .. Len(q)
      OBVIOUS
    <2> QED BY <2>1
  <1>2. PICK longer \in Seq(GitFrames) : longer = Append(q, frame)
    <2>1. Append(q, frame) \in Seq(GitFrames)
      OBVIOUS
    <2> QED BY <2>1
  <1>3. /\ DOMAIN longer = 1 .. n + 1 /\ longer[n + 1] = frame
        /\ \A i \in 1 .. n : longer[i] = q[i]
    BY <1>1, <1>2
  <1>4. \A i \in DOMAIN longer : Tells(longer[i]) => NotOlder(shown, longer[i].status)
    <2> SUFFICES ASSUME NEW i \in DOMAIN longer, Tells(longer[i]) PROVE NotOlder(shown, longer[i].status)
      OBVIOUS
    <2>1. CASE i = n + 1
      BY <1>3, <2>1
    <2>2. CASE i # n + 1
      <3>1. i \in DOMAIN q /\ longer[i] = q[i]
        BY <1>1, <1>3, <2>2
      <3> QED BY <3>1 DEF InTurn
    <2> QED BY <2>1, <2>2
  <1>5. \A i, j \in DOMAIN longer :
          i < j /\ Tells(longer[i]) /\ Tells(longer[j]) => NotOlder(longer[i].status, longer[j].status)
    <2> SUFFICES ASSUME NEW i \in DOMAIN longer, NEW j \in DOMAIN longer, i < j,
                        Tells(longer[i]), Tells(longer[j])
                 PROVE  NotOlder(longer[i].status, longer[j].status)
      OBVIOUS
    <2>1. i \in DOMAIN q /\ longer[i] = q[i]
      BY <1>1, <1>3
    <2>2. CASE j = n + 1
      BY <1>3, <2>1, <2>2
    <2>3. CASE j # n + 1
      <3>1. j \in DOMAIN q /\ longer[j] = q[j]
        BY <1>1, <1>3, <2>3
      <3> QED BY <2>1, <3>1 DEF InTurn
    <2> QED BY <2>2, <2>3
  <1>6. \A i \in DOMAIN longer : longer[i] = frame \/ \E j \in DOMAIN q : longer[i] = q[j]
    BY <1>1, <1>3
  <1> QED BY <1>2, <1>4, <1>5, <1>6 DEF InTurn

\* The first frame is taken, and shown if it tells anything.
LEMMA TakenInTurn ==
    ASSUME NEW shown, NEW q \in Seq(GitFrames), q # <<>>, InTurn(shown, q), NEW next,
           next = shown \/ (Tells(Head(q)) /\ next = Head(q).status)
    PROVE  /\ Tail(q) \in Seq(GitFrames) /\ InTurn(next, Tail(q))
           /\ \A i \in DOMAIN Tail(q) : \E j \in DOMAIN q : Tail(q)[i] = q[j]
           /\ Head(q) \in GitFrames /\ 1 \in DOMAIN q /\ Head(q) = q[1]
           /\ Tells(Head(q)) => NotOlder(shown, Head(q).status)
  <1>1. PICK n \in Nat : n = Len(q) /\ DOMAIN q = 1 .. n /\ n > 0
    <2>1. Len(q) \in Nat /\ DOMAIN q = 1 .. Len(q) /\ Len(q) > 0
      OBVIOUS
    <2> QED BY <2>1
  <1>2. PICK rest \in Seq(GitFrames) : rest = Tail(q)
    <2>1. Tail(q) \in Seq(GitFrames)
      OBVIOUS
    <2> QED BY <2>1
  <1>3. /\ DOMAIN rest = 1 .. n - 1 /\ Head(q) = q[1] /\ 1 \in DOMAIN q
        /\ \A i \in 1 .. n - 1 : rest[i] = q[i + 1] /\ i + 1 \in DOMAIN q /\ 1 < i + 1
    BY <1>1, <1>2
  <1>4. \A i \in DOMAIN rest : Tells(rest[i]) => NotOlder(next, rest[i].status)
    <2> SUFFICES ASSUME NEW i \in DOMAIN rest, Tells(rest[i]) PROVE NotOlder(next, rest[i].status)
      OBVIOUS
    <2>1. rest[i] = q[i + 1] /\ i + 1 \in DOMAIN q /\ 1 < i + 1
      BY <1>3
    <2> QED BY <1>3, <2>1 DEF InTurn
  <1>5. \A i, j \in DOMAIN rest :
          i < j /\ Tells(rest[i]) /\ Tells(rest[j]) => NotOlder(rest[i].status, rest[j].status)
    <2> SUFFICES ASSUME NEW i \in DOMAIN rest, NEW j \in DOMAIN rest, i < j,
                        Tells(rest[i]), Tells(rest[j])
                 PROVE  NotOlder(rest[i].status, rest[j].status)
      OBVIOUS
    <2>1. /\ rest[i] = q[i + 1] /\ i + 1 \in DOMAIN q /\ rest[j] = q[j + 1] /\ j + 1 \in DOMAIN q
          /\ i + 1 < j + 1
      BY <1>3
    <2> QED BY <2>1 DEF InTurn
  <1>6. \A i \in DOMAIN rest : \E j \in DOMAIN q : rest[i] = q[j]
    BY <1>3
  <1>7. Head(q) \in GitFrames /\ (Tells(Head(q)) => NotOlder(shown, Head(q).status))
    BY <1>1, <1>3 DEF InTurn
  <1> QED BY <1>2, <1>3, <1>4, <1>5, <1>6, <1>7 DEF InTurn

LEMMA BehindStill ==
    ASSUME NEW s, Behind(s), disk' = disk, cached' = cached \/ cached' = None,
           \A i \in FetchIds :
               fetches'[i].phase = "reading" =>
                   \/ fetches'[i] = fetches[i]
                   \/ /\ fetches[i].phase = "reading" /\ fetches'[i].head = fetches[i].head
                      /\ fetches'[i].repo = fetches[i].repo
    PROVE  Behind(s)'
  <1> SUFFICES ASSUME s # None PROVE Behind(s)'
    BY DEF Behind
  <1>1. Proper(s) /\ NotOlder(s, disk)' /\ (cached # None => NotOlder(s, cached))
    BY DEF Behind, NotOlder
  <1>2. cached' # None => NotOlder(s, cached)'
    BY <1>1 DEF NotOlder
  <1>3. ASSUME NEW i \in FetchIds, fetches'[i].phase = "reading"
        PROVE  s.head <= fetches'[i].head /\ (s.repo => fetches'[i].repo)
    BY <1>3 DEF Behind
  <1> QED BY <1>1, <1>2, <1>3 DEF Behind, Proper, Status

\* The steps that leave the queues and what is shown as they are.
LEMMA DatedAside ==
    ASSUME Dated, UNCHANGED <<down, data>>, Read', \A s : Behind(s) => Behind(s)'
    PROVE  Dated'
  <1>1. \A d \in Devices : AllBehind(down[d])'
    BY DEF Dated, AllBehind
  <1>2. \A d \in Devices : Behind(data[d])'
    BY DEF Dated
  <1> QED BY <1>1, <1>2 DEF Dated

\* The repository gets newer.
LEMMA DatedEdit ==
    ASSUME Dated, MaxEdits \in Nat, NoStatusAssumption,
           EditTree \/ MoveHead \/ GitInit
    PROVE  Dated'
  <1>1. PICK r \in BOOLEAN, h \in 0..MaxEdits, t \in 0..MaxEdits :
          disk = [repo |-> r, head |-> h, tree |-> t]
    BY DEF Dated, Read, Proper, Status
  <1>2. PICK r2 \in BOOLEAN, h2 \in 0..MaxEdits, t2 \in 0..MaxEdits :
          /\ disk' = [repo |-> r2, head |-> h2, tree |-> t2]
          /\ h <= h2 /\ t <= t2 /\ (r => r2) /\ (~r2 => h2 = 0 /\ t2 = 0)
    <2>1. CASE EditTree
      <3>1. r /\ h + t < MaxEdits /\ disk' = [repo |-> r, head |-> h, tree |-> t + 1]
        BY <1>1, <2>1 DEF EditTree, Edits
      <3>2. t + 1 \in 0..MaxEdits /\ h <= h /\ t <= t + 1
        BY <3>1
      <3> QED BY <3>1, <3>2
    <2>2. CASE MoveHead
      <3>1. r /\ h + t < MaxEdits /\ disk' = [repo |-> r, head |-> h + 1, tree |-> t]
        BY <1>1, <2>2 DEF MoveHead, Edits
      <3>2. h + 1 \in 0..MaxEdits /\ h <= h + 1 /\ t <= t
        BY <3>1
      <3> QED BY <3>1, <3>2
    <2>3. CASE GitInit
      <3>1. disk' = [repo |-> TRUE, head |-> h, tree |-> t]
        BY <1>1, <2>3 DEF GitInit
      <3>2. TRUE \in BOOLEAN /\ h <= h /\ t <= t
        OBVIOUS
      <3> QED BY <3>1, <3>2
    <2> QED BY <2>1, <2>2, <2>3
  <1>3. UNCHANGED <<cached, fetches, inFlight, down, data>>
    BY DEF EditTree, MoveHead, GitInit, watcher, client, wires
  <1>4. disk' \in Status /\ disk \in Status
    BY <1>1, <1>2 DEF Status
  <1>5. NotOlder(disk, disk')
    BY <1>1, <1>2, <1>4 DEF NotOlder, NoStatusAssumption
  <1>6. ASSUME NEW s, Behind(s) PROVE Behind(s)'
    <2>1. CASE s = None
      BY <2>1 DEF Behind
    <2>2. CASE s # None
      <3>1. Proper(s) /\ NotOlder(s, disk)
        BY <1>6, <2>2 DEF Behind
      <3>2. NotOlder(s, disk')
        BY <1>4, <1>5, <3>1, NotOlderThan DEF Proper
      <3> QED BY <1>3, <1>6, <2>2, <3>1, <3>2 DEF Behind, Proper, NotOlder, Status
    <2> QED BY <2>1, <2>2
  <1>7. OneFetch'
    <2>1. \A i \in FetchIds : fetches[i] \in Fetches /\ fetches[i].head \in Nat
      BY DEF Dated, Read, OneFetch, Fetches
    <2>2. disk.head = h /\ disk'.head = h2 /\ disk.repo = r /\ disk'.repo = r2
      BY <1>1, <1>2
    <2>3. \A i \in FetchIds : fetches[i].phase = "reading" =>
              fetches[i].head <= disk'.head /\ (fetches[i].repo => disk'.repo)
      BY <1>2, <2>1, <2>2 DEF Dated, Read, OneFetch
    <2> QED BY <1>3, <2>3 DEF Dated, Read, OneFetch, FetchIds, Idle, Fetches
  <1>8. Read'
    <2>1. Proper(disk)' /\ (~disk'.repo => disk'.head = 0)
      BY <1>2, <1>4 DEF Proper, Status
    <2>2. Behind(cached)' /\ cached' \in (Status \cup {None})'
      BY <1>3, <1>6 DEF Dated, Read, Status
    <2> QED BY <1>7, <2>1, <2>2 DEF Read
  <1> QED BY <1>3, <1>6, <1>8, DatedAside

LEMMA DatedBegins ==
    ASSUME Dated, MaxEdits \in Nat, NEW i \in FetchIds, FetchBegins(i)
    PROVE  Dated'
  <1>1. /\ fetches[i].phase = "queued"
        /\ fetches' = [fetches EXCEPT ![i].phase = "reading", ![i].repo = disk.repo, ![i].head = disk.head]
        /\ UNCHANGED <<disk, cached, inFlight, down, data>>
    BY DEF FetchBegins, client, wires
  <1>2. PICK f \in Fetches : f = fetches[i] /\ fetches \in [FetchIds -> Fetches]
    BY DEF Dated, Read, OneFetch
  <1>3. PICK r \in BOOLEAN, h \in 0..MaxEdits, p \in BOOLEAN, a \in SUBSET (Devices \X Nat) :
          f = [phase |-> "queued", repo |-> r, head |-> h, push |-> p, asks |-> a]
    BY <1>1, <1>2 DEF Fetches
  <1>4. disk.repo \in BOOLEAN /\ disk.head \in 0..MaxEdits
    BY DEF Dated, Read, Proper, Status
  <1>5. PICK g \in Fetches :
          g = [phase |-> "reading", repo |-> disk.repo, head |-> disk.head, push |-> p, asks |-> a]
    BY <1>4 DEF Fetches
  <1>6. fetches' = [fetches EXCEPT ![i] = g]
    <2>1. [f EXCEPT !.phase = "reading", !.repo = disk.repo, !.head = disk.head] = g
      <3>1. PICK r2, h2 : r2 = disk.repo /\ h2 = disk.head
        OBVIOUS
      <3>2. [f EXCEPT !.phase = "reading", !.repo = r2, !.head = h2]
            = [phase |-> "reading", repo |-> r2, head |-> h2, push |-> p, asks |-> a]
        <4>1. PICK f1 : f1 = [f EXCEPT !.phase = "reading"]
          OBVIOUS
        <4>2. f1 = [phase |-> "reading", repo |-> r, head |-> h, push |-> p, asks |-> a]
          BY <1>3, <4>1
        <4>3. PICK f2 : f2 = [f1 EXCEPT !.repo = r2]
          OBVIOUS
        <4>4. f2 = [phase |-> "reading", repo |-> r2, head |-> h, push |-> p, asks |-> a]
          BY <4>2, <4>3
        <4>5. [f2 EXCEPT !.head = h2] = [phase |-> "reading", repo |-> r2, head |-> h2, push |-> p, asks |-> a]
          BY <4>4
        <4> QED BY <4>1, <4>3, <4>5, Zenon
      <3> QED BY <1>5, <3>1, <3>2
    <2>2. fetches' = [fetches EXCEPT ![i] = [f EXCEPT !.phase = "reading", !.repo = disk.repo, !.head = disk.head]]
      BY <1>1, <1>2
    <2> QED BY <2>1, <2>2
  <1>7. fetches'[i] = g /\ (\A j \in FetchIds \ {i} : fetches'[j] = fetches[j])
        /\ fetches' \in [FetchIds -> Fetches]
    BY <1>2, <1>6
  <1>8. OneFetch'
    <2>1. g.phase = "reading" /\ g.head = disk.head /\ g.repo = disk.repo /\ g.head <= disk.head
      BY <1>4, <1>5
    <2>2. \A j \in FetchIds : (fetches'[j].phase = "idle" <=> fetches[j].phase = "idle")
      BY <1>1, <1>7, <2>1
    <2>3. \A j \in FetchIds : fetches'[j].phase = "idle" => fetches'[j] = Idle
      BY <1>7, <2>1 DEF Dated, Read, OneFetch
    <2>4. \A j \in FetchIds : fetches'[j].phase = "reading" =>
              fetches'[j].head <= disk'.head /\ (fetches'[j].repo => disk'.repo)
      BY <1>1, <1>7, <2>1 DEF Dated, Read, OneFetch
    <2> QED BY <1>1, <1>7, <2>2, <2>3, <2>4 DEF Dated, Read, OneFetch
  <1>9. ASSUME NEW s, Behind(s) PROVE Behind(s)'
    <2> SUFFICES ASSUME s # None PROVE Behind(s)'
      BY DEF Behind
    <2>1. /\ Proper(s) /\ NotOlder(s, disk)
          /\ cached # None => NotOlder(s, cached)
      BY <1>9 DEF Behind
    <2>2. s.head <= disk.head /\ (s.repo => disk.repo)
      BY <2>1 DEF NotOlder
    <2>3. \A j \in FetchIds :
             fetches'[j].phase = "reading" => s.head <= fetches'[j].head /\ (s.repo => fetches'[j].repo)
      <3> SUFFICES ASSUME NEW j \in FetchIds, fetches'[j].phase = "reading"
                   PROVE  s.head <= fetches'[j].head /\ (s.repo => fetches'[j].repo)
        OBVIOUS
      <3>1. CASE j = i
        <4>1. fetches'[j].head = disk.head /\ fetches'[j].repo = disk.repo
          BY <1>5, <1>7, <3>1
        <4> QED BY <2>2, <4>1
      <3>2. CASE j # i
        BY <1>7, <1>9, <3>2 DEF Behind
      <3> QED BY <3>1, <3>2
    <2> QED BY <1>1, <2>1, <2>3 DEF Behind, Proper, NotOlder, Status, FetchIds
  <1>10. Read'
    BY <1>1, <1>8, <1>9 DEF Dated, Read, Proper, Status
  <1> QED BY <1>1, <1>9, <1>10, DatedAside

\* A refresh joins the fetch under way, or starts the only one.
LEMMA Joins ==
    ASSUME OneFetch, MaxEdits \in Nat, NEW push \in BOOLEAN, NEW who \in SUBSET (Devices \X Nat),
           Join(push, who), disk' = disk
    PROVE  /\ OneFetch'
           /\ \A i \in FetchIds :
                 fetches'[i].phase = "reading" =>
                    /\ fetches[i].phase = "reading" /\ fetches'[i].head = fetches[i].head
                    /\ fetches'[i].repo = fetches[i].repo
  <1> DEFINE i == IF inFlight # 0 THEN inFlight ELSE CHOOSE j \in FetchIds : fetches[j] = Idle
  <1>1. i = IF inFlight # 0 THEN inFlight ELSE CHOOSE j \in FetchIds : fetches[j] = Idle
    OBVIOUS
  <1>2. /\ inFlight' = i
        /\ fetches' = [fetches EXCEPT
              ![i].phase = IF inFlight # 0 THEN @ ELSE "queued",
              ![i].push = @ \/ push,
              ![i].asks = @ \cup who]
    BY DEF Join
  <1> HIDE DEF i
  <1>3. i \in FetchIds /\ (inFlight # 0 => i = inFlight) /\ (inFlight = 0 => fetches[i] = Idle)
    <2>1. CASE inFlight # 0
      BY <1>1, <2>1 DEF OneFetch
    <2>2. CASE inFlight = 0
      <3>1. \A j \in FetchIds : fetches[j].phase = "idle" /\ fetches[j] = Idle
        BY <2>2 DEF OneFetch, FetchIds
      <3>2. \E j \in FetchIds : fetches[j] = Idle
        BY <3>1 DEF FetchIds
      <3> QED BY <1>1, <2>2, <3>1, <3>2
    <2> QED BY <2>1, <2>2
  <1>4. PICK ph \in {"idle", "queued", "reading"}, r \in BOOLEAN, h \in 0..MaxEdits, p \in BOOLEAN,
             a \in SUBSET (Devices \X Nat) :
          fetches[i] = [phase |-> ph, repo |-> r, head |-> h, push |-> p, asks |-> a]
    <2>1. fetches[i] \in Fetches
      BY <1>3 DEF OneFetch
    <2> QED BY <2>1 DEF Fetches
  <1>5. PICK ph2 \in {"idle", "queued", "reading"} : ph2 = IF inFlight # 0 THEN ph ELSE "queued"
    OBVIOUS
  <1>p. PICK p2 \in BOOLEAN : p2 = (p \/ push)
    BY Zenon
  <1>a. PICK a2 \in SUBSET (Devices \X Nat) : a2 = a \cup who
    OBVIOUS
  <1>6. PICK g \in Fetches :
          g = [phase |-> ph2, repo |-> r, head |-> h, push |-> p2, asks |-> a2]
    BY <1>4, <1>5 DEF Fetches
  <1>7. fetches' = [fetches EXCEPT ![i] = g]
    <2>1. fetches \in [FetchIds -> Fetches]
      BY DEF OneFetch
    <2>2. [fetches[i] EXCEPT !.phase = ph2, !.push = p2, !.asks = a2] = g
      <3>1. PICK f1 : f1 = [fetches[i] EXCEPT !.phase = ph2]
        OBVIOUS
      <3>2. f1 = [phase |-> ph2, repo |-> r, head |-> h, push |-> p, asks |-> a]
        BY <1>4, <3>1
      <3>3. PICK f2 : f2 = [f1 EXCEPT !.push = p2]
        OBVIOUS
      <3>4. f2 = [phase |-> ph2, repo |-> r, head |-> h, push |-> p2, asks |-> a]
        BY <3>2, <3>3
      <3>5. [f2 EXCEPT !.asks = a2] = g
        BY <1>6, <3>4
      <3> QED BY <3>1, <3>3, <3>5, Zenon
    <2>3. fetches' = [fetches EXCEPT ![i].phase = ph2, ![i].push = p2, ![i].asks = a2]
      <3>1. fetches[i].phase = ph /\ fetches[i].push = p /\ fetches[i].asks = a
        BY <1>4
      <3>2. (fetches[i].push \/ push) = p2
        BY <1>p, <3>1, Zenon
      <3> QED BY <1>2, <1>5, <1>a, <3>1, <3>2
    <2> QED BY <2>2, <2>3
  <1>8. /\ fetches'[i] = g /\ (\A j \in FetchIds \ {i} : fetches'[j] = fetches[j])
        /\ fetches' \in [FetchIds -> Fetches]
    BY <1>3, <1>6, <1>7 DEF OneFetch
  <1>9. g.phase = ph2 /\ g.head = h /\ g.repo = r /\ fetches[i].phase = ph /\ fetches[i].head = h /\ fetches[i].repo = r
    BY <1>4, <1>6
  <1>10. ph2 # "idle" /\ (ph2 = "reading" => ph = "reading")
    <2>1. inFlight # 0 => ph # "idle"
      BY <1>3, <1>9 DEF OneFetch
    <2> QED BY <1>5, <2>1
  <1>11. \A j \in FetchIds : fetches'[j].phase = "reading" =>
            /\ fetches[j].phase = "reading" /\ fetches'[j].head = fetches[j].head
            /\ fetches'[j].repo = fetches[j].repo
    BY <1>8, <1>9, <1>10
  <1>12. \A j \in FetchIds : fetches'[j].phase = "idle" <=> inFlight' # j
    <2> SUFFICES ASSUME NEW j \in FetchIds PROVE fetches'[j].phase = "idle" <=> inFlight' # j
      OBVIOUS
    <2>1. CASE j = i
      BY <1>2, <1>8, <1>9, <1>10, <2>1
    <2>2. CASE j # i
      <3>1. fetches'[j] = fetches[j] /\ (fetches[j].phase = "idle" <=> inFlight # j)
        BY <1>8, <2>2 DEF OneFetch
      <3>2. inFlight # j
        BY <1>3, <2>2 DEF FetchIds
      <3> QED BY <1>2, <2>2, <3>1, <3>2
    <2> QED BY <2>1, <2>2
  <1>13. \A j \in FetchIds : fetches'[j].phase = "idle" => fetches'[j] = Idle
    BY <1>8, <1>9, <1>10 DEF OneFetch
  <1>14. \A j \in FetchIds : fetches'[j].phase = "reading" =>
            fetches'[j].head <= disk'.head /\ (fetches'[j].repo => disk'.repo)
    BY <1>11 DEF OneFetch
  <1> QED BY <1>2, <1>3, <1>8, <1>11, <1>12, <1>13, <1>14 DEF OneFetch

LEMMA DatedAnew ==
    ASSUME Dated, MaxEdits \in Nat, DebounceFires \/ SelfHeal
    PROVE  Dated'
  <1>1. cached' = None /\ Join(TRUE, {}) /\ UNCHANGED <<disk, down, data>>
    BY DEF DebounceFires, SelfHeal, client, wires
  <1>2. TRUE \in BOOLEAN /\ {} \in SUBSET (Devices \X Nat)
    OBVIOUS
  <1>3. /\ OneFetch'
        /\ \A i \in FetchIds :
              fetches'[i].phase = "reading" =>
                 /\ fetches[i].phase = "reading" /\ fetches'[i].head = fetches[i].head
                 /\ fetches'[i].repo = fetches[i].repo
    BY <1>1, <1>2, Joins DEF Dated, Read
  <1>4. ASSUME NEW s, Behind(s) PROVE Behind(s)'
    BY <1>1, <1>3, <1>4, BehindStill
  <1>5. Behind(cached)'
    BY <1>1 DEF Behind
  <1>6. Read'
    BY <1>1, <1>3, <1>5 DEF Dated, Read, Proper, Status
  <1> QED BY <1>1, <1>4, <1>6, DatedAside

LEMMA DatedFirst ==
    ASSUME MaxEdits \in Nat, WatchInit
    PROVE  Dated
  <1>1. PICK b \in BOOLEAN : disk = [repo |-> b, head |-> 0, tree |-> 0]
    BY DEF WatchInit
  <1>2. Proper(disk) /\ (~disk.repo => disk.head = 0)
    BY <1>1 DEF Proper, Status
  <1>3. OneFetch
    <2>1. Idle \in Fetches /\ Idle.phase = "idle"
      BY DEF Idle, Fetches
    <2>2. fetches = [i \in FetchIds |-> Idle] /\ inFlight = 0
      BY DEF WatchInit
    <2> QED BY <2>1, <2>2 DEF OneFetch, FetchIds
  <1>4. Behind(None)
    BY DEF Behind
  <1>5. cached = None /\ down = [d \in Devices |-> <<>>] /\ data = [d \in Devices |-> None]
    BY DEF WatchInit
  <1>6. Read
    BY <1>2, <1>3, <1>4, <1>5 DEF Read
  <1>7. \A d \in Devices : Behind(data[d]) /\ AllBehind(down[d]) /\ InTurn(data[d], down[d])
    <2>1. AllBehind(<<>>) /\ InTurn(None, <<>>)
      BY DEF AllBehind, InTurn
    <2> QED BY <1>4, <1>5, <2>1
  <1> QED BY <1>5, <1>6, <1>7 DEF Dated

\* A frame that is newer than all that is on the way.
LEMMA SentInTurn ==
    ASSUME NEW queues \in [Devices -> Seq(GitFrames)], NEW frame \in GitFrames, NEW conns,
           \A d \in Devices :
               /\ InTurn(data[d], queues[d])
               /\ Tells(frame) =>
                     /\ NotOlder(data[d], frame.status)
                     /\ \A i \in DOMAIN queues[d] :
                           Tells(queues[d][i]) => NotOlder(queues[d][i].status, frame.status),
           NEW sent, sent = SendTo(queues, conns, frame)
    PROVE  /\ sent \in [Devices -> Seq(GitFrames)]
           /\ \A d \in Devices :
                 /\ InTurn(data[d], sent[d])
                 /\ \A i \in DOMAIN sent[d] :
                       sent[d][i] = frame \/ \E j \in DOMAIN queues[d] : sent[d][i] = queues[d][j]
  <1>1. \A d \in Devices : sent[d] = queues[d] \/ sent[d] = Append(queues[d], frame)
    BY DEF SendTo
  <1>2. sent = [d \in Devices |-> sent[d]]
    BY DEF SendTo
  <1>3. ASSUME NEW d \in Devices
        PROVE  /\ sent[d] \in Seq(GitFrames) /\ InTurn(data[d], sent[d])
               /\ \A i \in DOMAIN sent[d] :
                     sent[d][i] = frame \/ \E j \in DOMAIN queues[d] : sent[d][i] = queues[d][j]
    <2>1. PICK q \in Seq(GitFrames) : q = queues[d]
      OBVIOUS
    <2>2. PICK s : s = data[d]
      OBVIOUS
    <2>3. /\ InTurn(s, q)
          /\ Tells(frame) =>
                /\ NotOlder(s, frame.status)
                /\ \A i \in DOMAIN q : Tells(q[i]) => NotOlder(q[i].status, frame.status)
      BY <2>1, <2>2
    <2>4. CASE sent[d] = q
      BY <2>1, <2>2, <2>3, <2>4
    <2>5. CASE sent[d] = Append(q, frame)
      <3>1. /\ Append(q, frame) \in Seq(GitFrames) /\ InTurn(s, Append(q, frame))
            /\ \A i \in DOMAIN Append(q, frame) :
                  Append(q, frame)[i] = frame \/ \E j \in DOMAIN q : Append(q, frame)[i] = q[j]
        BY <2>3, Posted
      <3> QED BY <2>1, <2>2, <2>5, <3>1
    <2> QED BY <1>1, <2>1, <2>4, <2>5
  <1> QED BY <1>2, <1>3

\* The steps that send and show nothing yet.
LEMMA DatedSent ==
    ASSUME Dated, data' = data, Read', \A s : Behind(s) => Behind(s)',
           NEW next \in [Devices -> Seq(GitFrames)], down' = next,
           \A d \in Devices :
               /\ InTurn(data[d], next[d])
               /\ \A i \in DOMAIN next[d] :
                     \/ \E j \in DOMAIN down[d] : next[d][i] = down[d][j]
                     \/ Tells(next[d][i]) =>
                           next[d][i].status # None /\ Behind(next[d][i].status)'
    PROVE  Dated'
  <1>1. ASSUME NEW d \in Devices PROVE AllBehind(down[d])'
    <2>1. PICK q : q = next[d] /\ q = down'[d]
      OBVIOUS
    <2>2. ASSUME NEW i \in DOMAIN q, Tells(q[i])
          PROVE  q[i].status # None /\ Behind(q[i].status)'
      <3>1. CASE \E j \in DOMAIN down[d] : q[i] = down[d][j]
        <4>1. PICK j \in DOMAIN down[d] : q[i] = down[d][j]
          BY <3>1
        <4>2. PICK frame : frame = down[d][j]
          OBVIOUS
        <4>3. frame.status # None /\ Behind(frame.status)
          BY <2>2, <4>1, <4>2 DEF Dated, AllBehind
        <4>4. Behind(frame.status)'
          BY <4>3
        <4> QED BY <4>1, <4>2, <4>3, <4>4
      <3>2. CASE ~\E j \in DOMAIN down[d] : q[i] = down[d][j]
        BY <2>1, <2>2, <3>2
      <3> QED BY <3>1, <3>2
    <2>3. AllBehind(q)'
      BY <2>2 DEF AllBehind, Tells
    <2> QED BY <2>1, <2>3 DEF AllBehind
  <1>2. \A d \in Devices : Behind(data[d])'
    BY DEF Dated
  <1>3. \A d \in Devices : InTurn(data[d], down[d])'
    BY DEF InTurn, Tells, NotOlder
  <1> QED BY <1>1, <1>2, <1>3 DEF Dated

\* What a fetch comes back with.
LEMMA FetchedIs ==
    ASSUME Read, MaxEdits \in Nat, NoStatusAssumption,
           NEW i \in FetchIds, fetches[i].phase = "reading",
           NEW st, st = [repo |-> fetches[i].repo, head |-> fetches[i].head,
                         tree |-> IF fetches[i].repo THEN disk.tree ELSE 0]
    PROVE  /\ Proper(st) /\ st # None /\ NotOlder(st, disk)
           /\ \A s : Behind(s) => NotOlder(s, st)
  <1>1. PICK f \in Fetches : f = fetches[i] /\ f.phase = "reading"
    BY DEF Read, OneFetch
  <1>2. f.repo \in BOOLEAN /\ f.head \in 0..MaxEdits
    BY <1>1 DEF Fetches
  <1>3. disk \in Status /\ disk.repo \in BOOLEAN /\ disk.head \in 0..MaxEdits /\ disk.tree \in 0..MaxEdits
    BY StatusIs DEF Read, Proper
  <1>4. f.head <= disk.head /\ (f.repo => disk.repo)
    BY <1>1 DEF Read, OneFetch
  <1>5. PICK t \in 0..MaxEdits : t = IF f.repo THEN disk.tree ELSE 0
    BY <1>3
  <1>6. st = [repo |-> f.repo, head |-> f.head, tree |-> t]
    BY <1>1, <1>5
  <1>7. st \in Status /\ st.repo = f.repo /\ st.head = f.head /\ st.tree = t
    BY <1>2, <1>6 DEF Status
  <1>8. st # None /\ disk # None
    BY <1>3, <1>7 DEF NoStatusAssumption
  <1>9. Proper(st)
    BY <1>5, <1>7 DEF Proper
  <1>10. NotOlder(st, disk)
    BY <1>2, <1>3, <1>4, <1>5, <1>7, <1>8 DEF NotOlder
  <1>11. ASSUME NEW s, Behind(s) PROVE NotOlder(s, st)
    <2>1. CASE s = None
      BY <2>1 DEF NotOlder
    <2>2. CASE s # None
      <3>1. Proper(s) /\ NotOlder(s, disk) /\ s.head <= f.head /\ (s.repo => f.repo)
        BY <1>1, <1>11, <2>2 DEF Behind
      <3>2. s.tree \in Nat /\ (~s.repo => s.tree = 0) /\ s.tree <= disk.tree
        BY <2>2, <3>1, StatusIs DEF Proper, NotOlder
      <3>3. s.tree <= t
        BY <1>5, <3>1, <3>2
      <3> QED BY <1>7, <1>8, <3>1, <3>3 DEF NotOlder
    <2> QED BY <2>1, <2>2
  <1> QED BY <1>8, <1>9, <1>10, <1>11

LEMMA FrameIs ==
    ASSUME NEW st \in Status
    PROVE  /\ Reply(st) \in GitFrames /\ Reply(st).status = st
           /\ Push(st) \in GitFrames /\ Push(st).status = st
  BY DEF Reply, Push, GitFrames

\* A frame with what is not older than anything on the way.
LEMMA SentNewest ==
    ASSUME NEW queues \in [Devices -> Seq(GitFrames)], NEW frame \in GitFrames, NEW conns,
           NEW st, frame.status = st,
           \A d \in Devices :
               /\ InTurn(data[d], queues[d]) /\ NotOlder(data[d], st)
               /\ \A i \in DOMAIN queues[d] : Tells(queues[d][i]) => NotOlder(queues[d][i].status, st),
           NEW sent, sent = SendTo(queues, conns, frame)
    PROVE  /\ sent \in [Devices -> Seq(GitFrames)]
           /\ \A d \in Devices :
                 /\ InTurn(data[d], sent[d])
                 /\ \A i \in DOMAIN sent[d] :
                       sent[d][i] = frame \/ \E j \in DOMAIN queues[d] : sent[d][i] = queues[d][j]
  <1>1. \A d \in Devices :
           /\ InTurn(data[d], queues[d])
           /\ Tells(frame) =>
                 /\ NotOlder(data[d], frame.status)
                 /\ \A i \in DOMAIN queues[d] :
                       Tells(queues[d][i]) => NotOlder(queues[d][i].status, frame.status)
    OBVIOUS
  <1> QED BY <1>1, SentInTurn

\* A fetch's result goes to those who asked and those who listen.
LEMMA DatedEnds ==
    ASSUME Dated, MaxEdits \in Nat, NoStatusAssumption, NEW i \in FetchIds, FetchSettles(i)
    PROVE  Dated'
  <1>1. PICK st : st = [repo |-> fetches[i].repo, head |-> fetches[i].head,
                        tree |-> IF fetches[i].repo THEN disk.tree ELSE 0]
    OBVIOUS
  <1>2. PICK pushed : pushed = IF fetches[i].push THEN listeners ELSE {}
    OBVIOUS
  <1>3. PICK asking : asking = fetches[i].asks
    OBVIOUS
  <1>4. /\ fetches[i].phase = "reading" /\ cached' = st
        /\ inFlight' = IF inFlight = i THEN 0 ELSE inFlight
        /\ fetches' = [fetches EXCEPT ![i] = Idle]
        /\ down' = SendTo(SendTo(down, asking, Reply(st)), pushed, Push(st))
        /\ UNCHANGED <<disk, data>>
    BY <1>1, <1>2, <1>3 DEF FetchSettles, client
  <1>5. /\ Proper(st) /\ st # None /\ NotOlder(st, disk)
        /\ \A s : Behind(s) => NotOlder(s, st)
    BY <1>1, <1>4, FetchedIs DEF Dated
  <1>6. PICK first \in GitFrames : first = Reply(st) /\ first.status = st
    BY <1>5, FrameIs DEF Proper
  <1>7. PICK second \in GitFrames : second = Push(st) /\ second.status = st
    BY <1>5, FrameIs DEF Proper
  <1>8. NotOlder(st, st)
    BY <1>5, SameAge DEF Proper
  <1>9. \A d \in Devices :
           /\ InTurn(data[d], down[d]) /\ NotOlder(data[d], st)
           /\ \A j \in DOMAIN down[d] : Tells(down[d][j]) => NotOlder(down[d][j].status, st)
    BY <1>5 DEF Dated, AllBehind
  <1>10. PICK half : half = SendTo(down, asking, first)
    OBVIOUS
  <1>11. /\ half \in [Devices -> Seq(GitFrames)]
         /\ \A d \in Devices :
               /\ InTurn(data[d], half[d])
               /\ \A j \in DOMAIN half[d] :
                     half[d][j] = first \/ \E k \in DOMAIN down[d] : half[d][j] = down[d][k]
    <2>1. down \in [Devices -> Seq(GitFrames)]
      BY DEF Dated
    <2> QED BY <1>6, <1>9, <1>10, <2>1, SentNewest
  <1>12. \A d \in Devices :
           /\ InTurn(data[d], half[d]) /\ NotOlder(data[d], st)
           /\ \A j \in DOMAIN half[d] : Tells(half[d][j]) => NotOlder(half[d][j].status, st)
    BY <1>6, <1>8, <1>9, <1>11
  <1>13. PICK sent : sent = SendTo(half, pushed, second)
    OBVIOUS
  <1>14. /\ sent \in [Devices -> Seq(GitFrames)]
         /\ \A d \in Devices :
               /\ InTurn(data[d], sent[d])
               /\ \A j \in DOMAIN sent[d] :
                     sent[d][j] = second \/ \E k \in DOMAIN half[d] : sent[d][j] = half[d][k]
    BY <1>7, <1>11, <1>12, <1>13, SentNewest
  <1>15. \A d \in Devices : \A j \in DOMAIN sent[d] :
            sent[d][j].status = st \/ \E k \in DOMAIN down[d] : sent[d][j] = down[d][k]
    <2> SUFFICES ASSUME NEW d \in Devices, NEW j \in DOMAIN sent[d], sent[d][j].status # st
                 PROVE  \E k \in DOMAIN down[d] : sent[d][j] = down[d][k]
      OBVIOUS
    <2>1. PICK m \in DOMAIN half[d] : sent[d][j] = half[d][m]
      BY <1>7, <1>14
    <2> QED BY <1>6, <1>11, <2>1
  <1>16. down' = sent
    BY <1>4, <1>6, <1>7, <1>10, <1>13
  <1>17. /\ fetches' \in [FetchIds -> Fetches] /\ inFlight' = 0
         /\ \A j \in FetchIds : fetches'[j] = Idle /\ fetches'[j].phase = "idle"
    <2>1. Idle \in Fetches /\ Idle.phase = "idle" /\ fetches \in [FetchIds -> Fetches]
      BY DEF Idle, Fetches, Dated, Read, OneFetch
    <2>2. inFlight = i
      BY <1>4 DEF Dated, Read, OneFetch
    <2>3. \A j \in FetchIds \ {i} : fetches[j] = Idle
      BY <2>2 DEF Dated, Read, OneFetch
    <2>4. \A j \in FetchIds : fetches'[j] = Idle
      BY <1>4, <2>1, <2>3
    <2>5. fetches' \in [FetchIds -> Fetches]
      BY <1>4, <2>1
    <2> QED BY <1>4, <2>1, <2>2, <2>4, <2>5
  <1>18. ASSUME NEW s, s # None, Proper(s), NotOlder(s, disk), NotOlder(s, st) PROVE Behind(s)'
    BY <1>4, <1>17, <1>18 DEF Behind, Proper, NotOlder, Status, FetchIds
  <1>19. ASSUME NEW s, Behind(s) PROVE Behind(s)'
    <2>1. CASE s = None
      BY <2>1 DEF Behind
    <2>2. CASE s # None
      BY <1>5, <1>18, <1>19, <2>2 DEF Behind
    <2> QED BY <2>1, <2>2
  <1>20. Behind(st)'
    BY <1>5, <1>8, <1>18
  <1>21. Read'
    <2>1. OneFetch'
      <3>1. 0 \in FetchIds \cup {0} /\ ~(0 \in FetchIds)
        BY DEF FetchIds
      <3> QED BY <1>17, <3>1 DEF OneFetch, Fetches, FetchIds, Idle
    <2>2. Behind(cached)' /\ cached' \in (Status \cup {None})'
      BY <1>4, <1>5, <1>20 DEF Behind, Proper, Status
    <2>3. Proper(disk)' /\ (~disk'.repo => disk'.head = 0)
      BY <1>4 DEF Dated, Read, Proper, Status
    <2> QED BY <2>1, <2>2, <2>3 DEF Read
  <1>22. \A d \in Devices :
           /\ InTurn(data[d], sent[d])
           /\ \A j \in DOMAIN sent[d] :
                 \/ \E k \in DOMAIN down[d] : sent[d][j] = down[d][k]
                 \/ Tells(sent[d][j]) =>
                       sent[d][j].status # None /\ Behind(sent[d][j].status)'
    <2> SUFFICES ASSUME NEW d \in Devices, NEW j \in DOMAIN sent[d],
                        ~\E k \in DOMAIN down[d] : sent[d][j] = down[d][k]
                 PROVE  sent[d][j].status # None /\ Behind(sent[d][j].status)'
      BY <1>14
    <2>1. PICK s : s = sent[d][j].status
      OBVIOUS
    <2>2. s = st
      BY <1>15, <2>1
    <2> QED BY <1>5, <1>20, <2>1, <2>2
  <1> QED BY <1>4, <1>14, <1>16, <1>19, <1>21, <1>22, DatedSent

\* A question is answered from the cache, or joins the fetch.
LEMMA DatedGetStatus ==
    ASSUME Dated, Heard, MaxEdits \in Nat, NoStatusAssumption, NEW d \in Devices, HandleGetStatus(d)
    PROVE  Dated'
  <1>1. UNCHANGED <<disk, cached, data>>
    BY DEF HandleGetStatus, client
  <1>2. CASE cached # None /\ down' = SendTo(down, {Conn(d)}, Reply(cached)) /\ UNCHANGED <<inFlight, fetches>>
    <2>1. Proper(cached) /\ Behind(cached) /\ cached \in Status
      BY <1>2 DEF Dated, Read, Behind, Proper
    <2>2. PICK frame \in GitFrames : frame = Reply(cached) /\ frame.status = cached
      BY <2>1, FrameIs
    <2>3. \A e \in Devices :
             /\ InTurn(data[e], down[e]) /\ NotOlder(data[e], cached)
             /\ \A j \in DOMAIN down[e] : Tells(down[e][j]) => NotOlder(down[e][j].status, cached)
      <3>1. \A s : Behind(s) => NotOlder(s, cached)
        BY <1>2 DEF Behind, NotOlder
      <3> QED BY <3>1 DEF Dated, AllBehind
    <2>4. PICK sent : sent = SendTo(down, {Conn(d)}, frame)
      OBVIOUS
    <2>5. /\ sent \in [Devices -> Seq(GitFrames)]
          /\ \A e \in Devices :
                /\ InTurn(data[e], sent[e])
                /\ \A j \in DOMAIN sent[e] :
                      sent[e][j] = frame \/ \E k \in DOMAIN down[e] : sent[e][j] = down[e][k]
      <3>1. PICK queues \in [Devices -> Seq(GitFrames)] : queues = down
        BY DEF Dated
      <3>2. PICK who : who = {Conn(d)}
        OBVIOUS
      <3>3. PICK st : st = cached
        OBVIOUS
      <3>4. frame.status = st /\ sent = SendTo(queues, who, frame)
        BY <2>2, <2>4, <3>1, <3>2, <3>3
      <3>5. \A e \in Devices :
              /\ InTurn(data[e], queues[e]) /\ NotOlder(data[e], st)
              /\ \A j \in DOMAIN queues[e] : Tells(queues[e][j]) => NotOlder(queues[e][j].status, st)
        BY <2>3, <3>1, <3>3
      <3>6. /\ sent \in [Devices -> Seq(GitFrames)]
            /\ \A e \in Devices :
                  /\ InTurn(data[e], sent[e])
                  /\ \A j \in DOMAIN sent[e] :
                        sent[e][j] = frame \/ \E k \in DOMAIN queues[e] : sent[e][j] = queues[e][k]
        BY <3>4, <3>5, SentNewest
      <3> QED BY <3>1, <3>6
    <2>6. ASSUME NEW s, Behind(s) PROVE Behind(s)'
      BY <1>1, <1>2, <2>6, BehindStill
    <2>7. Read'
      BY <1>1, <1>2, <2>1, <2>6 DEF Dated, Read, OneFetch, Proper, Status, FetchIds, Idle
    <2>8. \A e \in Devices :
             /\ InTurn(data[e], sent[e])
             /\ \A j \in DOMAIN sent[e] :
                   \/ \E k \in DOMAIN down[e] : sent[e][j] = down[e][k]
                   \/ Tells(sent[e][j]) => sent[e][j].status # None /\ Behind(sent[e][j].status)'
      <3> SUFFICES ASSUME NEW e \in Devices, NEW j \in DOMAIN sent[e],
                          ~\E k \in DOMAIN down[e] : sent[e][j] = down[e][k]
                   PROVE  sent[e][j].status # None /\ Behind(sent[e][j].status)'
        BY <2>5
      <3>1. PICK s : s = cached
        OBVIOUS
      <3>2. PICK t : t = sent[e][j].status
        OBVIOUS
      <3>3. t = s
        BY <2>2, <2>5, <3>1, <3>2
      <3>4. Behind(s)'
        BY <2>1, <2>6, <3>1
      <3> QED BY <1>2, <3>1, <3>2, <3>3, <3>4
    <2> QED BY <1>1, <1>2, <2>2, <2>4, <2>5, <2>6, <2>7, <2>8, DatedSent
  <1>3. CASE Join(FALSE, {Conn(d)}) /\ UNCHANGED down
    <2>1. {Conn(d)} \in SUBSET (Devices \X Nat)
      BY DEF Conn, Heard, Wired
    <2>2. /\ OneFetch'
          /\ \A i \in FetchIds :
                fetches'[i].phase = "reading" =>
                   /\ fetches[i].phase = "reading" /\ fetches'[i].head = fetches[i].head
                   /\ fetches'[i].repo = fetches[i].repo
      BY <1>1, <1>3, <2>1, Joins DEF Dated, Read
    <2>3. ASSUME NEW s, Behind(s) PROVE Behind(s)'
      BY <1>1, <2>2, <2>3, BehindStill
    <2>4. Behind(cached)'
      <3>1. PICK s : s = cached
        OBVIOUS
      <3>2. Behind(s)'
        BY <2>3, <3>1 DEF Dated, Read
      <3> QED BY <1>1, <3>1, <3>2 DEF Behind
    <2>5. Read'
      BY <1>1, <2>2, <2>4 DEF Dated, Read, Proper, Status
    <2> QED BY <1>1, <1>3, <2>3, <2>5, DatedAside
  <1> QED BY <1>2, <1>3 DEF HandleGetStatus

LEMMA ReadStill ==
    ASSUME Read, UNCHANGED <<disk, cached, inFlight, fetches>>
    PROVE  Read' /\ \A s : Behind(s) => Behind(s)'
  <1>1. ASSUME NEW s, Behind(s) PROVE Behind(s)'
    BY <1>1, BehindStill
  <1>2. Behind(cached)'
    <2>1. PICK s : s = cached
      OBVIOUS
    <2>2. Behind(s)'
      BY <1>1, <2>1 DEF Read
    <2> QED BY <2>1, <2>2 DEF Behind
  <1>3. OneFetch'
    BY DEF Read, OneFetch, FetchIds, Idle
  <1>4. Proper(disk)' /\ (~disk'.repo => disk'.head = 0) /\ cached' \in (Status \cup {None})'
    BY DEF Read, Proper, Status
  <1> QED BY <1>1, <1>2, <1>3, <1>4 DEF Read

\* The steps that touch neither the fetches nor the queues.
LEMMA DatedOther ==
    ASSUME Dated, UNCHANGED <<disk, cached, inFlight, fetches, down, data>>
    PROVE  Dated'
  BY ReadStill, DatedAside DEF Dated

LEMMA DatedHandle ==
    ASSUME Dated, Heard, MaxEdits \in Nat, NoStatusAssumption, NEW d \in Devices, Handle(d)
    PROVE  Dated'
  <1>1. CASE HandleGetStatus(d)
    BY <1>1, DatedGetStatus
  <1>2. CASE HandleUnsubscribe(d)
    BY <1>2, DatedOther DEF HandleUnsubscribe, client
  <1>3. CASE HandleSubscribe(d)
    <2>1. /\ up[d] # <<>> /\ UNCHANGED <<disk, cached, inFlight, fetches, data>>
          /\ down' = SendTo(down, {Conn(d)}, Ack(Head(up[d]).effect))
      BY <1>3 DEF HandleSubscribe, Take, client
    <2>2. PICK n \in Nat : n = Head(up[d]).effect
      <3>1. Head(up[d]) \in Requests
        BY <2>1 DEF Heard, Wired
      <3> QED BY <3>1 DEF Requests
    <2>3. PICK frame \in GitFrames : frame = Ack(n) /\ ~Tells(frame)
      <3>1. Ack(n) \in GitFrames /\ Ack(n).type = "subscribeGitStatus.response"
        BY DEF Ack, GitFrames
      <3> QED BY <3>1 DEF Tells
    <2>4. PICK queues \in [Devices -> Seq(GitFrames)] : queues = down
      BY DEF Dated
    <2>5. PICK who : who = {Conn(d)}
      OBVIOUS
    <2>6. PICK sent : sent = SendTo(queues, who, frame)
      OBVIOUS
    <2>7. \A e \in Devices : InTurn(data[e], queues[e])
      BY <2>4 DEF Dated
    <2>9. \A e \in Devices :
             /\ InTurn(data[e], queues[e])
             /\ Tells(frame) =>
                   /\ NotOlder(data[e], frame.status)
                   /\ \A i \in DOMAIN queues[e] :
                         Tells(queues[e][i]) => NotOlder(queues[e][i].status, frame.status)
      BY <2>3, <2>7
    <2>10. /\ sent \in [Devices -> Seq(GitFrames)]
           /\ \A e \in Devices :
                 /\ InTurn(data[e], sent[e])
                 /\ \A i \in DOMAIN sent[e] :
                       sent[e][i] = frame \/ \E j \in DOMAIN queues[e] : sent[e][i] = queues[e][j]
      BY <2>6, <2>9, SentInTurn
    <2>11. down' = sent
      BY <2>1, <2>2, <2>3, <2>4, <2>5, <2>6
    <2>12. Read' /\ \A s : Behind(s) => Behind(s)'
      BY <2>1, ReadStill DEF Dated
    <2>14. \A e \in Devices :
              /\ InTurn(data[e], sent[e])
              /\ \A i \in DOMAIN sent[e] :
                    \/ \E j \in DOMAIN down[e] : sent[e][i] = down[e][j]
                    \/ Tells(sent[e][i]) => sent[e][i].status # None /\ Behind(sent[e][i].status)'
      BY <2>3, <2>4, <2>10
    <2> QED BY <2>1, <2>10, <2>11, <2>12, <2>14, DatedSent
  <1> QED BY <1>1, <1>2, <1>3 DEF Handle

LEMMA DatedDrop ==
    ASSUME Dated, NEW d \in Devices, Drop(d)
    PROVE  Dated'
  <1>1. down' = [down EXCEPT ![d] = <<>>] /\ UNCHANGED <<disk, cached, inFlight, fetches, data>>
    BY DEF Drop, watcher
  <1>2. down \in [Devices -> Seq(GitFrames)] /\ <<>> \in Seq(GitFrames)
    BY DEF Dated
  <1>3. PICK next : next = [down EXCEPT ![d] = <<>>]
    OBVIOUS
  <1>4. next \in [Devices -> Seq(GitFrames)] /\ next[d] = <<>> /\ \A e \in Devices \ {d} : next[e] = down[e]
    BY <1>2, <1>3
  <1>5. ASSUME NEW e \in Devices
        PROVE  /\ InTurn(data[e], next[e])
               /\ \A i \in DOMAIN next[e] : \E j \in DOMAIN down[e] : next[e][i] = down[e][j]
    <2>1. CASE e = d
      <3>1. PICK q : q = next[e] /\ DOMAIN q = {}
        BY <1>4, <2>1
      <3> QED BY <3>1 DEF InTurn
    <2>2. CASE e # d
      BY <1>4, <2>2 DEF Dated
    <2> QED BY <2>1, <2>2
  <1>6. Read' /\ \A s : Behind(s) => Behind(s)'
    BY <1>1, ReadStill DEF Dated
  <1>7. down' = next
    BY <1>1, <1>3
  <1>8. \A e \in Devices :
           /\ InTurn(data[e], next[e])
           /\ \A i \in DOMAIN next[e] :
                 \/ \E j \in DOMAIN down[e] : next[e][i] = down[e][j]
                 \/ Tells(next[e][i]) => next[e][i].status # None /\ Behind(next[e][i].status)'
    BY <1>5
  <1>9. data' = data /\ next \in [Devices -> Seq(GitFrames)]
    BY <1>1, <1>4
  <1> QED BY <1>6, <1>7, <1>8, <1>9, DatedSent

\* What a bar is given is not older than what it shows.
LEMMA DatedDeliver ==
    ASSUME Dated, MaxEdits \in Nat, NoStatusAssumption, NEW d \in Devices, Deliver(d)
    PROVE  Dated' /\ \A e \in Devices : NotOlder(data[e], data'[e])
  <1>1. PICK q \in Seq(GitFrames) : q = down[d] /\ q # <<>> /\ InTurn(data[d], q) /\ AllBehind(q)
    BY DEF Deliver, Dated
  <1>2. PICK frame : frame = Head(q)
    OBVIOUS
  <1>3. /\ down' = [down EXCEPT ![d] = Tail(q)] /\ UNCHANGED <<disk, cached, inFlight, fetches>>
        /\ OnResponse(d, frame) \/ OnPush(d, frame) \/ OnAck(d, frame)
    BY <1>1, <1>2 DEF Deliver, watcher
  <1>4. data' = data \/ (Tells(frame) /\ data' = [data EXCEPT ![d] = frame.status])
    BY <1>3 DEF OnResponse, OnPush, OnAck, Tells
  <1>5. data \in [Devices -> Status \cup {None}] /\ down \in [Devices -> Seq(GitFrames)]
    BY DEF Dated
  <1>6. PICK next : next = data'[d] /\ (next = data[d] \/ (Tells(frame) /\ next = frame.status))
    BY <1>4, <1>5
  <1>7. /\ Tail(q) \in Seq(GitFrames) /\ InTurn(next, Tail(q))
        /\ \A i \in DOMAIN Tail(q) : \E j \in DOMAIN q : Tail(q)[i] = q[j]
        /\ frame \in GitFrames /\ 1 \in DOMAIN q /\ frame = q[1]
        /\ Tells(frame) => NotOlder(data[d], frame.status)
    BY <1>1, <1>2, <1>6, TakenInTurn
  <1>8. \A e \in Devices \ {d} : data'[e] = data[e] /\ down'[e] = down[e]
    BY <1>3, <1>4, <1>5
  <1>9. down'[d] = Tail(q) /\ down' \in [Devices -> Seq(GitFrames)]
    BY <1>3, <1>5, <1>7
  <1>10. data' \in [Devices -> Status \cup {None}]
    <2>1. frame.status \in Status \cup {None}
      BY <1>7 DEF GitFrames
    <2> QED BY <1>4, <1>5, <2>1
  <1>11. Read' /\ \A s : Behind(s) => Behind(s)'
    BY <1>3, ReadStill DEF Dated
  <1>12. ASSUME NEW e \in Devices
         PROVE  /\ Behind(data[e])' /\ AllBehind(down[e])' /\ InTurn(data[e], down[e])'
                /\ NotOlder(data[e], data'[e])
    <2>1. PICK s, r : s = data'[e] /\ r = down'[e]
      OBVIOUS
    <2>2. Behind(s) /\ AllBehind(r) /\ InTurn(s, r) /\ NotOlder(data[e], s)
      <3>1. CASE e # d
        <4>1. s = data[e] /\ r = down[e]
          BY <1>8, <2>1, <3>1
        <4> QED BY <1>5, <4>1, SameAge DEF Dated
      <3>2. CASE e = d
        <4>1. s = next /\ r = Tail(q)
          BY <1>6, <1>9, <2>1, <3>2
        <4>2. AllBehind(r)
          BY <1>1, <1>7, <4>1 DEF AllBehind
        <4>3. Behind(s) /\ NotOlder(data[d], s)
          <5>1. CASE next = data[d]
            BY <1>5, <4>1, <5>1, SameAge DEF Dated
          <5>2. CASE Tells(frame) /\ next = frame.status
            BY <1>1, <1>7, <4>1, <5>2 DEF AllBehind
          <5> QED BY <1>6, <5>1, <5>2
        <4> QED BY <1>7, <3>2, <4>1, <4>2, <4>3
      <3> QED BY <3>1, <3>2
    <2>3. Behind(s)' /\ AllBehind(r)'
      <3>1. ASSUME NEW i \in DOMAIN r, Tells(r[i]) PROVE r[i].status # None /\ Behind(r[i].status)'
        BY <1>11, <2>2, <3>1 DEF AllBehind
      <3> QED BY <1>11, <2>2, <3>1 DEF AllBehind, Tells
    <2>4. Behind(data[e])' /\ AllBehind(down[e])'
      BY <2>1, <2>3 DEF Behind, AllBehind
    <2> QED BY <2>1, <2>2, <2>4 DEF InTurn, Tells, NotOlder
  <1> QED BY <1>9, <1>10, <1>11, <1>12 DEF Dated

-----------------------------------------------------------------------------
(* What the watcher and the bars keep, step by step.                       *)

Kept == Heard /\ Dated

LEMMA KeptFirst ==
    ASSUME GitWatchAssumption, WatchInit
    PROVE  Kept
  BY HeardFirst, DatedFirst DEF GitWatchAssumption, Kept

LEMMA KeptBySystem ==
    ASSUME Kept, GitWatchAssumption, NoStatusAssumption, System
    PROVE  Kept'
  <1>1. Heard /\ Dated /\ MaxEdits \in Nat
    BY DEF Kept, GitWatchAssumption
  <1>2. CASE FetchSteps
    <2>1. Heard'
      BY <1>1, <1>2, HeardWatcher
    <2>2. Dated'
      BY <1>1, <1>2, DatedBegins, DatedEnds DEF FetchSteps
    <2> QED BY <2>1, <2>2 DEF Kept
  <1>3. CASE DebounceFires \/ SelfHeal
    BY <1>1, <1>3, HeardWatcher, DatedAnew DEF Kept
  <1>4. CASE Closing
    <2>1. UNCHANGED <<disk, cached, inFlight, fetches, down, data>>
      BY <1>4 DEF Closing, NoticeClose, client
    <2> QED BY <1>1, <1>4, <2>1, HeardClosing, DatedOther DEF Kept
  <1>5. CASE \E d \in Devices : Handle(d)
    BY <1>1, <1>5, HeardHandle, DatedHandle DEF Kept
  <1>6. ASSUME NEW d \in Devices, Deliver(d) PROVE Kept'
    <2>1. Head(down[d]) \in GitFrames
      BY <1>1, <1>6 DEF Deliver, Dated
    <2>2. Head(down[d]).effect \in Nat
      BY <2>1 DEF GitFrames
    <2> QED BY <1>1, <1>6, <2>2, HeardDeliver, DatedDeliver DEF Kept
  <1>7. ASSUME NEW d \in Devices, RetryQuery(d) PROVE Kept'
    <2>1. UNCHANGED <<disk, cached, inFlight, fetches, down, data>>
      BY <1>7 DEF RetryQuery, watcher
    <2> QED BY <1>1, <1>7, <2>1, HeardRetry, DatedOther DEF Kept
  <1> QED BY <1>2, <1>3, <1>4, <1>5, <1>6, <1>7 DEF System

LEMMA KeptByEnvironment ==
    ASSUME Kept, GitWatchAssumption, NoStatusAssumption, Environment
    PROVE  Kept'
  <1>1. Heard /\ Dated /\ MaxEdits \in Nat
    BY DEF Kept, GitWatchAssumption
  <1>2. CASE EditTree \/ MoveHead \/ GitInit
    BY <1>1, <1>2, HeardWatcher, DatedEdit DEF Kept
  <1>3. ASSUME NEW d \in Devices, Mount(d) \/ Unmount(d) \/ Reconnect(d) PROVE Kept'
    <2>1. UNCHANGED <<disk, cached, inFlight, fetches, down, data>>
      BY <1>3 DEF Mount, Unmount, Reconnect, watcher
    <2> QED BY <1>1, <1>3, <2>1, HeardMount, HeardUnmount, HeardReconnect, DatedOther DEF Kept
  <1>4. ASSUME NEW d \in Devices, Drop(d) PROVE Kept'
    BY <1>1, <1>4, HeardDrop, DatedDrop DEF Kept
  <1> QED BY <1>2, <1>3, <1>4 DEF Environment

LEMMA KeptAside ==
    ASSUME Kept, UNCHANGED watchvars
    PROVE  Kept'
  <1>1. UNCHANGED <<disk, handles, healing, debounce, cached, inFlight, fetches, listeners,
                    open, epoch, online, up, down, runs, mount, owner, acked, data>>
    BY DEF watchvars, watcher, client, wires
  <1>2. Watched'
    BY <1>1 DEF Kept, Heard, Watched
  <1> QED BY <1>1, <1>2, HeardAside, DatedOther DEF Kept

LEMMA KeptAlways == WatchSpec => []Kept
  <1>1. WatchInit => Kept
    BY KeptFirst, GitWatchAssumption
  <1>2. Kept /\ [WatchNext]_watchvars => Kept'
    BY KeptBySystem, KeptByEnvironment, KeptAside, GitWatchAssumption, NoStatusAssumption DEF WatchNext
  <1> QED BY <1>1, <1>2, PTL DEF WatchSpec

\* The handles, the debounce and the self-heal interval exist for listeners
\* alone, every listener is of an open connection, and a mounted bar whose
\* subscribe was answered has the callback slot and its listener, for any
\* number of devices, mounts and reconnections
\* (git-watch.ts subscribe and stopWatching, daemon-client.ts unsubscribeGitStatusOwned).
THEOREM WatchedForSomeone == WatchSpec => []WatchesForSomeone
  <1>1. Kept => WatchesForSomeone
    <2> SUFFICES ASSUME Heard PROVE WatchesForSomeone
      BY DEF Kept
    <2>1. ASSUME NEW d \in Devices, online[d], acked[d] # 0
          PROVE  owner[d] = acked[d] /\ Registered(d)
      <3>1. acked[d] = mount[d] /\ mount[d] # 0
        BY <2>1 DEF Heard, Attended
      <3>2. owner[d] = mount[d] /\ Subscribed(up[d], Conn(d), listeners)
        BY <2>1, <3>1 DEF Heard, Attended
      <3> QED BY <3>1, <3>2, RegisteredSo DEF Heard, Wired
    <2> QED BY <2>1 DEF Heard, Watched, WatchesForSomeone
  <1> QED BY <1>1, KeptAlways, PTL

\* What a status bar shows never goes back to an older state of the
\* repository, by whichever of its two ways a status reaches it, for any
\* number of devices and edits (git-watch.ts refresh and its one fetch in flight).
THEOREM NeverOlder == WatchSpec => NeverGoesBack
  <1>1. Kept /\ [WatchNext]_watchvars => [\A d \in Devices : NotOlder(data[d], data'[d])]_watchvars
    <2> SUFFICES ASSUME Kept, WatchNext PROVE \A d \in Devices : NotOlder(data[d], data'[d])
      OBVIOUS
    <2>1. Dated /\ MaxEdits \in Nat
      BY GitWatchAssumption DEF Kept, GitWatchAssumption
    <2>2. CASE data' = data
      BY <2>1, <2>2, SameAge, NoStatusAssumption DEF Dated
    <2>3. CASE \E d \in Devices : Deliver(d)
      BY <2>1, <2>3, DatedDeliver, NoStatusAssumption
    <2>4. data' = data \/ \E d \in Devices : Deliver(d)
      BY DEF WatchNext, System, Environment, FetchSteps, FetchBegins, FetchSettles,
             DebounceFires, SelfHeal, Closing, NoticeClose, Handle,
             HandleGetStatus, HandleSubscribe, HandleUnsubscribe, RetryQuery,
             EditTree, MoveHead, GitInit, Mount, Unmount, Drop,
             Reconnect, client
    <2> QED BY <2>2, <2>3, <2>4
  <1> QED BY <1>1, KeptAlways, PTL DEF WatchSpec, NeverGoesBack

-----------------------------------------------------------------------------
(* The terminal (Terminal).                                                *)

PaneFrames == [kind : {"opened", "snapshot", "chunk"}, n : Nat]
ShellRecords ==
    [id : Nat, alive : BOOLEAN, out : Nat, parsed : Nat, socket : Nat, outstanding : Nat]
SocketRecords ==
    [pane : Panes \cup {GoneSocket.pane}, state : {"dialling", "open", "kicked", "left", "gone"},
     shell : Nat, down : Seq(PaneFrames), up : Seq(Nat)]
PaneRecords ==
    [mounted : BOOLEAN, ws : Nat, retry : BOOLEAN, acked : Nat, screen : Seq(Nat)]

Plugged ==
    /\ shell \in ShellRecords /\ sockets \in [Sockets -> SocketRecords]
    /\ panes \in [Panes -> PaneRecords] /\ spawned \in Nat /\ dialled \in Nat

\* The pane's end of a socket is closed before the pane lets go of it: a
\* socket that may still bring something is the pane's present one.
InPlace(state) == state \in {"dialling", "open", "kicked"}
Tied ==
    /\ \A k \in Sockets :
          InPlace(sockets[k].state) =>
              sockets[k].pane \in Panes /\ panes[sockets[k].pane].ws = k
    /\ \A p \in Panes :
          /\ panes[p].ws # 0 =>
                /\ panes[p].ws \in Sockets /\ panes[p].ws <= dialled
                /\ sockets[panes[p].ws].pane = p /\ InPlace(sockets[panes[p].ws].state)
                /\ panes[p].mounted /\ ~panes[p].retry
          /\ panes[p].retry => panes[p].mounted

\* Ids of shells are not used again; an open socket of the live shell is its
\* client.
Clients ==
    /\ shell.id <= spawned /\ shell.parsed <= shell.out
    /\ \A k \in Sockets :
          /\ sockets[k].shell <= spawned
          /\ sockets[k].state = "open" =>
                /\ sockets[k].shell # 0
                /\ shell.id = sockets[k].shell => shell.socket = k
    /\ shell.socket # 0 =>
          /\ shell.socket \in Sockets
          /\ sockets[shell.socket].state = "open" => sockets[shell.socket].shell = shell.id

\* g holds what a screen shows after each of the frames.
Draws(g, screen, frames) ==
    /\ g \in [0 .. Len(frames) -> Seq(Nat)]
    /\ g[0] = screen
    /\ \A i \in 1 .. Len(frames) : g[i] = Drawn(g[i - 1], frames[i])

\* A snapshot of `held` chunks, then everything from `from` on.
Told(held, from, out) ==
    [i \in 1 .. held |-> i] \o [i \in 1 .. (out - from) |-> from + i]

Hears(screen, frames, out) ==
    \E g, held, from :
        /\ held \in 0 .. out /\ from \in 0 .. out /\ held <= from
        /\ Draws(g, screen, frames) /\ g[Len(frames)] = Told(held, from, out)

AllHear ==
    \A k \in Sockets : (sockets[k].state = "open" /\ shell.id = sockets[k].shell) =>
        Hears(panes[sockets[k].pane].screen, sockets[k].down, shell.out)

Plumbed == Plugged /\ Tied /\ Clients /\ AllHear /\ BacklogIsOwed

-----------------------------------------------------------------------------
(* The screen after some frames.                                           *)

LEMMA FirstNumber ==
    ASSUME NEW T, T \subseteq Nat, T # {}
    PROVE  \E n \in T : \A m \in T : n <= m
  <1> DEFINE less == {pair \in Nat \X Nat : pair[1] < pair[2]}
  <1>1. IsWellFoundedOn(less, Nat)
    BY NatLessThanWellFounded, Zenon DEF OpToRel
  <1> HIDE DEF less
  <1>2. PICK n \in T : \A m \in T : <<m, n>> \notin less
    BY <1>1, WFMin, Zenon
  <1>3. \A m \in T : ~(m < n)
    BY <1>2 DEF less
  <1> QED BY <1>3

\* Two functions that begin alike and go on alike are alike.
LEMMA GoOnAlike ==
    ASSUME NEW n \in Nat, NEW g, NEW h, g[0] = h[0],
           \A i \in 1 .. n : g[i - 1] = h[i - 1] => g[i] = h[i]
    PROVE  g[n] = h[n]
  <1> DEFINE T == {i \in 0 .. n : g[i] # h[i]}
  <1> SUFFICES ASSUME T # {} PROVE FALSE
    OBVIOUS
  <1>1. PICK i \in T : \A m \in T : i <= m
    <2>1. T \subseteq Nat
      OBVIOUS
    <2> HIDE DEF T
    <2> QED BY <2>1, FirstNumber
  <1>2. i \in 1 .. n /\ i - 1 \in 0 .. n
    BY <1>1
  <1>3. i - 1 \notin T
    BY <1>1, <1>2
  <1> QED BY <1>1, <1>2, <1>3

LEMMA ComingIs ==
    ASSUME NEW k \in Sockets, NEW g, sockets[k].down \in Seq(PaneFrames),
           Draws(g, panes[sockets[k].pane].screen, sockets[k].down)
    PROVE  Coming(k) = g[Len(sockets[k].down)]
  <1>1. PICK frames \in Seq(PaneFrames) : frames = sockets[k].down
    OBVIOUS
  <1>2. PICK first : first = panes[sockets[k].pane].screen
    OBVIOUS
  <1>3. PICK n \in Nat : n = Len(frames)
    OBVIOUS
  <1>4. g \in [0 .. n -> Seq(Nat)] /\ g[0] = first /\ \A i \in 1 .. n : g[i] = Drawn(g[i - 1], frames[i])
    BY <1>1, <1>2, <1>3 DEF Draws
  <1>5. g = [i \in 0 .. n |-> IF i = 0 THEN first ELSE Drawn(g[i - 1], frames[i])]
    BY <1>4
  <1>6. PICK h :
          /\ h = [i \in 0 .. n |-> IF i = 0 THEN first ELSE Drawn(h[i - 1], frames[i])]
          /\ Coming(k) = h[n]
    BY <1>1, <1>2, <1>3, <1>5, Zenon DEF Coming
  <1>7. h[0] = first /\ \A i \in 1 .. n : h[i] = Drawn(h[i - 1], frames[i])
    BY <1>6
  <1>8. g[n] = h[n]
    <2>1. g[0] = h[0] /\ \A i \in 1 .. n : g[i - 1] = h[i - 1] => g[i] = h[i]
      BY <1>4, <1>7
    <2> QED BY <2>1, GoOnAlike
  <1> QED BY <1>1, <1>3, <1>6, <1>8

LEMMA DrawnIs ==
    ASSUME NEW screen \in Seq(Nat), NEW frame \in PaneFrames
    PROVE  Drawn(screen, frame) \in Seq(Nat)
  <1>1. frame.kind \in {"opened", "snapshot", "chunk"} /\ frame.n \in Nat
    BY DEF PaneFrames
  <1>2. CASE frame.kind = "opened"
    BY <1>2 DEF Drawn
  <1>3. CASE frame.kind = "snapshot"
    <2>1. [i \in 1 .. frame.n |-> i] \in Seq(Nat)
      BY <1>1
    <2>2. screen \o [i \in 1 .. frame.n |-> i] \in Seq(Nat)
      BY <2>1
    <2> QED BY <1>3, <2>2 DEF Drawn
  <1>4. CASE frame.kind = "chunk"
    BY <1>1, <1>4 DEF Drawn
  <1> QED BY <1>1, <1>2, <1>3, <1>4

\* One frame more on its way.
LEMMA DrawsMore ==
    ASSUME NEW g, NEW screen, NEW frames \in Seq(PaneFrames), Draws(g, screen, frames),
           NEW frame \in PaneFrames
    PROVE  \E h : /\ Draws(h, screen, Append(frames, frame))
                  /\ h[Len(Append(frames, frame))] = Drawn(g[Len(frames)], frame)
                  /\ g[Len(frames)] \in Seq(Nat)
  <1>1. PICK n \in Nat : n = Len(frames)
    OBVIOUS
  <1>2. PICK longer \in Seq(PaneFrames) : longer = Append(frames, frame)
    <2>1. Append(frames, frame) \in Seq(PaneFrames)
      OBVIOUS
    <2> QED BY <2>1
  <1>3. Len(longer) = n + 1 /\ longer[n + 1] = frame /\ \A i \in 1 .. n : longer[i] = frames[i]
    BY <1>1, <1>2
  <1>4. g \in [0 .. n -> Seq(Nat)] /\ g[0] = screen /\ \A i \in 1 .. n : g[i] = Drawn(g[i - 1], frames[i])
    BY <1>1 DEF Draws
  <1>5. g[n] \in Seq(Nat)
    BY <1>4
  <1>6. PICK last \in Seq(Nat) : last = Drawn(g[n], frame)
    BY <1>5, DrawnIs
  <1>7. PICK h : h = [i \in 0 .. n + 1 |-> IF i = n + 1 THEN last ELSE g[i]]
    OBVIOUS
  <1>8. h \in [0 .. n + 1 -> Seq(Nat)] /\ h[0] = screen /\ h[n + 1] = last /\ \A i \in 0 .. n : h[i] = g[i]
    BY <1>4, <1>6, <1>7
  <1>9. ASSUME NEW i \in 1 .. n + 1 PROVE h[i] = Drawn(h[i - 1], longer[i])
    <2>1. CASE i = n + 1
      BY <1>3, <1>6, <1>8, <2>1
    <2>2. CASE i # n + 1
      <3>1. i \in 1 .. n /\ i - 1 \in 0 .. n /\ i \in 0 .. n
        BY <2>2
      <3> QED BY <1>3, <1>4, <1>8, <3>1
    <2> QED BY <2>1, <2>2
  <1>10. Draws(h, screen, longer)
    BY <1>3, <1>8, <1>9 DEF Draws
  <1> QED BY <1>1, <1>2, <1>3, <1>5, <1>6, <1>8, <1>10

\* The first frame is drawn.
LEMMA DrawsLess ==
    ASSUME NEW g, NEW screen, NEW frames \in Seq(PaneFrames), frames # <<>>, Draws(g, screen, frames)
    PROVE  \E h : /\ Draws(h, Drawn(screen, Head(frames)), Tail(frames))
                  /\ h[Len(Tail(frames))] = g[Len(frames)]
  <1>1. PICK n \in Nat : n = Len(frames) /\ n > 0
    <2>1. Len(frames) \in Nat /\ Len(frames) > 0
      OBVIOUS
    <2> QED BY <2>1
  <1>2. PICK rest \in Seq(PaneFrames) : rest = Tail(frames)
    <2>1. Tail(frames) \in Seq(PaneFrames)
      OBVIOUS
    <2> QED BY <2>1
  <1>3. Len(rest) = n - 1 /\ Head(frames) = frames[1] /\ \A i \in 1 .. n - 1 : rest[i] = frames[i + 1]
    BY <1>1, <1>2
  <1>4. g \in [0 .. n -> Seq(Nat)] /\ g[0] = screen /\ \A i \in 1 .. n : g[i] = Drawn(g[i - 1], frames[i])
    BY <1>1 DEF Draws
  <1>5. PICK h : h = [i \in 0 .. n - 1 |-> g[i + 1]]
    OBVIOUS
  <1>6. g[1] = Drawn(screen, frames[1])
    BY <1>1, <1>4
  <1>7. h \in [0 .. n - 1 -> Seq(Nat)] /\ h[0] = Drawn(screen, Head(frames)) /\ h[n - 1] = g[n]
    BY <1>1, <1>3, <1>4, <1>5, <1>6
  <1>8. ASSUME NEW i \in 1 .. n - 1 PROVE h[i] = Drawn(h[i - 1], rest[i])
    <2>1. i + 1 \in 1 .. n /\ i \in 0 .. n - 1 /\ i - 1 \in 0 .. n - 1 /\ (i + 1) - 1 = i /\ (i - 1) + 1 = i
      BY <1>1
    <2>2. h[i] = g[i + 1] /\ h[i - 1] = g[i]
      BY <1>5, <2>1
    <2>3. g[i + 1] = Drawn(g[i], frames[i + 1])
      BY <1>4, <2>1
    <2> QED BY <1>3, <2>2, <2>3
  <1>9. Draws(h, Drawn(screen, Head(frames)), rest)
    BY <1>3, <1>7, <1>8 DEF Draws
  <1> QED BY <1>1, <1>2, <1>3, <1>7, <1>9

LEMMA ToldMore ==
    ASSUME NEW out \in Nat, NEW held \in 0 .. out, NEW from \in 0 .. out
    PROVE  Append(Told(held, from, out), out + 1) = Told(held, from, out + 1)
  <1>1. PICK a \in Seq(Nat) : a = [i \in 1 .. held |-> i] /\ Len(a) = held
    <2>1. [i \in 1 .. held |-> i] \in Seq(Nat) /\ Len([i \in 1 .. held |-> i]) = held
      OBVIOUS
    <2> QED BY <2>1
  <1>2. PICK n \in Nat : n = out - from
    OBVIOUS
  <1>3. PICK b \in Seq(Nat) : b = [i \in 1 .. n |-> from + i] /\ Len(b) = n
    <2>1. [i \in 1 .. n |-> from + i] \in Seq(Nat) /\ Len([i \in 1 .. n |-> from + i]) = n
      OBVIOUS
    <2> QED BY <2>1
  <1>4. PICK c \in Seq(Nat) : c = [i \in 1 .. n + 1 |-> from + i] /\ Len(c) = n + 1
    <2>1. [i \in 1 .. n + 1 |-> from + i] \in Seq(Nat) /\ Len([i \in 1 .. n + 1 |-> from + i]) = n + 1
      OBVIOUS
    <2> QED BY <2>1
  <1>5. c = Append(b, out + 1)
    <2>1. PICK e \in Seq(Nat) : e = Append(b, out + 1)
      <3>1. Append(b, out + 1) \in Seq(Nat)
        BY <1>3
      <3> QED BY <3>1
    <2>2. Len(e) = n + 1 /\ e[n + 1] = out + 1 /\ \A i \in 1 .. n : e[i] = b[i]
      BY <1>3, <2>1
    <2>4. ASSUME NEW i \in 1 .. n + 1 PROVE e[i] = from + i
      <3>1. CASE i = n + 1
        BY <1>2, <2>2, <3>1
      <3>2. CASE i # n + 1
        <4>1. i \in 1 .. n
          BY <3>2
        <4> QED BY <1>3, <2>2, <4>1
      <3> QED BY <3>1, <3>2
    <2>3. e = [i \in 1 .. Len(e) |-> e[i]]
      BY <2>1
    <2> QED BY <1>4, <2>1, <2>2, <2>3, <2>4
  <1>6. Append(a \o b, out + 1) = a \o Append(b, out + 1)
    BY <1>1, <1>3
  <1>7. Told(held, from, out) = a \o b /\ Told(held, from, out + 1) = a \o c
    <2>1. (out + 1) - from = n + 1
      BY <1>2
    <2> QED BY <1>1, <1>2, <1>3, <1>4, <2>1 DEF Told
  <1> QED BY <1>5, <1>6, <1>7

LEMMA ToldFirst ==
    ASSUME NEW held \in Nat, NEW out \in Nat
    PROVE  Told(held, out, out) = [i \in 1 .. held |-> i]
  <1>1. PICK a \in Seq(Nat) : a = [i \in 1 .. held |-> i]
    <2>1. [i \in 1 .. held |-> i] \in Seq(Nat)
      OBVIOUS
    <2> QED BY <2>1
  <1>2. [i \in 1 .. out - out |-> out + i] = <<>>
    OBVIOUS
  <1>3. a \o <<>> = a
    BY <1>1
  <1> QED BY <1>1, <1>2, <1>3 DEF Told

LEMMA HearsWith ==
    ASSUME NEW g, NEW screen, NEW frames, NEW out, NEW held, NEW from,
           held \in 0 .. out, from \in 0 .. out, held <= from,
           Draws(g, screen, frames), g[Len(frames)] = Told(held, from, out)
    PROVE  Hears(screen, frames, out)
  BY Zenon DEF Hears

\* What a new client is sent draws what the headless terminal holds.
LEMMA GreetingDraws ==
    ASSUME NEW held \in Nat, NEW s, s.parsed = held, NEW screen \in Seq(Nat)
    PROVE  /\ Greeting(s) \in Seq(PaneFrames)
           /\ \E g : /\ Draws(g, screen, Greeting(s))
                     /\ g[Len(Greeting(s))] = [i \in 1 .. held |-> i]
  <1>1. PICK start : start = [i \in 0 .. 0 |-> screen]
    OBVIOUS
  <1>2. PICK none \in Seq(PaneFrames) : none = <<>> /\ Len(none) = 0
    <2>1. <<>> \in Seq(PaneFrames) /\ Len(<<>>) = 0
      OBVIOUS
    <2> QED BY <2>1
  <1>s. Draws(start, screen, none)
    <2>1. start \in [0 .. 0 -> Seq(Nat)] /\ start[0] = screen /\ 1 .. 0 = {}
      BY <1>1
    <2> QED BY <1>2, <2>1 DEF Draws
  <1>3. PICK frame \in PaneFrames : frame = Opened /\ frame.kind = "opened"
    <2>1. Opened \in PaneFrames /\ Opened.kind = "opened"
      BY DEF Opened, PaneFrames
    <2> QED BY <2>1
  <1>4. PICK one \in Seq(PaneFrames) : one = <<frame>> /\ one = Append(none, frame) /\ Len(one) = 1
    <2>1. <<frame>> \in Seq(PaneFrames) /\ <<frame>> = Append(<<>>, frame) /\ Len(<<frame>>) = 1
      OBVIOUS
    <2> QED BY <1>2, <2>1
  <1>5. PICK g : Draws(g, screen, one) /\ g[Len(one)] = Drawn(start[Len(none)], frame)
    <2>1. PICK g : /\ Draws(g, screen, Append(none, frame))
                   /\ g[Len(Append(none, frame))] = Drawn(start[Len(none)], frame)
      BY <1>s, DrawsMore
    <2> QED BY <1>4, <2>1
  <1>6. g[Len(one)] = <<>>
    BY <1>3, <1>5 DEF Drawn
  <1>7. CASE held = 0
    <2>1. Greeting(s) = one
      BY <1>3, <1>4, <1>7 DEF Greeting
    <2>2. [i \in 1 .. held |-> i] = <<>>
      BY <1>7
    <2> QED BY <1>5, <1>6, <2>1, <2>2
  <1>8. CASE held # 0
    <2>1. PICK second \in PaneFrames : second = Snapshot(held) /\ second.kind = "snapshot" /\ second.n = held
      <3>1. Snapshot(held) \in PaneFrames /\ Snapshot(held).kind = "snapshot" /\ Snapshot(held).n = held
        BY DEF Snapshot, PaneFrames
      <3> QED BY <3>1
    <2>2. PICK two : two = Append(one, second)
      OBVIOUS
    <2>3. Greeting(s) = two
      <3>1. <<frame, second>> = Append(<<frame>>, second)
        OBVIOUS
      <3> QED BY <1>3, <1>4, <1>8, <2>1, <2>2, <3>1 DEF Greeting
    <2>4. two \in Seq(PaneFrames)
      BY <2>2
    <2>5. PICK h : Draws(h, screen, two) /\ h[Len(two)] = Drawn(g[Len(one)], second)
      BY <1>5, <2>2, DrawsMore
    <2>6. PICK image \in Seq(Nat) : image = [i \in 1 .. held |-> i]
      <3>1. [i \in 1 .. held |-> i] \in Seq(Nat)
        OBVIOUS
      <3> QED BY <3>1
    <2>7. Drawn(<<>>, second) = <<>> \o image
      BY <2>1, <2>6 DEF Drawn
    <2>8. <<>> \o image = image
      OBVIOUS
    <2> QED BY <1>6, <2>3, <2>4, <2>5, <2>6, <2>7, <2>8
  <1> QED BY <1>7, <1>8

-----------------------------------------------------------------------------
(* Sums.                                                                   *)

Totals(t, s, n) ==
    /\ t \in [0 .. n -> Nat] /\ t[0] = 0
    /\ \A i \in 1 .. n : t[i] = t[i - 1] + s[i]

LEMMA TotalsExist ==
    ASSUME NEW s \in Seq(Nat)
    PROVE  \A n \in 0 .. Len(s) : \E t : Totals(t, s, n)
  <1> DEFINE T == {n \in 0 .. Len(s) : ~ \E t : Totals(t, s, n)}
  <1> SUFFICES ASSUME T # {} PROVE FALSE
    OBVIOUS
  <1>1. PICK n \in T : \A m \in T : n <= m
    <2>1. T \subseteq Nat
      OBVIOUS
    <2> HIDE DEF T
    <2> QED BY <2>1, FirstNumber
  <1>2. n \in 0 .. Len(s) /\ ~ \E t : Totals(t, s, n)
    OBVIOUS
  <1>3. CASE n = 0
    <2>1. Totals([i \in 0 .. 0 |-> 0], s, 0)
      BY DEF Totals
    <2> QED BY <2>1, <1>2, <1>3
  <1>4. CASE n # 0
    <2>1. n - 1 \in 0 .. Len(s) /\ n - 1 \notin T /\ n \in 1 .. Len(s)
      BY <1>1, <1>2, <1>4
    <2>2. PICK t : Totals(t, s, n - 1)
      BY <2>1
    <2>3. PICK last \in Nat : last = t[n - 1] + s[n]
      <3>1. t[n - 1] \in Nat /\ s[n] \in Nat
        BY <2>1, <2>2 DEF Totals
      <3> QED BY <3>1
    <2>4. PICK u : u = [i \in 0 .. n |-> IF i = n THEN last ELSE t[i]]
      OBVIOUS
    <2>5. t \in [0 .. n - 1 -> Nat] /\ t[0] = 0 /\ \A i \in 1 .. n - 1 : t[i] = t[i - 1] + s[i]
      BY <2>2 DEF Totals
    <2>6. u \in [0 .. n -> Nat] /\ u[0] = 0 /\ u[n] = last /\ \A i \in 0 .. n - 1 : u[i] = t[i]
      BY <2>1, <2>4, <2>5
    <2>7. ASSUME NEW i \in 1 .. n PROVE u[i] = u[i - 1] + s[i]
      <3>1. i - 1 \in 0 .. n - 1 /\ u[i - 1] = t[i - 1]
        BY <2>6
      <3>2. CASE i = n
        BY <2>3, <2>6, <3>1, <3>2
      <3>3. CASE i # n
        <4>1. i \in 1 .. n - 1 /\ i \in 0 .. n - 1
          BY <3>3
        <4> QED BY <2>5, <2>6, <3>1, <4>1
      <3> QED BY <3>2, <3>3
    <2> QED BY <2>6, <2>7, <1>2 DEF Totals
  <1> QED BY <1>3, <1>4

LEMMA SumIs ==
    ASSUME NEW s \in Seq(Nat), NEW t, Totals(t, s, Len(s))
    PROVE  Sum(s) = t[Len(s)] /\ Sum(s) \in Nat
  <1>1. PICK n \in Nat : n = Len(s)
    OBVIOUS
  <1>2. t \in [0 .. n -> Nat] /\ t[0] = 0 /\ \A i \in 1 .. n : t[i] = t[i - 1] + s[i]
    BY <1>1 DEF Totals
  <1>3. t = [i \in 0 .. n |-> IF i = 0 THEN 0 ELSE t[i - 1] + s[i]]
    BY <1>2
  <1>4. PICK u : u = [i \in 0 .. n |-> IF i = 0 THEN 0 ELSE u[i - 1] + s[i]] /\ Sum(s) = u[n]
    BY <1>1, <1>3, Zenon DEF Sum
  <1>5. u[0] = 0 /\ \A i \in 1 .. n : u[i] = u[i - 1] + s[i]
    BY <1>4
  <1>6. t[n] = u[n]
    <2>1. t[0] = u[0] /\ \A i \in 1 .. n : t[i - 1] = u[i - 1] => t[i] = u[i]
      BY <1>2, <1>5
    <2> QED BY <2>1, GoOnAlike
  <1>7. t[n] \in Nat
    BY <1>2
  <1> QED BY <1>1, <1>4, <1>6, <1>7

LEMMA SumAppend ==
    ASSUME NEW s \in Seq(Nat), NEW x \in Nat
    PROVE  Sum(Append(s, x)) = Sum(s) + x /\ Sum(s) \in Nat
  <1>1. PICK n \in Nat : n = Len(s)
    OBVIOUS
  <1>2. PICK longer \in Seq(Nat) : longer = Append(s, x)
    <2>1. Append(s, x) \in Seq(Nat)
      OBVIOUS
    <2> QED BY <2>1
  <1>3. Len(longer) = n + 1 /\ longer[n + 1] = x /\ \A i \in 1 .. n : longer[i] = s[i]
    BY <1>1, <1>2
  <1>4. PICK t : Totals(t, longer, n + 1)
    BY <1>3, TotalsExist
  <1>5. t \in [0 .. n + 1 -> Nat] /\ t[0] = 0 /\ \A i \in 1 .. n + 1 : t[i] = t[i - 1] + longer[i]
    BY <1>4 DEF Totals
  <1>6. PICK u : u = [i \in 0 .. n |-> t[i]]
    OBVIOUS
  <1>7. u \in [0 .. n -> Nat] /\ u[0] = 0 /\ u[n] = t[n] /\ \A i \in 1 .. n : u[i] = u[i - 1] + s[i]
    <2>1. ASSUME NEW i \in 1 .. n PROVE u[i] = u[i - 1] + s[i]
      <3>1. i \in 0 .. n /\ i - 1 \in 0 .. n /\ i \in 1 .. n + 1
        OBVIOUS
      <3>2. u[i] = t[i] /\ u[i - 1] = t[i - 1] /\ t[i] = t[i - 1] + longer[i] /\ longer[i] = s[i]
        BY <1>3, <1>5, <1>6, <3>1
      <3> QED BY <3>2
    <2>2. u \in [0 .. n -> Nat] /\ u[0] = t[0] /\ u[n] = t[n]
      BY <1>5, <1>6
    <2> QED BY <1>5, <2>1, <2>2
  <1>8. Totals(u, s, n)
    BY <1>7 DEF Totals
  <1>9. Sum(s) = t[n] /\ Sum(s) \in Nat
    BY <1>1, <1>7, <1>8, SumIs
  <1>10. Sum(longer) = t[n + 1]
    BY <1>3, <1>4, SumIs
  <1>11. t[n + 1] = t[n] + x
    <2>1. n + 1 \in 1 .. n + 1 /\ (n + 1) - 1 = n
      OBVIOUS
    <2> QED BY <1>3, <1>5, <2>1
  <1> QED BY <1>2, <1>9, <1>10, <1>11

LEMMA SumTail ==
    ASSUME NEW s \in Seq(Nat), s # <<>>
    PROVE  Sum(s) = Sum(Tail(s)) + Head(s) /\ Sum(Tail(s)) \in Nat /\ Head(s) \in Nat
  <1>1. PICK n \in Nat : n = Len(s) /\ n > 0
    <2>1. Len(s) \in Nat /\ Len(s) > 0
      OBVIOUS
    <2> QED BY <2>1
  <1>2. PICK rest \in Seq(Nat) : rest = Tail(s)
    <2>1. Tail(s) \in Seq(Nat)
      OBVIOUS
    <2> QED BY <2>1
  <1>3. Len(rest) = n - 1 /\ Head(s) = s[1] /\ s[1] \in Nat /\ \A i \in 1 .. n - 1 : rest[i] = s[i + 1]
    BY <1>1, <1>2
  <1>4. PICK t : Totals(t, rest, n - 1)
    <2>1. n - 1 \in 0 .. Len(rest)
      BY <1>1, <1>3
    <2> QED BY <2>1, TotalsExist
  <1>5. t \in [0 .. n - 1 -> Nat] /\ t[0] = 0 /\ \A i \in 1 .. n - 1 : t[i] = t[i - 1] + rest[i]
    BY <1>4 DEF Totals
  <1>6. PICK u : u = [i \in 0 .. n |-> IF i = 0 THEN 0 ELSE t[i - 1] + s[1]]
    OBVIOUS
  <1>7. u \in [0 .. n -> Nat] /\ u[0] = 0 /\ u[n] = t[n - 1] + s[1]
    BY <1>1, <1>3, <1>5, <1>6
  <1>8. ASSUME NEW i \in 1 .. n PROVE u[i] = u[i - 1] + s[i]
    <2>1. CASE i = 1
      <3>1. u[1] = t[0] + s[1] /\ u[0] = 0
        BY <1>1, <1>6, <1>7
      <3> QED BY <1>3, <1>5, <2>1, <3>1
    <2>2. CASE i # 1
      <3>1. i - 1 \in 1 .. n - 1 /\ i - 1 \in 0 .. n /\ i - 1 # 0 /\ (i - 1) + 1 = i
        BY <2>2
      <3>2. u[i] = t[i - 1] + s[1] /\ u[i - 1] = t[(i - 1) - 1] + s[1]
        BY <1>6, <3>1
      <3>3. t[i - 1] = t[(i - 1) - 1] + s[i] /\ t[(i - 1) - 1] \in Nat /\ s[i] \in Nat
        <4>1. (i - 1) - 1 \in 0 .. n - 1
          BY <3>1
        <4>2. t[i - 1] = t[(i - 1) - 1] + rest[i - 1] /\ rest[i - 1] = s[i]
          BY <1>3, <1>5, <3>1
        <4>3. s[i] \in Nat
          BY <1>1
        <4> QED BY <1>5, <4>1, <4>2, <4>3
      <3> QED BY <1>3, <3>2, <3>3
    <2> QED BY <2>1, <2>2
  <1>9. Totals(u, s, n)
    BY <1>7, <1>8 DEF Totals
  <1>10. Sum(s) = u[n]
    BY <1>1, <1>9, SumIs
  <1>11. Sum(rest) = t[n - 1] /\ Sum(rest) \in Nat
    BY <1>3, <1>4, SumIs
  <1> QED BY <1>2, <1>3, <1>7, <1>10, <1>11

Counted(frames) == [i \in DOMAIN frames |-> IF frames[i].kind = "chunk" THEN 1 ELSE 0]

LEMMA CountedIs ==
    ASSUME NEW frames \in Seq(PaneFrames)
    PROVE  /\ Counted(frames) \in Seq(Nat) /\ Live(frames) = Sum(Counted(frames))
           /\ Len(Counted(frames)) = Len(frames)
           /\ \A i \in 1 .. Len(frames) :
                 Counted(frames)[i] = IF frames[i].kind = "chunk" THEN 1 ELSE 0
  <1>1. PICK n \in Nat : n = Len(frames) /\ DOMAIN frames = 1 .. n
    <2>1. Len(frames) \in Nat /\ DOMAIN frames = 1 .. Len(frames)
      OBVIOUS
    <2> QED BY <2>1
  <1>2. Counted(frames) = [i \in 1 .. n |-> IF frames[i].kind = "chunk" THEN 1 ELSE 0]
    BY <1>1 DEF Counted
  <1>3. [i \in 1 .. n |-> IF frames[i].kind = "chunk" THEN 1 ELSE 0] \in Seq(Nat)
    OBVIOUS
  <1> QED BY <1>1, <1>2, <1>3 DEF Live, Counted

LEMMA LiveAppend ==
    ASSUME NEW frames \in Seq(PaneFrames), NEW frame \in PaneFrames, frame.kind = "chunk"
    PROVE  Live(Append(frames, frame)) = Live(frames) + 1 /\ Live(frames) \in Nat
  <1>1. PICK n \in Nat : n = Len(frames)
    OBVIOUS
  <1>2. PICK longer \in Seq(PaneFrames) : longer = Append(frames, frame)
    <2>1. Append(frames, frame) \in Seq(PaneFrames)
      OBVIOUS
    <2> QED BY <2>1
  <1>3. Len(longer) = n + 1 /\ longer[n + 1] = frame /\ \A i \in 1 .. n : longer[i] = frames[i]
    BY <1>1, <1>2
  <1>4. PICK a \in Seq(Nat) : /\ a = Counted(frames) /\ Live(frames) = Sum(a) /\ Len(a) = n
                              /\ \A i \in 1 .. n : a[i] = IF frames[i].kind = "chunk" THEN 1 ELSE 0
    BY <1>1, CountedIs
  <1>5. PICK b \in Seq(Nat) : /\ b = Counted(longer) /\ Live(longer) = Sum(b) /\ Len(b) = n + 1
                              /\ \A i \in 1 .. n + 1 : b[i] = IF longer[i].kind = "chunk" THEN 1 ELSE 0
    BY <1>3, CountedIs
  <1>6. b = Append(a, 1)
    <2>1. PICK e \in Seq(Nat) : e = Append(a, 1) /\ Len(e) = n + 1 /\ e[n + 1] = 1 /\ \A i \in 1 .. n : e[i] = a[i]
      <3>1. PICK e \in Seq(Nat) : e = Append(a, 1)
        <4>1. Append(a, 1) \in Seq(Nat)
          OBVIOUS
        <4> QED BY <4>1
      <3>2. Len(e) = n + 1 /\ e[n + 1] = 1 /\ \A i \in 1 .. n : e[i] = a[i]
        BY <1>4, <3>1
      <3> QED BY <3>1, <3>2
    <2>2. \A i \in 1 .. n + 1 : b[i] = e[i]
      <3> SUFFICES ASSUME NEW i \in 1 .. n + 1 PROVE b[i] = e[i]
        OBVIOUS
      <3>1. CASE i = n + 1
        BY <1>3, <1>5, <2>1, <3>1
      <3>2. CASE i # n + 1
        <4>1. i \in 1 .. n
          BY <3>2
        <4>2. b[i] = IF frames[i].kind = "chunk" THEN 1 ELSE 0
          BY <1>3, <1>5, <4>1
        <4>3. e[i] = IF frames[i].kind = "chunk" THEN 1 ELSE 0
          BY <1>4, <2>1, <4>1
        <4> QED BY <4>2, <4>3
      <3> QED BY <3>1, <3>2
    <2> QED BY <1>5, <2>1, <2>2
  <1> QED BY <1>2, <1>4, <1>5, <1>6, SumAppend

LEMMA LiveTail ==
    ASSUME NEW frames \in Seq(PaneFrames), frames # <<>>
    PROVE  /\ Live(frames) = Live(Tail(frames)) + IF Head(frames).kind = "chunk" THEN 1 ELSE 0
           /\ Live(Tail(frames)) \in Nat
  <1>1. PICK n \in Nat : n = Len(frames) /\ n > 0
    <2>1. Len(frames) \in Nat /\ Len(frames) > 0
      OBVIOUS
    <2> QED BY <2>1
  <1>2. PICK rest \in Seq(PaneFrames) : rest = Tail(frames)
    <2>1. Tail(frames) \in Seq(PaneFrames)
      OBVIOUS
    <2> QED BY <2>1
  <1>3. Len(rest) = n - 1 /\ Head(frames) = frames[1] /\ \A i \in 1 .. n - 1 : rest[i] = frames[i + 1]
    BY <1>1, <1>2
  <1>4. PICK a \in Seq(Nat) : /\ a = Counted(frames) /\ Live(frames) = Sum(a) /\ Len(a) = n
                              /\ \A i \in 1 .. n : a[i] = IF frames[i].kind = "chunk" THEN 1 ELSE 0
    BY <1>1, CountedIs
  <1>5. PICK b \in Seq(Nat) : /\ b = Counted(rest) /\ Live(rest) = Sum(b) /\ Len(b) = n - 1
                              /\ \A i \in 1 .. n - 1 : b[i] = IF rest[i].kind = "chunk" THEN 1 ELSE 0
    BY <1>3, CountedIs
  <1>6. a # <<>> /\ Head(a) = a[1] /\ a[1] = IF Head(frames).kind = "chunk" THEN 1 ELSE 0
    BY <1>1, <1>3, <1>4
  <1>7. b = Tail(a)
    <2>1. PICK e \in Seq(Nat) : e = Tail(a) /\ Len(e) = n - 1 /\ \A i \in 1 .. n - 1 : e[i] = a[i + 1]
      <3>1. Tail(a) \in Seq(Nat) /\ Len(Tail(a)) = n - 1 /\ \A i \in 1 .. n - 1 : Tail(a)[i] = a[i + 1]
        BY <1>1, <1>4, <1>6
      <3> QED BY <3>1
    <2>2. \A i \in 1 .. n - 1 : b[i] = e[i]
      <3> SUFFICES ASSUME NEW i \in 1 .. n - 1 PROVE b[i] = e[i]
        OBVIOUS
      <3>1. i + 1 \in 1 .. n
        OBVIOUS
      <3>2. b[i] = IF frames[i + 1].kind = "chunk" THEN 1 ELSE 0
        BY <1>3, <1>5
      <3>3. e[i] = IF frames[i + 1].kind = "chunk" THEN 1 ELSE 0
        BY <1>4, <2>1, <3>1
      <3> QED BY <3>2, <3>3
    <2>3. b = [i \in 1 .. Len(b) |-> b[i]]
      OBVIOUS
    <2>4. e = [i \in 1 .. Len(e) |-> e[i]]
      OBVIOUS
    <2>5. e = [i \in 1 .. n - 1 |-> e[i]] /\ b = [i \in 1 .. n - 1 |-> b[i]]
      BY <1>5, <2>1, <2>3, <2>4
    <2>6. b = e
      BY <2>2, <2>5
    <2> QED BY <2>1, <2>6
  <1> QED BY <1>2, <1>4, <1>5, <1>6, <1>7, SumTail

LEMMA SumNat ==
    ASSUME NEW s \in Seq(Nat)
    PROVE  Sum(s) \in Nat
  <1>1. PICK t : Totals(t, s, Len(s))
    <2>1. Len(s) \in 0 .. Len(s)
      OBVIOUS
    <2> QED BY <2>1, TotalsExist
  <1> QED BY <1>1, SumIs

LEMMA LiveNat ==
    ASSUME NEW frames \in Seq(PaneFrames)
    PROVE  Live(frames) \in Nat
  BY CountedIs, SumNat

-----------------------------------------------------------------------------
(* Records with one field changed.                                         *)

States == {"dialling", "open", "kicked", "left", "gone"}

LEMMA SocketFields ==
    ASSUME NEW s \in SocketRecords
    PROVE  /\ s.pane \in Panes \cup {GoneSocket.pane} /\ s.state \in States /\ s.shell \in Nat
           /\ s.down \in Seq(PaneFrames) /\ s.up \in Seq(Nat)
  BY DEF SocketRecords, States

LEMMA SocketState ==
    ASSUME NEW s \in SocketRecords, NEW x \in States, NEW r, r = [s EXCEPT !.state = x]
    PROVE  /\ r \in SocketRecords /\ r.state = x
           /\ r.pane = s.pane /\ r.shell = s.shell /\ r.down = s.down /\ r.up = s.up
  BY DEF SocketRecords, States

LEMMA SocketShell ==
    ASSUME NEW s \in SocketRecords, NEW x \in Nat, NEW r, r = [s EXCEPT !.shell = x]
    PROVE  /\ r \in SocketRecords /\ r.shell = x
           /\ r.pane = s.pane /\ r.state = s.state /\ r.down = s.down /\ r.up = s.up
  BY DEF SocketRecords, States

LEMMA SocketDown ==
    ASSUME NEW s \in SocketRecords, NEW x \in Seq(PaneFrames), NEW r, r = [s EXCEPT !.down = x]
    PROVE  /\ r \in SocketRecords /\ r.down = x
           /\ r.pane = s.pane /\ r.state = s.state /\ r.shell = s.shell /\ r.up = s.up
  BY DEF SocketRecords, States

LEMMA SocketUp ==
    ASSUME NEW s \in SocketRecords, NEW x \in Seq(Nat), NEW r, r = [s EXCEPT !.up = x]
    PROVE  /\ r \in SocketRecords /\ r.up = x
           /\ r.pane = s.pane /\ r.state = s.state /\ r.shell = s.shell /\ r.down = s.down
  BY DEF SocketRecords, States

LEMMA ShellFields ==
    ASSUME NEW s \in ShellRecords
    PROVE  /\ s.id \in Nat /\ s.alive \in BOOLEAN /\ s.out \in Nat /\ s.parsed \in Nat
           /\ s.socket \in Nat /\ s.outstanding \in Nat
  BY DEF ShellRecords

LEMMA ShellSocket ==
    ASSUME NEW s \in ShellRecords, NEW x \in Nat, NEW r, r = [s EXCEPT !.socket = x]
    PROVE  /\ r \in ShellRecords /\ r.socket = x
           /\ r.id = s.id /\ r.out = s.out /\ r.parsed = s.parsed /\ r.outstanding = s.outstanding
  BY DEF ShellRecords

LEMMA ShellOwes ==
    ASSUME NEW s \in ShellRecords, NEW x \in Nat, NEW r, r = [s EXCEPT !.outstanding = x]
    PROVE  /\ r \in ShellRecords /\ r.outstanding = x
           /\ r.id = s.id /\ r.out = s.out /\ r.parsed = s.parsed /\ r.socket = s.socket
  BY DEF ShellRecords

LEMMA ShellOut ==
    ASSUME NEW s \in ShellRecords, NEW x \in Nat, NEW r, r = [s EXCEPT !.out = x]
    PROVE  /\ r \in ShellRecords /\ r.out = x
           /\ r.id = s.id /\ r.outstanding = s.outstanding /\ r.parsed = s.parsed /\ r.socket = s.socket
  BY DEF ShellRecords

LEMMA ShellParsed ==
    ASSUME NEW s \in ShellRecords, NEW x \in Nat, NEW r, r = [s EXCEPT !.parsed = x]
    PROVE  /\ r \in ShellRecords /\ r.parsed = x
           /\ r.id = s.id /\ r.outstanding = s.outstanding /\ r.out = s.out /\ r.socket = s.socket
  BY DEF ShellRecords

LEMMA ShellAlive ==
    ASSUME NEW s \in ShellRecords, NEW x \in BOOLEAN, NEW r, r = [s EXCEPT !.alive = x]
    PROVE  /\ r \in ShellRecords /\ r.parsed = s.parsed
           /\ r.id = s.id /\ r.outstanding = s.outstanding /\ r.out = s.out /\ r.socket = s.socket
  BY Zenon DEF ShellRecords

LEMMA Absent ==
    /\ NoShell \in ShellRecords /\ NoShell.id = 0 /\ NoShell.out = 0 /\ NoShell.parsed = 0
    /\ NoShell.socket = 0 /\ NoShell.outstanding = 0
    /\ GoneSocket \in SocketRecords /\ GoneSocket.state = "gone" /\ GoneSocket.shell = 0
    /\ NoPane \in PaneRecords /\ NoPane.ws = 0 /\ NoPane.mounted = FALSE /\ NoPane.retry = FALSE
  <1>1. NoShell \in ShellRecords /\ NoShell.id = 0 /\ NoShell.out = 0 /\ NoShell.parsed = 0
    BY DEF NoShell, ShellRecords
  <1>2. NoShell.socket = 0 /\ NoShell.outstanding = 0
    BY DEF NoShell
  <1>3. GoneSocket \in SocketRecords /\ GoneSocket.state = "gone" /\ GoneSocket.shell = 0
    <2>1. PICK any : any = CHOOSE p \in Panes : TRUE
      OBVIOUS
    <2>2. GoneSocket = [pane |-> any, state |-> "gone", shell |-> 0, down |-> <<>>, up |-> <<>>]
      <3>1. PICK base : base = [pane |-> any, state |-> "dialling", shell |-> 0, down |-> <<>>, up |-> <<>>]
        OBVIOUS
      <3>2. GoneSocket = [base EXCEPT !.state = "gone"]
        BY <2>1, <3>1, Zenon DEF GoneSocket, NewSocket
      <3> QED BY <3>1, <3>2
    <2>3. <<>> \in Seq(PaneFrames) /\ <<>> \in Seq(Nat)
      OBVIOUS
    <2>4. GoneSocket.pane \in Panes \cup {GoneSocket.pane}
      OBVIOUS
    <2>5. /\ GoneSocket.pane = any /\ GoneSocket.state = "gone" /\ GoneSocket.shell = 0
          /\ GoneSocket.down = <<>> /\ GoneSocket.up = <<>>
      BY <2>2
    <2>6. any \in Panes \cup {GoneSocket.pane}
      BY <2>4, <2>5
    <2>7. [pane |-> any, state |-> "gone", shell |-> 0, down |-> <<>>, up |-> <<>>] \in SocketRecords
      BY <2>3, <2>6 DEF SocketRecords
    <2> QED BY <2>2, <2>5, <2>7
  <1>4. NoPane \in PaneRecords /\ NoPane.ws = 0 /\ NoPane.mounted = FALSE /\ NoPane.retry = FALSE
    <2>1. <<>> \in Seq(Nat)
      OBVIOUS
    <2> QED BY <2>1 DEF NoPane, PaneRecords
  <1> QED BY <1>1, <1>2, <1>3, <1>4

LEMMA Spawned ==
    ASSUME NEW n \in Nat
    PROVE  /\ NewShell(n) \in ShellRecords /\ NewShell(n).id = n /\ NewShell(n).out = 0
           /\ NewShell(n).parsed = 0 /\ NewShell(n).socket = 0 /\ NewShell(n).outstanding = 0
  <1>1. PICK s : s = [NoShell EXCEPT !.id = n]
    OBVIOUS
  <1>2. /\ s \in ShellRecords /\ s.id = n /\ s.out = 0 /\ s.parsed = 0 /\ s.socket = 0
        /\ s.outstanding = 0
    BY <1>1, Absent DEF ShellRecords
  <1>3. NewShell(n) = [s EXCEPT !.alive = TRUE]
    BY <1>1 DEF NewShell
  <1> QED BY <1>2, <1>3, ShellAlive

-----------------------------------------------------------------------------
(* What a step does not disturb.                                           *)

LEMMA StillHears ==
    ASSUME AllHear,
           \A k \in Sockets : (sockets'[k].state = "open" /\ shell'.id = sockets'[k].shell) =>
              /\ sockets[k].state = "open" /\ shell.id = sockets[k].shell
              /\ panes'[sockets'[k].pane].screen = panes[sockets[k].pane].screen
              /\ sockets'[k].down = sockets[k].down /\ shell'.out = shell.out
    PROVE  AllHear'
  BY DEF AllHear

LEMMA StillOwed ==
    ASSUME BacklogIsOwed,
           (shell'.socket # 0 /\ sockets'[shell'.socket].state = "open") =>
              /\ shell'.socket = shell.socket /\ sockets[shell.socket].state = "open"
              /\ shell'.outstanding = shell.outstanding
              /\ sockets'[shell.socket].down = sockets[shell.socket].down
              /\ sockets'[shell.socket].up = sockets[shell.socket].up
              /\ panes'[sockets'[shell.socket].pane].acked = panes[sockets[shell.socket].pane].acked
    PROVE  BacklogIsOwed'
  BY DEF BacklogIsOwed

LEMMA Kicked ==
    ASSUME NEW ss, ss \in [Sockets -> SocketRecords], NEW k \in Nat, k # 0 => k \in Sockets
    PROVE  /\ Kick(ss, k) \in [Sockets -> SocketRecords]
           /\ \A j \in Sockets :
                 /\ Kick(ss, k)[j].pane = ss[j].pane /\ Kick(ss, k)[j].shell = ss[j].shell
                 /\ Kick(ss, k)[j].down = ss[j].down /\ Kick(ss, k)[j].up = ss[j].up
                 /\ Kick(ss, k)[j].state =
                       IF j = k /\ ss[j].state = "open" THEN "kicked" ELSE ss[j].state
  <1>1. CASE k # 0 /\ ss[k].state = "open"
    <2>1. k \in Sockets /\ ss[k] \in SocketRecords /\ "kicked" \in States
      BY <1>1 DEF States
    <2>2. PICK r : r = [ss[k] EXCEPT !.state = "kicked"]
      OBVIOUS
    <2>3. /\ r \in SocketRecords /\ r.state = "kicked"
          /\ r.pane = ss[k].pane /\ r.shell = ss[k].shell /\ r.down = ss[k].down /\ r.up = ss[k].up
      BY <2>1, <2>2, SocketState
    <2>4. Kick(ss, k) = [ss EXCEPT ![k] = r]
      BY <1>1, <2>2 DEF Kick
    <2> QED BY <1>1, <2>1, <2>3, <2>4
  <1>2. CASE ~(k # 0 /\ ss[k].state = "open")
    <2>1. Kick(ss, k) = ss
      BY <1>2 DEF Kick
    <2>2. \A j \in Sockets : j # 0
      BY DEF Sockets
    <2> QED BY <1>2, <2>1, <2>2
  <1> QED BY <1>1, <1>2

\* The pane's end of its socket closes.
LEMMA ClosedIs ==
    ASSUME NEW ss, ss \in [Sockets -> SocketRecords], NEW k \in Sockets, InPlace(ss[k].state)
    PROVE  /\ Closed(ss, k) \in [Sockets -> SocketRecords]
           /\ \A j \in Sockets \ {k} : Closed(ss, k)[j] = ss[j]
           /\ Closed(ss, k)[k].state \in {"left", "gone"}
           /\ Closed(ss, k)[k].shell \in {ss[k].shell, 0}
  <1>1. ss[k] \in SocketRecords
    OBVIOUS
  <1>2. CASE ss[k].state \in {"open", "kicked"}
    <2>1. PICK none \in Seq(PaneFrames) : none = <<>>
      <3>1. <<>> \in Seq(PaneFrames)
        OBVIOUS
      <3> QED BY <3>1
    <2>2. PICK half : half = [ss[k] EXCEPT !.state = "left"]
      OBVIOUS
    <2>3. half \in SocketRecords /\ half.state = "left" /\ half.shell = ss[k].shell
      BY <1>1, <2>2, SocketState DEF States
    <2>4. PICK r : r = [half EXCEPT !.down = none]
      OBVIOUS
    <2>5. r \in SocketRecords /\ r.state = "left" /\ r.shell = ss[k].shell
      BY <2>3, <2>4, SocketDown
    <2>6. Closed(ss, k) = [ss EXCEPT ![k].state = "left", ![k].down = <<>>]
      BY <1>2 DEF Closed
    <2>7. Closed(ss, k) = [ss EXCEPT ![k] = r]
      BY <2>1, <2>2, <2>4, <2>6
    <2> QED BY <2>5, <2>7
  <1>3. CASE ss[k].state = "dialling"
    <2>1. Closed(ss, k) = [ss EXCEPT ![k] = GoneSocket]
      BY <1>3 DEF Closed
    <2> QED BY <2>1, Absent
  <1> QED BY <1>2, <1>3 DEF InPlace

LEMMA SocketNumbers ==
    \A k \in Sockets : k \in Nat /\ k # 0
  BY DEF Sockets

LEMMA StillTied ==
    ASSUME Tied, panes' = panes, dialled' = dialled,
           \A k \in Sockets :
              /\ InPlace(sockets[k].state) <=> InPlace(sockets'[k].state)
              /\ InPlace(sockets[k].state) => sockets'[k].pane = sockets[k].pane
    PROVE  Tied'
  BY Zenon DEF Tied

LEMMA StillClients ==
    ASSUME Clients, spawned' = spawned,
           shell'.id = shell.id, shell'.socket = shell.socket, shell'.parsed <= shell'.out,
           \A k \in Sockets : /\ sockets'[k].shell = sockets[k].shell
                              /\ sockets'[k].state = sockets[k].state
    PROVE  Clients'
  BY DEF Clients

-----------------------------------------------------------------------------
(* The steps of the server.                                                *)

LEMMA PlumbedParse ==
    ASSUME Plumbed, Parse
    PROVE  Plumbed'
  <1>1. shell \in ShellRecords /\ sockets' = sockets /\ panes' = panes /\ spawned' = spawned /\ dialled' = dialled
    BY DEF Plumbed, Plugged, Parse
  <1>2. shell' = [shell EXCEPT !.parsed = shell.out]
    BY DEF Parse
  <1>3. /\ shell' \in ShellRecords /\ shell'.parsed = shell.out /\ shell.out \in Nat
        /\ shell'.id = shell.id /\ shell'.outstanding = shell.outstanding
        /\ shell'.out = shell.out /\ shell'.socket = shell.socket
    BY <1>1, <1>2, ShellFields, ShellParsed
  <1>4. Plugged'
    BY <1>1, <1>3 DEF Plumbed, Plugged
  <1>5. Tied'
    BY <1>1, StillTied DEF Plumbed
  <1>6. Clients'
    BY <1>1, <1>3, StillClients DEF Plumbed
  <1>7. AllHear'
    BY <1>1, <1>3, StillHears DEF Plumbed
  <1>8. BacklogIsOwed'
    BY <1>1, <1>3, StillOwed DEF Plumbed
  <1> QED BY <1>4, <1>5, <1>6, <1>7, <1>8 DEF Plumbed

LEMMA PlumbedExit ==
    ASSUME Plumbed, Exit
    PROVE  Plumbed'
  <1>1. shell \in ShellRecords /\ sockets' = sockets /\ panes' = panes /\ spawned' = spawned /\ dialled' = dialled
    BY DEF Plumbed, Plugged, Exit
  <1>2. shell' = [shell EXCEPT !.alive = FALSE]
    BY DEF Exit
  <1>3. /\ shell' \in ShellRecords /\ shell'.parsed = shell.parsed
        /\ shell'.id = shell.id /\ shell'.outstanding = shell.outstanding
        /\ shell'.out = shell.out /\ shell'.socket = shell.socket
    BY <1>1, <1>2, ShellAlive
  <1>4. Plugged'
    BY <1>1, <1>3 DEF Plumbed, Plugged
  <1>5. Tied'
    BY <1>1, StillTied DEF Plumbed
  <1>6. Clients'
    <2>1. shell'.parsed <= shell'.out
      BY <1>3 DEF Plumbed, Clients
    <2> QED BY <1>1, <1>3, <2>1, StillClients DEF Plumbed
  <1>7. AllHear'
    BY <1>1, <1>3, StillHears DEF Plumbed
  <1>8. BacklogIsOwed'
    BY <1>1, <1>3, StillOwed DEF Plumbed
  <1> QED BY <1>4, <1>5, <1>6, <1>7, <1>8 DEF Plumbed

LEMMA PlumbedOnExit ==
    ASSUME Plumbed, OnExit
    PROVE  Plumbed'
  <1>1. shell \in ShellRecords /\ sockets \in [Sockets -> SocketRecords]
    BY DEF Plumbed, Plugged
  <1>2. /\ shell' = NoShell /\ sockets' = Kick(sockets, shell.socket)
        /\ panes' = panes /\ spawned' = spawned /\ dialled' = dialled
    BY DEF OnExit
  <1>3. shell.socket \in Nat /\ (shell.socket # 0 => shell.socket \in Sockets)
    BY <1>1, ShellFields DEF Plumbed, Clients
  <1>4. /\ sockets' \in [Sockets -> SocketRecords]
        /\ \A j \in Sockets :
              /\ sockets'[j].pane = sockets[j].pane /\ sockets'[j].shell = sockets[j].shell
              /\ sockets'[j].state =
                    IF j = shell.socket /\ sockets[j].state = "open" THEN "kicked" ELSE sockets[j].state
    BY <1>1, <1>2, <1>3, Kicked
  <1>5. Plugged'
    BY <1>2, <1>4, Absent DEF Plumbed, Plugged
  <1>6. Tied'
    <2>1. \A j \in Sockets : InPlace(sockets[j].state) <=> InPlace(sockets'[j].state)
      BY <1>4 DEF InPlace
    <2> QED BY <1>2, <1>4, <2>1, StillTied DEF Plumbed
  <1>7. Clients'
    <2>1. spawned \in Nat /\ \A j \in Sockets : sockets[j].shell <= spawned
      BY DEF Plumbed, Plugged, Clients
    <2>2. \A j \in Sockets : sockets'[j].state = "open" => sockets[j].state = "open"
      BY <1>4
    <2>3. \A j \in Sockets : sockets'[j].state = "open" => sockets'[j].shell # 0
      BY <1>4, <2>2 DEF Plumbed, Clients
    <2>4. shell'.id = 0 /\ shell'.parsed = 0 /\ shell'.out = 0 /\ shell'.socket = 0
      BY <1>2, Absent
    <2> QED BY <1>2, <1>4, <2>1, <2>3, <2>4 DEF Clients
  <1>8. AllHear'
    <2>1. shell'.id = 0
      BY <1>2, Absent
    <2>2. \A j \in Sockets : sockets'[j].state = "open" => sockets'[j].shell # 0
      BY <1>7 DEF Clients
    <2> QED BY <2>1, <2>2 DEF AllHear
  <1>9. BacklogIsOwed'
    <2>1. shell'.socket = 0
      BY <1>2, Absent
    <2> QED BY <2>1, StillOwed DEF Plumbed
  <1> QED BY <1>5, <1>6, <1>7, <1>8, <1>9 DEF Plumbed

\* What is written to a session without an open client changes nothing else.
LEMMA PlumbedOutput ==
    ASSUME Plumbed, Output
    PROVE  Plumbed'
  <1>1. /\ shell \in ShellRecords /\ sockets \in [Sockets -> SocketRecords]
        /\ panes' = panes /\ spawned' = spawned /\ dialled' = dialled
    BY DEF Plumbed, Plugged, Output
  <1>2. PICK n \in Nat : n = shell.out + 1
    <2>1. shell.out + 1 \in Nat
      BY <1>1, ShellFields
    <2> QED BY <2>1
  <1>3. PICK k \in Nat : k = shell.socket
    BY <1>1, ShellFields
  <1>4. k # 0 => k \in Sockets
    BY <1>3 DEF Plumbed, Clients
  <1>5. PICK owed \in Nat : owed = IF k = 0 THEN shell.outstanding ELSE shell.outstanding + 1
    <2>1. (IF k = 0 THEN shell.outstanding ELSE shell.outstanding + 1) \in Nat
      BY <1>1, ShellFields
    <2> QED BY <2>1
  <1>6. shell' = [shell EXCEPT !.out = n, !.outstanding = owed]
    BY <1>2, <1>3, <1>5, Zenon DEF Output
  <1>7. PICK s : s = [shell EXCEPT !.out = n]
    OBVIOUS
  <1>8. /\ s \in ShellRecords /\ s.out = n /\ s.id = shell.id /\ s.outstanding = shell.outstanding
        /\ s.parsed = shell.parsed /\ s.socket = k
    BY <1>1, <1>3, <1>7, ShellOut
  <1>9. /\ shell' \in ShellRecords /\ shell'.outstanding = owed /\ shell'.id = shell.id
        /\ shell'.out = n /\ shell'.parsed = shell.parsed /\ shell'.socket = k
    <2>1. shell' = [s EXCEPT !.outstanding = owed]
      BY <1>6, <1>7
    <2> QED BY <1>8, <2>1, ShellOwes
  <1>10. shell.parsed <= n /\ shell.out \in Nat
    <2>1. shell.parsed <= shell.out /\ shell.parsed \in Nat /\ shell.out \in Nat
      BY <1>1, ShellFields DEF Plumbed, Clients
    <2> QED BY <1>2, <2>1
  <1>11. CASE k # 0 /\ sockets[k].state = "open"
    <2>1. k \in Sockets /\ sockets[k] \in SocketRecords /\ sockets[k].shell = shell.id
      BY <1>1, <1>3, <1>4, <1>11 DEF Plumbed, Clients
    <2>2. PICK frame \in PaneFrames : frame = Chunk(n) /\ frame.kind = "chunk" /\ frame.n = n
      <3>1. Chunk(n) \in PaneFrames /\ Chunk(n).kind = "chunk" /\ Chunk(n).n = n
        BY DEF Chunk, PaneFrames
      <3> QED BY <3>1
    <2>3. PICK frames \in Seq(PaneFrames) : frames = sockets[k].down
      BY <2>1, SocketFields
    <2>4. PICK longer \in Seq(PaneFrames) : longer = Append(frames, frame)
      <3>1. Append(frames, frame) \in Seq(PaneFrames)
        OBVIOUS
      <3> QED BY <3>1
    <2>5. PICK r : r = [sockets[k] EXCEPT !.down = longer]
      OBVIOUS
    <2>6. sockets' = [sockets EXCEPT ![k] = r]
      <3>1. sockets' = [sockets EXCEPT ![k].down = Append(@, Chunk(n))]
        BY <1>2, <1>3, <1>11, Zenon DEF Output
      <3> QED BY <2>1, <2>2, <2>3, <2>4, <2>5, <3>1
    <2>7. /\ r \in SocketRecords /\ r.down = longer /\ r.pane = sockets[k].pane
          /\ r.state = sockets[k].state /\ r.shell = sockets[k].shell /\ r.up = sockets[k].up
      BY <2>1, <2>5, SocketDown
    <2>8. /\ sockets' \in [Sockets -> SocketRecords] /\ sockets'[k] = r
          /\ \A j \in Sockets : j # k => sockets'[j] = sockets[j]
      BY <1>1, <2>1, <2>6, <2>7
    <2>9. \A j \in Sockets : /\ sockets'[j].pane = sockets[j].pane /\ sockets'[j].state = sockets[j].state
                             /\ sockets'[j].shell = sockets[j].shell
      BY <2>7, <2>8
    <2>10. Plugged'
      BY <1>1, <1>9, <2>8 DEF Plumbed, Plugged
    <2>11. Tied'
      BY <1>1, <2>9, StillTied DEF Plumbed
    <2>12. Clients'
      BY <1>1, <1>3, <1>9, <1>10, <2>9, StillClients DEF Plumbed
    <2>13. AllHear'
      <3> SUFFICES ASSUME NEW j \in Sockets, sockets'[j].state = "open", shell'.id = sockets'[j].shell
                   PROVE  Hears(panes'[sockets'[j].pane].screen, sockets'[j].down, shell'.out)
        BY Zenon DEF AllHear
      <3>1. j = k
        BY <1>3, <1>9, <2>9 DEF Plumbed, Clients
      <3>2. PICK screen : screen = panes[sockets[k].pane].screen
        OBVIOUS
      <3>3. Hears(screen, frames, shell.out)
        BY <1>11, <2>1, <2>3, <3>2 DEF Plumbed, AllHear
      <3>4. PICK g, held, from :
              /\ held \in 0 .. shell.out /\ from \in 0 .. shell.out /\ held <= from
              /\ Draws(g, screen, frames) /\ g[Len(frames)] = Told(held, from, shell.out)
        BY <3>3 DEF Hears
      <3>5. PICK h : Draws(h, screen, longer) /\ h[Len(longer)] = Drawn(g[Len(frames)], frame)
        BY <2>4, <3>4, DrawsMore
      <3>6. h[Len(longer)] = Append(Told(held, from, shell.out), n)
        BY <2>2, <3>4, <3>5 DEF Drawn
      <3>7. h[Len(longer)] = Told(held, from, n)
        BY <1>2, <1>10, <3>4, <3>6, ToldMore
      <3>8. held \in 0 .. n /\ from \in 0 .. n
        BY <1>2, <1>10, <3>4
      <3>9. Hears(screen, longer, n)
        BY <3>4, <3>5, <3>7, <3>8, HearsWith
      <3> QED BY <1>1, <1>9, <2>7, <2>8, <3>1, <3>2, <3>9
    <2>14. BacklogIsOwed'
      <3>1. shell.outstanding <= Live(frames) + Sum(sockets[k].up) + panes[sockets[k].pane].acked
        BY <1>3, <1>11, <2>3 DEF Plumbed, BacklogIsOwed
      <3>2. Live(longer) = Live(frames) + 1 /\ Live(frames) \in Nat
        BY <2>2, <2>4, LiveAppend
      <3>3. Sum(sockets[k].up) \in Nat
        BY <2>1, SocketFields, SumNat
      <3>4. panes[sockets[k].pane].acked \in Nat
        <4>1. sockets[k].pane \in Panes
          BY <1>11, <2>1 DEF Plumbed, Tied, InPlace
        <4> QED BY <4>1 DEF Plumbed, Plugged, PaneRecords
      <3>5. owed = shell.outstanding + 1 /\ shell.outstanding \in Nat
        BY <1>1, <1>5, <1>11, ShellFields
      <3>6. owed <= Live(longer) + Sum(sockets[k].up) + panes[sockets[k].pane].acked
        BY <3>1, <3>2, <3>3, <3>4, <3>5
      <3> QED BY <1>1, <1>9, <2>7, <2>8, <3>6 DEF BacklogIsOwed
    <2> QED BY <2>10, <2>11, <2>12, <2>13, <2>14 DEF Plumbed
  <1>12. CASE ~(k # 0 /\ sockets[k].state = "open")
    <2>1. sockets' = sockets
      BY <1>3, <1>12, Zenon DEF Output
    <2>2. Plugged'
      BY <1>1, <1>9, <2>1 DEF Plumbed, Plugged
    <2>3. Tied'
      BY <1>1, <2>1, StillTied DEF Plumbed
    <2>4. Clients'
      BY <1>1, <1>3, <1>9, <1>10, <2>1, StillClients DEF Plumbed
    <2>5. AllHear'
      <3>1. \A j \in Sockets : ~(sockets'[j].state = "open" /\ shell'.id = sockets'[j].shell)
        BY <1>3, <1>9, <1>12, <2>1, SocketNumbers DEF Plumbed, Clients
      <3> QED BY <3>1 DEF AllHear
    <2>6. BacklogIsOwed'
      <3>1. ~(shell'.socket # 0 /\ sockets'[shell'.socket].state = "open")
        BY <1>9, <1>12, <2>1
      <3> QED BY <3>1, StillOwed DEF Plumbed
    <2> QED BY <2>2, <2>3, <2>4, <2>5, <2>6 DEF Plumbed
  <1> QED BY <1>11, <1>12

LEMMA PlumbedOnMessage ==
    ASSUME Plumbed, NEW k \in Sockets, OnMessage(k)
    PROVE  Plumbed'
  <1>1. /\ shell \in ShellRecords /\ sockets \in [Sockets -> SocketRecords] /\ sockets[k] \in SocketRecords
        /\ panes' = panes /\ spawned' = spawned /\ dialled' = dialled
    BY DEF Plumbed, Plugged, OnMessage
  <1>2. PICK up0 \in Seq(Nat) : up0 = sockets[k].up /\ up0 # <<>>
    BY <1>1, SocketFields DEF OnMessage
  <1>3. PICK rest \in Seq(Nat) : rest = Tail(up0)
    <2>1. Tail(up0) \in Seq(Nat)
      BY <1>2
    <2> QED BY <2>1
  <1>4. PICK n \in Nat : n = Head(up0)
    BY <1>2, SumTail
  <1>5. Sum(up0) = Sum(rest) + n /\ Sum(rest) \in Nat
    BY <1>2, <1>3, <1>4, SumTail
  <1>6. PICK r : r = [sockets[k] EXCEPT !.up = rest]
    OBVIOUS
  <1>7. /\ r \in SocketRecords /\ r.up = rest /\ r.pane = sockets[k].pane
        /\ r.state = sockets[k].state /\ r.shell = sockets[k].shell /\ r.down = sockets[k].down
    BY <1>1, <1>6, SocketUp
  <1>8. sockets' = [sockets EXCEPT ![k] = r]
    <2>1. sockets' = [sockets EXCEPT ![k].up = Tail(@)]
      BY Zenon DEF OnMessage
    <2> QED BY <1>1, <1>2, <1>3, <1>6, <2>1
  <1>9. /\ sockets' \in [Sockets -> SocketRecords] /\ sockets'[k] = r
        /\ \A j \in Sockets : j # k => sockets'[j] = sockets[j]
    BY <1>1, <1>7, <1>8
  <1>10. PICK owed \in Nat :
           owed = IF sockets[k].shell # shell.id THEN shell.outstanding
                  ELSE IF shell.outstanding > n THEN shell.outstanding - n ELSE 0
    <2>1. (IF sockets[k].shell # shell.id THEN shell.outstanding
           ELSE IF shell.outstanding > n THEN shell.outstanding - n ELSE 0) \in Nat
      BY <1>1, ShellFields
    <2> QED BY <2>1
  <1>11. /\ shell' \in ShellRecords /\ shell'.outstanding = owed /\ shell'.id = shell.id
         /\ shell'.out = shell.out /\ shell'.parsed = shell.parsed /\ shell'.socket = shell.socket
    <2>1. CASE sockets[k].shell # shell.id
      <3>1. shell' = shell
        BY <2>1, Zenon DEF OnMessage
      <3> QED BY <1>1, <1>10, <2>1, <3>1
    <2>2. CASE sockets[k].shell = shell.id
      <3>1. shell' = [shell EXCEPT !.outstanding = IF @ > n THEN @ - n ELSE 0]
        BY <1>2, <1>4, <2>2, Zenon DEF OnMessage
      <3>2. shell' = [shell EXCEPT !.outstanding = owed]
        BY <1>1, <1>10, <2>2, <3>1 DEF ShellRecords
      <3> QED BY <1>1, <3>2, ShellOwes
    <2> QED BY <2>1, <2>2
  <1>12. \A j \in Sockets :
            /\ sockets'[j].pane = sockets[j].pane /\ sockets'[j].state = sockets[j].state
            /\ sockets'[j].shell = sockets[j].shell /\ sockets'[j].down = sockets[j].down
    BY <1>7, <1>9
  <1>13. Plugged'
    BY <1>1, <1>9, <1>11 DEF Plumbed, Plugged
  <1>14. Tied'
    BY <1>1, <1>12, StillTied DEF Plumbed
  <1>15. Clients'
    <2>1. shell'.parsed <= shell'.out
      BY <1>11 DEF Plumbed, Clients
    <2> QED BY <1>1, <1>11, <1>12, <2>1, StillClients DEF Plumbed
  <1>16. AllHear'
    BY <1>1, <1>11, <1>12, StillHears DEF Plumbed
  <1>17. BacklogIsOwed'
    <2> SUFFICES ASSUME NEW c, c = shell.socket, c # 0, sockets'[c].state = "open"
                 PROVE  owed <= Live(sockets'[c].down) + Sum(sockets'[c].up) + panes'[sockets'[c].pane].acked
      BY <1>11 DEF BacklogIsOwed
    <2>1. c \in Sockets /\ sockets[c] \in SocketRecords /\ sockets[c].state = "open"
      BY <1>1, <1>12 DEF Plumbed, Clients
    <2>2. sockets[c].shell = shell.id /\ sockets[c].pane \in Panes
      BY <2>1 DEF Plumbed, Clients, Tied, InPlace
    <2>3. shell.outstanding <= Live(sockets[c].down) + Sum(sockets[c].up) + panes[sockets[c].pane].acked
      BY <2>1 DEF Plumbed, BacklogIsOwed
    <2>4. Live(sockets[c].down) \in Nat /\ Sum(sockets[c].up) \in Nat /\ panes[sockets[c].pane].acked \in Nat
      <3>1. panes[sockets[c].pane].acked \in Nat
        BY <2>2 DEF Plumbed, Plugged, PaneRecords
      <3> QED BY <2>1, <3>1, SocketFields, SumNat, LiveNat
    <2>5. shell.outstanding \in Nat
      BY <1>1, ShellFields
    <2>6. CASE c = k
      <3>1. owed = IF shell.outstanding > n THEN shell.outstanding - n ELSE 0
        BY <1>10, <2>2, <2>6
      <3>2. Sum(sockets[c].up) = Sum(rest) + n
        BY <1>2, <1>5, <2>6
      <3>3. PICK onway \in Nat : onway = Live(sockets[c].down)
        BY <2>4
      <3>4. PICK due \in Nat : due = panes[sockets[c].pane].acked
        BY <2>4
      <3>5. PICK left \in Nat : left = Sum(rest)
        BY <1>5
      <3>6. shell.outstanding <= onway + (left + n) + due
        BY <2>3, <3>2, <3>3, <3>4, <3>5
      <3>7. owed <= onway + left + due
        BY <2>5, <3>1, <3>6
      <3>8. owed <= Live(sockets[c].down) + Sum(rest) + panes[sockets[c].pane].acked
        BY <3>3, <3>4, <3>5, <3>7
      <3> QED BY <1>1, <1>7, <1>9, <2>6, <3>8
    <2>7. CASE c # k
      <3>1. owed <= shell.outstanding
        BY <1>10, <2>5
      <3>2. owed <= Live(sockets[c].down) + Sum(sockets[c].up) + panes[sockets[c].pane].acked
        BY <2>3, <2>4, <2>5, <3>1
      <3> QED BY <1>1, <1>9, <2>1, <2>7, <3>2
    <2> QED BY <2>6, <2>7
  <1> QED BY <1>13, <1>14, <1>15, <1>16, <1>17 DEF Plumbed

LEMMA PlumbedOnClose ==
    ASSUME Plumbed, NEW k \in Sockets, OnClose(k)
    PROVE  Plumbed'
  <1>1. /\ shell \in ShellRecords /\ sockets \in [Sockets -> SocketRecords] /\ sockets[k].state = "left"
        /\ panes' = panes /\ spawned' = spawned /\ dialled' = dialled
        /\ sockets' = [sockets EXCEPT ![k] = GoneSocket]
    BY DEF Plumbed, Plugged, OnClose
  <1>2. /\ sockets' \in [Sockets -> SocketRecords] /\ sockets'[k] = GoneSocket
        /\ \A j \in Sockets : j # k => sockets'[j] = sockets[j]
    BY <1>1, Absent
  <1>3. \A j \in Sockets : sockets'[j].state # "gone" => j # k
    BY <1>2, Absent
  <1>4. /\ shell' \in ShellRecords /\ shell'.outstanding = shell.outstanding /\ shell'.id = shell.id
        /\ shell'.out = shell.out /\ shell'.parsed = shell.parsed
        /\ shell'.socket = shell.socket \/ (shell.socket = k /\ shell'.socket = 0)
    <2>1. shell' = IF shell.id = sockets[k].shell /\ shell.socket = k
                   THEN [shell EXCEPT !.socket = 0] ELSE shell
      BY DEF OnClose, DetachClient
    <2>2. CASE shell.id = sockets[k].shell /\ shell.socket = k
      BY <1>1, <2>1, <2>2, ShellSocket
    <2>3. CASE ~(shell.id = sockets[k].shell /\ shell.socket = k)
      BY <1>1, <2>1, <2>3
    <2> QED BY <2>2, <2>3
  <1>5. Plugged'
    BY <1>1, <1>2, <1>4 DEF Plumbed, Plugged
  <1>6. Tied'
    <2>1. \A j \in Sockets : InPlace(sockets[j].state) => j # k
      BY <1>1 DEF InPlace
    <2>2. \A j \in Sockets : InPlace(sockets'[j].state) => j # k
      BY <1>3 DEF InPlace
    <2> QED BY <1>1, <1>2, <2>1, <2>2, StillTied DEF Plumbed
  <1>7. Clients'
    <2>1. shell'.id <= spawned' /\ shell'.parsed <= shell'.out
      BY <1>1, <1>4 DEF Plumbed, Clients
    <2>2. ASSUME NEW j \in Sockets
          PROVE  /\ sockets'[j].shell <= spawned
                 /\ sockets'[j].state = "open" =>
                       /\ sockets'[j].shell # 0
                       /\ shell'.id = sockets'[j].shell => shell'.socket = j
      <3>1. CASE j = k
        <4>1. sockets'[j].shell = 0 /\ sockets'[j].state # "open" /\ spawned \in Nat
          BY <1>2, <3>1, Absent DEF Plumbed, Plugged
        <4> QED BY <4>1
      <3>2. CASE j # k
        BY <1>2, <1>4, <3>2 DEF Plumbed, Clients
      <3> QED BY <3>1, <3>2
    <2>3. ASSUME shell'.socket # 0
          PROVE  /\ shell'.socket \in Sockets
                 /\ sockets'[shell'.socket].state = "open" => sockets'[shell'.socket].shell = shell'.id
      <3>1. shell'.socket = shell.socket /\ shell.socket \in Sockets
        BY <1>4, <2>3 DEF Plumbed, Clients
      <3>2. CASE shell.socket = k
        BY <1>3, <3>1, <3>2
      <3>3. CASE shell.socket # k
        BY <1>2, <1>4, <3>1, <3>3, SocketNumbers DEF Plumbed, Clients
      <3> QED BY <3>1, <3>2, <3>3
    <2> QED BY <1>1, <2>1, <2>2, <2>3 DEF Clients
  <1>8. AllHear'
    <2>1. ASSUME NEW j \in Sockets, sockets'[j].state = "open" PROVE j # k
      BY <1>3, <2>1
    <2> QED BY <1>1, <1>2, <1>4, <2>1, StillHears DEF Plumbed
  <1>9. BacklogIsOwed'
    <2> SUFFICES ASSUME shell'.socket # 0, sockets'[shell'.socket].state = "open"
                 PROVE  /\ shell'.socket = shell.socket /\ sockets[shell.socket].state = "open"
                        /\ sockets'[shell.socket] = sockets[shell.socket]
      BY <1>1, <1>4, StillOwed DEF Plumbed
    <2>1. shell'.socket = shell.socket /\ shell.socket \in Sockets
      BY <1>4 DEF Plumbed, Clients
    <2>2. shell.socket # k
      BY <1>3, <2>1
    <2> QED BY <1>2, <2>1, <2>2
  <1> QED BY <1>5, <1>6, <1>7, <1>8, <1>9 DEF Plumbed

\* A session is given to a socket that was dialling: what it had open is
\* kicked, and the newcomer is sent what its screen is to show.
LEMMA PlumbedAttach ==
    ASSUME Plumbed, NEW k \in Sockets, sockets[k].state = "dialling",
           NEW s \in ShellRecords, s.id # 0, s.parsed <= s.out,
           s.socket # 0 => s.socket \in Sockets,
           \A j \in Sockets : (sockets[j].state = "open" /\ s.id = sockets[j].shell) => s.socket = j,
           AttachPty(s, k), UNCHANGED <<dialled, panes>>,
           spawned' \in Nat, spawned <= spawned', s.id <= spawned'
    PROVE  Plumbed'
  <1>1. /\ shell \in ShellRecords /\ sockets \in [Sockets -> SocketRecords]
        /\ panes' = panes /\ dialled' = dialled /\ spawned \in Nat
    BY DEF Plumbed, Plugged
  <1>2. PICK mid : mid = Kick(sockets, s.socket)
    OBVIOUS
  <1>3. /\ mid \in [Sockets -> SocketRecords]
        /\ \A j \in Sockets :
              /\ mid[j].pane = sockets[j].pane /\ mid[j].shell = sockets[j].shell
              /\ mid[j].down = sockets[j].down /\ mid[j].up = sockets[j].up
              /\ mid[j].state = IF j = s.socket /\ sockets[j].state = "open" THEN "kicked" ELSE sockets[j].state
    BY <1>1, <1>2, Kicked, ShellFields
  <1>4. PICK screen \in Seq(Nat) : screen = panes[sockets[k].pane].screen
    <2>1. sockets[k].pane \in Panes
      BY DEF Plumbed, Tied, InPlace
    <2>2. panes[sockets[k].pane] \in PaneRecords
      BY <2>1 DEF Plumbed, Plugged
    <2> QED BY <2>2 DEF PaneRecords
  <1>5. PICK held \in Nat : held = s.parsed
    BY ShellFields
  <1>6. PICK frames \in Seq(PaneFrames) : frames = Greeting(s)
    <2>1. Greeting(s) \in Seq(PaneFrames)
      BY <1>5, GreetingDraws
    <2> QED BY <2>1
  <1>7. PICK r1 : r1 = [mid[k] EXCEPT !.state = "open"]
    OBVIOUS
  <1>8. PICK r2 : r2 = [r1 EXCEPT !.shell = s.id]
    OBVIOUS
  <1>9. PICK r : r = [r2 EXCEPT !.down = frames]
    OBVIOUS
  <1>10. /\ r \in SocketRecords /\ r.pane = sockets[k].pane /\ r.state = "open" /\ r.shell = s.id
         /\ r.down = frames /\ r.up = sockets[k].up
    <2>1. mid[k] \in SocketRecords /\ "open" \in States /\ s.id \in Nat
      BY <1>3, ShellFields DEF States
    <2>2. r1 \in SocketRecords /\ r1.state = "open" /\ r1.pane = sockets[k].pane /\ r1.up = sockets[k].up
      BY <1>3, <1>7, <2>1, SocketState
    <2>3. /\ r2 \in SocketRecords /\ r2.state = "open" /\ r2.pane = sockets[k].pane /\ r2.up = sockets[k].up
          /\ r2.shell = s.id
      BY <1>8, <2>1, <2>2, SocketShell
    <2> QED BY <1>9, <2>3, SocketDown
  <1>11. sockets' = [mid EXCEPT ![k] = r]
    <2>1. sockets' = [mid EXCEPT ![k].state = "open", ![k].shell = s.id, ![k].down = frames]
      BY <1>2, <1>6, Zenon DEF AttachPty
    <2> QED BY <1>3, <1>7, <1>8, <1>9, <2>1
  <1>12. /\ sockets' \in [Sockets -> SocketRecords] /\ sockets'[k] = r
         /\ \A j \in Sockets : j # k => sockets'[j] = mid[j]
    BY <1>3, <1>10, <1>11
  <1>13. /\ shell' \in ShellRecords /\ shell'.id = s.id /\ shell'.out = s.out
         /\ shell'.parsed = s.parsed /\ shell'.socket = k /\ shell'.outstanding = 0
    <2>1. PICK after : after = [s EXCEPT !.socket = k, !.outstanding = 0]
      OBVIOUS
    <2>2. shell' = after
      BY <2>1, Zenon DEF AttachPty, Adopt
    <2>3. /\ after.id = s.id /\ after.out = s.out /\ after.parsed = s.parsed /\ after.socket = k
          /\ after.outstanding = 0
      BY <2>1 DEF ShellRecords
    <2>4. after \in ShellRecords
      BY <2>1, SocketNumbers DEF ShellRecords
    <2> QED BY <2>2, <2>3, <2>4
  <1>14. \A j \in Sockets : sockets'[j].pane = sockets[j].pane
    BY <1>3, <1>10, <1>12
  <1>15. \A j \in Sockets : (j # k /\ sockets'[j].state = "open") =>
            /\ sockets[j].state = "open" /\ sockets'[j].shell = sockets[j].shell /\ s.id # sockets[j].shell
    BY <1>3, <1>12
  <1>16. Plugged'
    BY <1>1, <1>12, <1>13 DEF Plumbed, Plugged
  <1>17. Tied'
    <2>1. \A j \in Sockets : InPlace(sockets[j].state) <=> InPlace(sockets'[j].state)
      BY <1>3, <1>10, <1>12 DEF InPlace
    <2> QED BY <1>1, <1>14, <2>1, StillTied DEF Plumbed
  <1>18. Clients'
    <2>1. \A j \in Sockets : sockets'[j].shell <= spawned'
      <3> SUFFICES ASSUME NEW j \in Sockets PROVE sockets'[j].shell <= spawned'
        OBVIOUS
      <3>1. CASE j = k
        BY <1>10, <1>12, <3>1
      <3>2. CASE j # k
        <4>1. sockets'[j].shell = sockets[j].shell /\ sockets[j].shell <= spawned /\ sockets[j].shell \in Nat
          <5>1. sockets[j].shell \in Nat
            BY <1>1, SocketFields
          <5> QED BY <1>3, <1>12, <3>2, <5>1 DEF Plumbed, Clients
        <4> QED BY <1>1, <4>1
      <3> QED BY <3>1, <3>2
    <2>2. \A j \in Sockets : sockets'[j].state = "open" =>
             /\ sockets'[j].shell # 0
             /\ shell'.id = sockets'[j].shell => shell'.socket = j
      BY <1>10, <1>12, <1>13, <1>15 DEF Plumbed, Clients
    <2> QED BY <1>10, <1>12, <1>13, <2>1, <2>2 DEF Clients
  <1>19. AllHear'
    <2> SUFFICES ASSUME NEW j \in Sockets, sockets'[j].state = "open", shell'.id = sockets'[j].shell
                 PROVE  Hears(panes'[sockets'[j].pane].screen, sockets'[j].down, shell'.out)
      BY Zenon DEF AllHear
    <2>1. j = k
      BY <1>13, <1>15
    <2>2. PICK g : Draws(g, screen, frames) /\ g[Len(frames)] = [i \in 1 .. held |-> i]
      <3>1. PICK g : Draws(g, screen, Greeting(s)) /\ g[Len(Greeting(s))] = [i \in 1 .. held |-> i]
        BY <1>5, GreetingDraws
      <3> QED BY <1>6, <3>1
    <2>3. PICK out \in Nat : out = s.out
      BY ShellFields
    <2>4. Told(held, out, out) = [i \in 1 .. held |-> i]
      BY ToldFirst
    <2>5. held \in 0 .. out /\ out \in 0 .. out /\ held <= out
      BY <1>5, <2>3
    <2>6. Hears(screen, frames, out)
      <3>1. g[Len(frames)] = Told(held, out, out)
        BY <2>2, <2>4
      <3>2. Draws(g, screen, frames)
        BY <2>2
      <3> QED BY <2>5, <3>1, <3>2, HearsWith
    <2> QED BY <1>1, <1>4, <1>10, <1>12, <1>13, <2>1, <2>3, <2>6
  <1>20. BacklogIsOwed'
    <2>1. Live(frames) \in Nat
      BY LiveNat
    <2>2. Sum(r.up) \in Nat
      BY <1>10, SocketFields, SumNat
    <2>3. panes[sockets[k].pane].acked \in Nat
      <3>1. sockets[k].pane \in Panes
        BY DEF Plumbed, Tied, InPlace
      <3> QED BY <3>1 DEF Plumbed, Plugged, PaneRecords
    <2>4. 0 <= Live(frames) + Sum(r.up) + panes[sockets[k].pane].acked
      BY <2>1, <2>2, <2>3
    <2> QED BY <1>1, <1>10, <1>12, <1>13, <2>4 DEF BacklogIsOwed
  <1> QED BY <1>16, <1>17, <1>18, <1>19, <1>20 DEF Plumbed

LEMMA PlumbedUpgrade ==
    ASSUME Plumbed, NEW k \in Sockets, Upgrade(k)
    PROVE  Plumbed'
  <1>1. /\ shell \in ShellRecords /\ sockets \in [Sockets -> SocketRecords] /\ spawned \in Nat
        /\ sockets[k].state = "dialling" /\ sockets[k] \in SocketRecords
        /\ panes' = panes /\ dialled' = dialled
    BY DEF Plumbed, Plugged, Upgrade
  <1>2. CASE shell.id # 0 /\ AttachPty(shell, k) /\ spawned' = spawned
    <2>1. shell.id <= spawned /\ shell.parsed <= shell.out /\ (shell.socket # 0 => shell.socket \in Sockets)
      BY DEF Plumbed, Clients
    <2>2. \A j \in Sockets : (sockets[j].state = "open" /\ shell.id = sockets[j].shell) => shell.socket = j
      BY DEF Plumbed, Clients
    <2>3. spawned <= spawned'
      BY <1>1, <1>2
    <2> QED BY <1>1, <1>2, <2>1, <2>2, <2>3, PlumbedAttach
  <1>3. CASE spawned' = spawned + 1 /\ AttachPty(NewShell(spawned'), k)
    <2>1. PICK n \in Nat : n = spawned + 1 /\ n # 0
      BY <1>1
    <2>2. PICK s \in ShellRecords : s = NewShell(n) /\ s.id = n /\ s.out = 0 /\ s.parsed = 0 /\ s.socket = 0
      BY Spawned
    <2>3. \A j \in Sockets : s.id # sockets[j].shell
      <3> SUFFICES ASSUME NEW j \in Sockets PROVE n # sockets[j].shell
        BY <2>2
      <3>1. sockets[j].shell <= spawned /\ sockets[j].shell \in Nat
        <4>1. sockets[j].shell \in Nat
          BY <1>1, SocketFields
        <4> QED BY <4>1 DEF Plumbed, Clients
      <3> QED BY <1>1, <2>1, <3>1
    <2>4. AttachPty(s, k)
      BY <1>3, <2>1, <2>2
    <2>5. spawned' \in Nat /\ spawned <= spawned' /\ s.id <= spawned' /\ s.id # 0 /\ s.parsed <= s.out
      BY <1>1, <1>3, <2>1, <2>2
    <2> QED BY <1>1, <2>2, <2>3, <2>4, <2>5, PlumbedAttach
  <1>4. CASE /\ sockets' = [sockets EXCEPT ![k].state = "kicked", ![k].down = <<Opened>>]
             /\ shell' = shell /\ spawned' = spawned
    <2>1. PICK frames \in Seq(PaneFrames) : frames = <<Opened>>
      <3>1. Opened \in PaneFrames
        BY DEF Opened, PaneFrames
      <3>2. <<Opened>> \in Seq(PaneFrames)
        BY <3>1
      <3> QED BY <3>2
    <2>2. PICK r1 : r1 = [sockets[k] EXCEPT !.state = "kicked"]
      OBVIOUS
    <2>3. PICK r : r = [r1 EXCEPT !.down = frames]
      OBVIOUS
    <2>4. r \in SocketRecords /\ r.state = "kicked" /\ r.pane = sockets[k].pane /\ r.shell = sockets[k].shell
      <3>1. "kicked" \in States
        BY DEF States
      <3>2. /\ r1 \in SocketRecords /\ r1.state = "kicked" /\ r1.pane = sockets[k].pane
            /\ r1.shell = sockets[k].shell
        BY <1>1, <2>2, <3>1, SocketState
      <3> QED BY <2>3, <3>2, SocketDown
    <2>5. sockets' = [sockets EXCEPT ![k] = r]
      BY <1>1, <1>4, <2>1, <2>2, <2>3
    <2>6. /\ sockets' \in [Sockets -> SocketRecords] /\ sockets'[k] = r
          /\ \A j \in Sockets : j # k => sockets'[j] = sockets[j]
      BY <1>1, <2>4, <2>5
    <2>7. \A j \in Sockets : sockets'[j].pane = sockets[j].pane /\ sockets'[j].shell = sockets[j].shell
      BY <2>4, <2>6
    <2>8. \A j \in Sockets : sockets'[j].state = "open" => j # k
      BY <2>4, <2>6
    <2>9. Plugged'
      BY <1>1, <1>4, <2>6 DEF Plumbed, Plugged
    <2>10. Tied'
      <3>1. \A j \in Sockets : InPlace(sockets[j].state) <=> InPlace(sockets'[j].state)
        BY <1>1, <2>4, <2>6 DEF InPlace
      <3> QED BY <1>1, <2>7, <3>1, StillTied DEF Plumbed
    <2>11. Clients'
      <3>1. \A j \in Sockets : sockets'[j].state = "open" => sockets[j].state = "open"
        BY <2>6, <2>8
      <3> QED BY <1>4, <2>7, <3>1 DEF Plumbed, Clients
    <2>12. AllHear'
      BY <1>1, <1>4, <2>6, <2>8, StillHears DEF Plumbed
    <2>13. BacklogIsOwed'
      <3>1. shell.socket # 0 => shell.socket \in Sockets
        BY DEF Plumbed, Clients
      <3> QED BY <1>1, <1>4, <2>6, <2>8, <3>1, StillOwed DEF Plumbed
    <2> QED BY <2>9, <2>10, <2>11, <2>12, <2>13 DEF Plumbed
  <1> QED BY <1>2, <1>3, <1>4, Zenon DEF Upgrade

-----------------------------------------------------------------------------
(* The steps of a pane.                                                    *)

\* A pane takes its socket, or lets go of it, while no open socket is its.
LEMMA PlumbedElsewhere ==
    ASSUME Plumbed, NEW p \in Panes, shell' = shell, spawned' = spawned,
           sockets' \in [Sockets -> SocketRecords],
           \A q \in Panes : q # p => panes'[q] = panes[q],
           \A j \in Sockets :
              /\ sockets'[j].shell \in {sockets[j].shell, 0}
              /\ sockets'[j].state = "open" =>
                    /\ sockets'[j] = sockets[j]
                    /\ sockets[j].pane \in Panes /\ sockets[j].pane # p
    PROVE  Clients' /\ AllHear' /\ BacklogIsOwed'
  <1>1. \A j \in Sockets : sockets'[j].state = "open" => panes'[sockets[j].pane] = panes[sockets[j].pane]
    OBVIOUS
  <1>2. shell.socket # 0 => shell.socket \in Sockets
    BY DEF Plumbed, Clients
  <1>3. Clients'
    <2>1. \A j \in Sockets : sockets'[j].shell <= spawned
      BY DEF Plumbed, Plugged, Clients
    <2> QED BY <1>2, <2>1 DEF Plumbed, Clients
  <1>4. AllHear'
    BY <1>1, StillHears DEF Plumbed
  <1>5. BacklogIsOwed'
    BY <1>1, <1>2, StillOwed DEF Plumbed
  <1> QED BY <1>3, <1>4, <1>5

\* A pane lets go of its socket, if it has one, and closes it.
LEMMA PlumbedLetGo ==
    ASSUME Plumbed, NEW p \in Panes, NEW pane \in PaneRecords, panes' = [panes EXCEPT ![p] = pane],
           pane.ws = 0, pane.retry => pane.mounted,
           panes[p].ws # 0 => sockets' = Closed(sockets, panes[p].ws),
           panes[p].ws = 0 => sockets' = sockets,
           UNCHANGED <<shell, spawned, dialled>>
    PROVE  Plumbed'
  <1>1. /\ sockets \in [Sockets -> SocketRecords] /\ panes \in [Panes -> PaneRecords]
        /\ shell' = shell /\ spawned' = spawned /\ dialled' = dialled
    BY DEF Plumbed, Plugged
  <1>2. /\ panes' \in [Panes -> PaneRecords] /\ panes'[p] = pane
        /\ \A q \in Panes : q # p => panes'[q] = panes[q]
    BY <1>1
  <1>3. /\ sockets' \in [Sockets -> SocketRecords]
        /\ \A j \in Sockets :
              /\ sockets'[j].shell \in {sockets[j].shell, 0}
              /\ InPlace(sockets'[j].state) =>
                    /\ sockets'[j] = sockets[j]
                    /\ sockets[j].pane \in Panes /\ sockets[j].pane # p
              /\ (InPlace(sockets[j].state) /\ sockets[j].pane # p) => sockets'[j] = sockets[j]
    <2>1. CASE panes[p].ws = 0
      <3>1. \A j \in Sockets : InPlace(sockets[j].state) => sockets[j].pane \in Panes /\ sockets[j].pane # p
        BY <2>1, SocketNumbers DEF Plumbed, Tied
      <3> QED BY <1>1, <2>1, <3>1
    <2>2. CASE panes[p].ws # 0
      <3>1. PICK k \in Sockets : k = panes[p].ws
        BY <2>2 DEF Plumbed, Tied
      <3>2. InPlace(sockets[k].state) /\ sockets[k].pane = p
        BY <2>2, <3>1 DEF Plumbed, Tied
      <3>3. sockets' = Closed(sockets, k)
        BY <2>2, <3>1
      <3>4. /\ sockets' \in [Sockets -> SocketRecords]
            /\ \A j \in Sockets \ {k} : sockets'[j] = sockets[j]
            /\ sockets'[k].state \in {"left", "gone"}
            /\ sockets'[k].shell \in {sockets[k].shell, 0}
        BY <1>1, <3>2, <3>3, ClosedIs
      <3>5. ~InPlace(sockets'[k].state)
        BY <3>4 DEF InPlace
      <3>6. ASSUME NEW j \in Sockets, j # k, InPlace(sockets[j].state)
            PROVE  sockets[j].pane \in Panes /\ sockets[j].pane # p
        BY <3>1, <3>6 DEF Plumbed, Tied
      <3>7. ASSUME NEW j \in Sockets
            PROVE  /\ sockets'[j].shell \in {sockets[j].shell, 0}
                   /\ InPlace(sockets'[j].state) =>
                         /\ sockets'[j] = sockets[j]
                         /\ sockets[j].pane \in Panes /\ sockets[j].pane # p
                   /\ (InPlace(sockets[j].state) /\ sockets[j].pane # p) => sockets'[j] = sockets[j]
        <4>1. CASE j = k
          BY <3>2, <3>4, <3>5, <4>1
        <4>2. CASE j # k
          BY <3>4, <3>6, <4>2
        <4> QED BY <4>1, <4>2
      <3> QED BY <3>4, <3>7
    <2> QED BY <2>1, <2>2
  <1>4. Plugged'
    BY <1>1, <1>2, <1>3 DEF Plumbed, Plugged
  <1>5. Tied'
    <2>1. \A k \in Sockets : InPlace(sockets'[k].state) =>
             sockets'[k].pane \in Panes /\ panes'[sockets'[k].pane].ws = k
      BY <1>2, <1>3 DEF Plumbed, Tied
    <2>2. ASSUME NEW q \in Panes
          PROVE  /\ panes'[q].ws # 0 =>
                       /\ panes'[q].ws \in Sockets /\ panes'[q].ws <= dialled'
                       /\ sockets'[panes'[q].ws].pane = q /\ InPlace(sockets'[panes'[q].ws].state)
                       /\ panes'[q].mounted /\ ~panes'[q].retry
                 /\ panes'[q].retry => panes'[q].mounted
      <3>1. CASE q = p
        BY <1>2, <3>1
      <3>2. CASE q # p
        <4>1. panes'[q] = panes[q]
          BY <1>2, <3>2
        <4>2. panes[q].ws # 0 =>
                 /\ panes[q].ws \in Sockets /\ panes[q].ws <= dialled
                 /\ sockets[panes[q].ws].pane = q /\ InPlace(sockets[panes[q].ws].state)
                 /\ panes[q].mounted /\ ~panes[q].retry
          BY DEF Plumbed, Tied
        <4>3. panes[q].ws # 0 => sockets'[panes[q].ws] = sockets[panes[q].ws]
          BY <1>3, <3>2, <4>2
        <4>4. panes[q].retry => panes[q].mounted
          BY DEF Plumbed, Tied
        <4> QED BY <1>1, <4>1, <4>2, <4>3, <4>4
      <3> QED BY <3>1, <3>2
    <2> QED BY <2>1, <2>2, Zenon DEF Tied
  <1>6. Clients' /\ AllHear' /\ BacklogIsOwed'
    <2>1. \A j \in Sockets : sockets'[j].state = "open" =>
             /\ sockets'[j] = sockets[j]
             /\ sockets[j].pane \in Panes /\ sockets[j].pane # p
      BY <1>3 DEF InPlace
    <2> QED BY <1>1, <1>2, <1>3, <2>1, PlumbedElsewhere
  <1> QED BY <1>4, <1>5, <1>6 DEF Plumbed

LEMMA PaneFields ==
    ASSUME NEW x \in PaneRecords
    PROVE  /\ x.mounted \in BOOLEAN /\ x.ws \in Nat /\ x.retry \in BOOLEAN
           /\ x.acked \in Nat /\ x.screen \in Seq(Nat)
  BY Zenon DEF PaneRecords

LEMMA PlumbedSocketDrops ==
    ASSUME Plumbed, NEW p \in Panes, SocketDrops(p)
    PROVE  Plumbed'
  <1>1. panes[p] \in PaneRecords
    BY DEF Plumbed, Plugged
  <1>2. panes[p].ws # 0 /\ sockets' = Closed(sockets, panes[p].ws) /\ UNCHANGED <<shell, spawned, dialled>>
    BY Zenon DEF SocketDrops
  <1>3. PICK half : half = [panes[p] EXCEPT !.ws = 0]
    OBVIOUS
  <1>4. half \in PaneRecords /\ half.ws = 0 /\ half.mounted = panes[p].mounted
    BY <1>1, <1>3 DEF PaneRecords
  <1>5. PICK pane : pane = [half EXCEPT !.retry = TRUE]
    OBVIOUS
  <1>6. pane \in PaneRecords /\ pane.ws = 0 /\ pane.mounted = half.mounted
    BY <1>4, <1>5 DEF PaneRecords
  <1>7. panes[p].mounted
    BY <1>2 DEF Plumbed, Tied
  <1>8. panes' = [panes EXCEPT ![p] = pane]
    <2>1. panes' = [panes EXCEPT ![p] = Lost(panes[p])]
      BY <1>1 DEF SocketDrops
    <2>2. Lost(panes[p]) = [panes[p] EXCEPT !.ws = 0, !.retry = TRUE]
      BY DEF Lost
    <2>3. Lost(panes[p]) = pane
      BY <1>3, <1>5, <2>2
    <2> QED BY <2>1, <2>3
  <1>9. pane.retry => pane.mounted
    BY <1>4, <1>6, <1>7, Zenon
  <1> QED BY <1>2, <1>6, <1>8, <1>9, PlumbedLetGo

LEMMA PlumbedUnmountPane ==
    ASSUME Plumbed, NEW p \in Panes, UnmountPane(p)
    PROVE  Plumbed'
  <1>1. /\ panes' = [panes EXCEPT ![p] = NoPane] /\ UNCHANGED <<shell, spawned, dialled>>
        /\ sockets' = IF panes[p].ws = 0 THEN sockets ELSE Closed(sockets, panes[p].ws)
    BY DEF UnmountPane
  <1>2. PICK pane \in PaneRecords : pane = NoPane /\ pane.ws = 0 /\ (pane.retry => pane.mounted)
    BY Absent
  <1>3. panes' = [panes EXCEPT ![p] = pane]
    BY <1>1, <1>2
  <1> QED BY <1>1, <1>2, <1>3, PlumbedLetGo

LEMMA PlumbedMountPane ==
    ASSUME Plumbed, NEW p \in Panes, MountPane(p)
    PROVE  Plumbed'
  <1>1. UNCHANGED <<shell, spawned, sockets, dialled>> /\ ~panes[p].mounted
    BY DEF MountPane
  <1>2. PICK half : half = [NoPane EXCEPT !.mounted = TRUE]
    OBVIOUS
  <1>3. half \in PaneRecords /\ half.ws = 0 /\ half.mounted
    BY <1>2, Absent DEF PaneRecords
  <1>4. PICK pane : pane = [half EXCEPT !.retry = TRUE]
    OBVIOUS
  <1>5. pane \in PaneRecords /\ pane.ws = 0 /\ pane.mounted
    BY <1>3, <1>4 DEF PaneRecords
  <1>6. panes' = [panes EXCEPT ![p] = pane]
    <2>1. panes' = [panes EXCEPT ![p] = [NoPane EXCEPT !.mounted = TRUE, !.retry = TRUE]]
      BY Zenon DEF MountPane
    <2>2. pane = [NoPane EXCEPT !.mounted = TRUE, !.retry = TRUE]
      BY <1>2, <1>4
    <2> QED BY <2>1, <2>2
  <1>7. panes[p].ws = 0
    BY <1>1 DEF Plumbed, Tied
  <1> QED BY <1>1, <1>5, <1>6, <1>7, PlumbedLetGo

LEMMA PlumbedConnect ==
    ASSUME Plumbed, NEW p \in Panes, Connect(p)
    PROVE  Plumbed'
  <1>1. /\ sockets \in [Sockets -> SocketRecords] /\ panes \in [Panes -> PaneRecords]
        /\ panes[p] \in PaneRecords /\ dialled \in Nat /\ shell' = shell /\ spawned' = spawned
        /\ panes[p].retry /\ dialled < MaxSockets
    BY DEF Plumbed, Plugged, Connect
  <1>2. PICK k \in Sockets : k = dialled + 1
    <2>1. dialled + 1 \in Sockets
      BY <1>1, TerminalAssumption DEF Sockets
    <2> QED BY <2>1
  <1>3. dialled' = k /\ sockets' = [sockets EXCEPT ![k] = NewSocket(p)]
    BY <1>2, Zenon DEF Connect
  <1>4. panes[p].ws = 0 /\ panes[p].mounted
    BY <1>1 DEF Plumbed, Tied
  <1>5. ~InPlace(sockets[k].state)
    <2> SUFFICES ASSUME InPlace(sockets[k].state) PROVE FALSE
      OBVIOUS
    <2>1. sockets[k].pane \in Panes /\ panes[sockets[k].pane].ws = k
      BY DEF Plumbed, Tied
    <2>2. k <= dialled
      BY <2>1, SocketNumbers DEF Plumbed, Tied
    <2> QED BY <1>1, <1>2, <2>2
  <1>6. PICK half : half = [panes[p] EXCEPT !.ws = k]
    OBVIOUS
  <1>7. half \in PaneRecords /\ half.ws = k /\ half.mounted = panes[p].mounted
    BY <1>1, <1>6, SocketNumbers DEF PaneRecords
  <1>8. PICK pane : pane = [half EXCEPT !.retry = FALSE]
    OBVIOUS
  <1>9. pane \in PaneRecords /\ pane.ws = k /\ pane.mounted = half.mounted /\ ~pane.retry
    BY <1>7, <1>8 DEF PaneRecords
  <1>10. panes' = [panes EXCEPT ![p] = pane]
    <2>1. panes' = [panes EXCEPT ![p].ws = k, ![p].retry = FALSE]
      BY <1>3, Zenon DEF Connect
    <2> QED BY <1>1, <1>6, <1>8, <2>1
  <1>11. /\ panes' \in [Panes -> PaneRecords] /\ panes'[p] = pane
         /\ \A q \in Panes : q # p => panes'[q] = panes[q]
    BY <1>1, <1>9, <1>10
  <1>12. PICK new \in SocketRecords : new = NewSocket(p) /\ new.state = "dialling" /\ new.pane = p /\ new.shell = 0
    <2>1. <<>> \in Seq(PaneFrames) /\ <<>> \in Seq(Nat)
      OBVIOUS
    <2>2. NewSocket(p) \in SocketRecords
      BY <2>1 DEF NewSocket, SocketRecords
    <2>3. NewSocket(p).state = "dialling" /\ NewSocket(p).pane = p /\ NewSocket(p).shell = 0
      BY DEF NewSocket
    <2> QED BY <2>2, <2>3
  <1>13. /\ sockets' \in [Sockets -> SocketRecords] /\ sockets'[k] = new
         /\ \A j \in Sockets : j # k => sockets'[j] = sockets[j]
    BY <1>1, <1>3, <1>12
  <1>14. ASSUME NEW j \in Sockets, InPlace(sockets[j].state)
         PROVE  j # k /\ sockets[j].pane \in Panes /\ sockets[j].pane # p
    BY <1>4, <1>5, <1>14, SocketNumbers DEF Plumbed, Tied
  <1>15. Plugged'
    BY <1>1, <1>3, <1>11, <1>13, SocketNumbers DEF Plumbed, Plugged
  <1>16. Tied'
    <2>1. ASSUME NEW j \in Sockets, InPlace(sockets'[j].state)
          PROVE  sockets'[j].pane \in Panes /\ panes'[sockets'[j].pane].ws = j
      <3>1. CASE j = k
        BY <1>9, <1>11, <1>12, <1>13, <3>1
      <3>2. CASE j # k
        <4>1. sockets'[j] = sockets[j] /\ InPlace(sockets[j].state)
          BY <1>13, <2>1, <3>2
        <4>2. panes[sockets[j].pane].ws = j /\ sockets[j].pane \in Panes /\ sockets[j].pane # p
          BY <1>14, <4>1 DEF Plumbed, Tied
        <4> QED BY <1>11, <4>1, <4>2
      <3> QED BY <3>1, <3>2
    <2>2. ASSUME NEW q \in Panes
          PROVE  /\ panes'[q].ws # 0 =>
                       /\ panes'[q].ws \in Sockets /\ panes'[q].ws <= k
                       /\ sockets'[panes'[q].ws].pane = q /\ InPlace(sockets'[panes'[q].ws].state)
                       /\ panes'[q].mounted /\ ~panes'[q].retry
                 /\ panes'[q].retry => panes'[q].mounted
      <3>1. CASE q = p
        <4>1. InPlace(new.state)
          BY <1>12 DEF InPlace
        <4>2. k <= k
          BY SocketNumbers
        <4>3. panes'[q] = pane /\ sockets'[k] = new
          BY <1>11, <1>13, <3>1
        <4>4. pane.mounted /\ ~pane.retry
          BY <1>4, <1>7, <1>9
        <4> QED BY <1>9, <1>12, <3>1, <4>1, <4>2, <4>3, <4>4, Zenon
      <3>2. CASE q # p
        <4>1. panes'[q] = panes[q]
          BY <1>11, <3>2
        <4>2. panes[q].ws # 0 =>
                 /\ panes[q].ws \in Sockets /\ panes[q].ws <= dialled
                 /\ sockets[panes[q].ws].pane = q /\ InPlace(sockets[panes[q].ws].state)
                 /\ panes[q].mounted /\ ~panes[q].retry
          BY DEF Plumbed, Tied
        <4>3. panes[q].ws # 0 => panes[q].ws # k /\ panes[q].ws <= k
          <5>1. PICK w : w = panes[q].ws
            OBVIOUS
          <5>2. w # 0 => w \in Nat /\ w <= dialled
            BY <4>2, <5>1, SocketNumbers
          <5>3. w # 0 => w # k /\ w <= k
            BY <1>1, <1>2, <5>2
          <5> QED BY <5>1, <5>3
        <4>4. panes[q].ws # 0 => sockets'[panes[q].ws] = sockets[panes[q].ws]
          BY <1>13, <4>2, <4>3
        <4>5. panes[q].retry => panes[q].mounted
          BY DEF Plumbed, Tied
        <4> QED BY <4>1, <4>2, <4>3, <4>4, <4>5, Zenon
      <3> QED BY <3>1, <3>2
    <2> QED BY <1>3, <2>1, <2>2, Zenon DEF Tied
  <1>17. Clients' /\ AllHear' /\ BacklogIsOwed'
    <2>1. ASSUME NEW j \in Sockets
          PROVE  /\ sockets'[j].shell \in {sockets[j].shell, 0}
                 /\ sockets'[j].state = "open" =>
                       /\ sockets'[j] = sockets[j]
                       /\ sockets[j].pane \in Panes /\ sockets[j].pane # p
      <3>1. CASE j = k
        BY <1>12, <1>13, <3>1
      <3>2. CASE j # k
        <4>1. sockets'[j] = sockets[j]
          BY <1>13, <3>2
        <4>2. sockets[j].state = "open" => sockets[j].pane \in Panes /\ sockets[j].pane # p
          BY <1>14 DEF InPlace
        <4> QED BY <4>1, <4>2
      <3> QED BY <3>1, <3>2
    <2> QED BY <1>1, <1>11, <1>13, <2>1, PlumbedElsewhere
  <1> QED BY <1>15, <1>16, <1>17 DEF Plumbed

\* A frame is drawn on its pane, which may report what it has consumed.
LEMMA PlumbedReceive ==
    ASSUME Plumbed, NEW p \in Panes, Receive(p)
    PROVE  Plumbed'
  <1>1. /\ sockets \in [Sockets -> SocketRecords] /\ panes \in [Panes -> PaneRecords]
        /\ panes[p] \in PaneRecords /\ shell \in ShellRecords
        /\ shell' = shell /\ spawned' = spawned /\ dialled' = dialled /\ panes[p].ws # 0
    BY DEF Plumbed, Plugged, Receive
  <1>2. PICK k \in Sockets : k = panes[p].ws
    BY <1>1 DEF Plumbed, Tied
  <1>3. sockets[k] \in SocketRecords /\ sockets[k].pane = p
    BY <1>1, <1>2 DEF Plumbed, Tied
  <1>4. PICK frames \in Seq(PaneFrames) : frames = sockets[k].down /\ frames # <<>>
    BY <1>2, <1>3, SocketFields DEF Receive
  <1>5. PICK rest \in Seq(PaneFrames) : rest = Tail(frames)
    <2>1. Tail(frames) \in Seq(PaneFrames)
      BY <1>4
    <2> QED BY <2>1
  <1>6. PICK frame \in PaneFrames : frame = Head(frames)
    <2>1. Head(frames) \in PaneFrames
      BY <1>4
    <2> QED BY <2>1
  <1>7. frame.kind \in {"opened", "snapshot", "chunk"} /\ frame.n \in Nat
    BY DEF PaneFrames
  <1>8. PICK c \in {0, 1} : c = IF frame.kind = "chunk" THEN 1 ELSE 0
    OBVIOUS
  <1>9. Size(frame) \in Nat /\ c <= Size(frame)
    BY <1>7, <1>8 DEF Size
  <1>10. PICK used \in Nat : used = panes[p].acked
    BY <1>1, PaneFields
  <1>11. PICK due \in Nat : due = used + Size(frame)
    <2>1. used + Size(frame) \in Nat
      BY <1>9
    <2> QED BY <2>1
  <1>12. PICK acks \in BOOLEAN : acks = (frame.kind # "opened" /\ due >= AckEvery)
    OBVIOUS
  <1>13. PICK screen \in Seq(Nat) : screen = panes[p].screen
    BY <1>1, PaneFields
  <1>14. PICK drawn \in Seq(Nat) : drawn = Drawn(screen, frame)
    BY DrawnIs
  <1>15. PICK up0 \in Seq(Nat) : up0 = sockets[k].up
    BY <1>3, SocketFields
  <1>16. PICK up1 \in Seq(Nat) : up1 = IF acks THEN Append(up0, due) ELSE up0
    <2>1. Append(up0, due) \in Seq(Nat)
      OBVIOUS
    <2> QED BY <2>1
  <1>17. PICK over \in Nat : over = IF acks THEN 0 ELSE due
    <2>1. (IF acks THEN 0 ELSE due) \in Nat
      OBVIOUS
    <2> QED BY <2>1
  <1>18. /\ panes' = [panes EXCEPT ![p].screen = Drawn(@, Head(sockets[panes[p].ws].down)),
                                   ![p].acked = IF acks THEN 0 ELSE due]
         /\ sockets' = [sockets EXCEPT ![panes[p].ws].down = Tail(@),
                                       ![panes[p].ws].up = IF acks THEN Append(@, due) ELSE @]
    BY <1>2, <1>4, <1>6, <1>10, <1>11, <1>12, Zenon DEF Receive
  <1>19. PICK half : half = [panes[p] EXCEPT !.screen = drawn]
    OBVIOUS
  <1>20. /\ half \in PaneRecords /\ half.screen = drawn /\ half.ws = k
         /\ half.mounted = panes[p].mounted /\ half.retry = panes[p].retry
    BY <1>1, <1>2, <1>19 DEF PaneRecords
  <1>21. PICK pane : pane = [half EXCEPT !.acked = over]
    OBVIOUS
  <1>22. /\ pane \in PaneRecords /\ pane.screen = drawn /\ pane.ws = k /\ pane.acked = over
         /\ pane.mounted = half.mounted /\ pane.retry = half.retry
    BY <1>20, <1>21 DEF PaneRecords
  <1>23. panes' = [panes EXCEPT ![p] = pane]
    <2>1. panes' = [panes EXCEPT ![p].screen = drawn, ![p].acked = over]
      BY <1>1, <1>2, <1>4, <1>6, <1>13, <1>14, <1>17, <1>18
    <2> QED BY <1>1, <1>19, <1>21, <2>1
  <1>24. PICK part : part = [sockets[k] EXCEPT !.down = rest]
    OBVIOUS
  <1>25. /\ part \in SocketRecords /\ part.down = rest /\ part.pane = p /\ part.up = up0
         /\ part.state = sockets[k].state /\ part.shell = sockets[k].shell
    BY <1>3, <1>15, <1>24, SocketDown
  <1>26. PICK r : r = [part EXCEPT !.up = up1]
    OBVIOUS
  <1>27. /\ r \in SocketRecords /\ r.down = rest /\ r.pane = p /\ r.up = up1
         /\ r.state = sockets[k].state /\ r.shell = sockets[k].shell
    BY <1>25, <1>26, SocketUp
  <1>28. sockets' = [sockets EXCEPT ![k] = r]
    <2>1. sockets' = [sockets EXCEPT ![k].down = rest, ![k].up = up1]
      BY <1>1, <1>2, <1>4, <1>5, <1>15, <1>16, <1>18
    <2> QED BY <1>1, <1>24, <1>26, <2>1
  <1>29. /\ sockets' \in [Sockets -> SocketRecords] /\ sockets'[k] = r
         /\ \A j \in Sockets : j # k => sockets'[j] = sockets[j]
    BY <1>1, <1>27, <1>28
  <1>30. /\ panes' \in [Panes -> PaneRecords] /\ panes'[p] = pane
         /\ \A q \in Panes : q # p => panes'[q] = panes[q]
    BY <1>1, <1>22, <1>23
  <1>31. \A j \in Sockets : /\ sockets'[j].pane = sockets[j].pane /\ sockets'[j].state = sockets[j].state
                            /\ sockets'[j].shell = sockets[j].shell
    BY <1>3, <1>27, <1>29
  <1>32. \A q \in Panes : /\ panes'[q].ws = panes[q].ws /\ panes'[q].mounted = panes[q].mounted
                          /\ panes'[q].retry = panes[q].retry
    BY <1>2, <1>20, <1>22, <1>30, Zenon
  <1>33. ASSUME NEW j \in Sockets, j # k, sockets[j].state = "open"
         PROVE  sockets[j].pane \in Panes /\ sockets[j].pane # p
    BY <1>2, <1>33 DEF Plumbed, Tied, InPlace
  <1>34. Plugged'
    BY <1>1, <1>29, <1>30 DEF Plumbed, Plugged
  <1>35. Tied'
    <2>1. ASSUME NEW j \in Sockets, InPlace(sockets'[j].state)
          PROVE  sockets'[j].pane \in Panes /\ panes'[sockets'[j].pane].ws = j
      <3>1. sockets[j].pane \in Panes /\ panes[sockets[j].pane].ws = j
        BY <1>31, <2>1 DEF Plumbed, Tied
      <3> QED BY <1>31, <1>32, <3>1
    <2>2. ASSUME NEW q \in Panes
          PROVE  /\ panes'[q].ws # 0 =>
                       /\ panes'[q].ws \in Sockets /\ panes'[q].ws <= dialled'
                       /\ sockets'[panes'[q].ws].pane = q /\ InPlace(sockets'[panes'[q].ws].state)
                       /\ panes'[q].mounted /\ ~panes'[q].retry
                 /\ panes'[q].retry => panes'[q].mounted
      <3>1. /\ panes[q].ws # 0 =>
                  /\ panes[q].ws \in Sockets /\ panes[q].ws <= dialled
                  /\ sockets[panes[q].ws].pane = q /\ InPlace(sockets[panes[q].ws].state)
                  /\ panes[q].mounted /\ ~panes[q].retry
            /\ panes[q].retry => panes[q].mounted
        BY DEF Plumbed, Tied
      <3> QED BY <1>1, <1>31, <1>32, <3>1
    <2> QED BY <2>1, <2>2, Zenon DEF Tied
  <1>36. Clients'
    <2>1. shell'.parsed <= shell'.out
      BY <1>1 DEF Plumbed, Clients
    <2> QED BY <1>1, <1>31, <2>1, StillClients DEF Plumbed
  <1>37. AllHear'
    <2> SUFFICES ASSUME NEW j \in Sockets, sockets'[j].state = "open", shell'.id = sockets'[j].shell
                 PROVE  Hears(panes'[sockets'[j].pane].screen, sockets'[j].down, shell'.out)
      BY Zenon DEF AllHear
    <2>1. sockets[j].state = "open" /\ shell.id = sockets[j].shell
      BY <1>1, <1>31
    <2>2. Hears(panes[sockets[j].pane].screen, sockets[j].down, shell.out)
      BY <2>1 DEF Plumbed, AllHear
    <2>3. CASE j = k
      <3>1. Hears(screen, frames, shell.out)
        BY <1>3, <1>4, <1>13, <2>2, <2>3
      <3>2. PICK g, held, from :
              /\ held \in 0 .. shell.out /\ from \in 0 .. shell.out /\ held <= from
              /\ Draws(g, screen, frames) /\ g[Len(frames)] = Told(held, from, shell.out)
        BY <3>1 DEF Hears
      <3>3. PICK h : Draws(h, drawn, rest) /\ h[Len(rest)] = g[Len(frames)]
        <4>1. PICK h : /\ Draws(h, Drawn(screen, Head(frames)), Tail(frames))
                       /\ h[Len(Tail(frames))] = g[Len(frames)]
          BY <1>4, <3>2, DrawsLess
        <4> QED BY <1>5, <1>6, <1>14, <4>1
      <3>4. h[Len(rest)] = Told(held, from, shell.out)
        BY <3>2, <3>3
      <3>5. Hears(drawn, rest, shell.out)
        BY <3>2, <3>3, <3>4, HearsWith
      <3> QED BY <1>1, <1>22, <1>27, <1>29, <1>30, <2>3, <3>5
    <2>4. CASE j # k
      <3>1. sockets'[j] = sockets[j] /\ panes'[sockets[j].pane] = panes[sockets[j].pane]
        BY <1>29, <1>30, <1>33, <2>1, <2>4
      <3> QED BY <1>1, <2>2, <3>1
    <2> QED BY <2>3, <2>4
  <1>38. BacklogIsOwed'
    <2> SUFFICES ASSUME NEW j, j = shell.socket, j # 0, sockets'[j].state = "open"
                 PROVE  shell.outstanding <=
                           Live(sockets'[j].down) + Sum(sockets'[j].up) + panes'[sockets'[j].pane].acked
      BY <1>1 DEF BacklogIsOwed
    <2>1. j \in Sockets /\ sockets[j].state = "open"
      BY <1>31 DEF Plumbed, Clients
    <2>2. shell.outstanding <= Live(sockets[j].down) + Sum(sockets[j].up) + panes[sockets[j].pane].acked
      BY <2>1 DEF Plumbed, BacklogIsOwed
    <2>3. CASE j = k
      <3>1. PICK owed \in Nat : owed = shell.outstanding
        BY <1>1, ShellFields
      <3>2. PICK onway \in Nat : onway = Live(rest)
        BY LiveNat
      <3>3. PICK heard \in Nat : heard = Sum(up0)
        BY SumNat
      <3>4. Live(frames) = onway + c
        BY <1>4, <1>5, <1>6, <1>8, <3>2, LiveTail
      <3>5. owed <= (onway + c) + heard + used
        BY <1>3, <1>4, <1>10, <1>15, <2>2, <2>3, <3>1, <3>3, <3>4
      <3>6. Sum(up1) + over = heard + due
        <4>1. CASE acks
          <5>1. up1 = Append(up0, due) /\ over = 0
            BY <1>16, <1>17, <4>1
          <5>2. Sum(up1) = heard + due
            BY <3>3, <5>1, SumAppend
          <5> QED BY <5>1, <5>2
        <4>2. CASE ~acks
          BY <1>16, <1>17, <3>3, <4>2
        <4> QED BY <4>1, <4>2
      <3>7. PICK later \in Nat : later = Sum(up1)
        BY SumNat
      <3>8. PICK size \in Nat : size = Size(frame) /\ c <= size
        BY <1>9
      <3>9. owed <= onway + later + over
        <4>1. due = used + size /\ later + over = heard + due
          BY <1>11, <3>6, <3>7, <3>8
        <4>2. c <= size /\ c \in Nat
          BY <3>8
        <4> QED BY <3>5, <4>1, <4>2
      <3> QED BY <1>1, <1>22, <1>27, <1>29, <1>30, <2>3, <3>1, <3>2, <3>7, <3>9
    <2>4. CASE j # k
      <3>1. sockets'[j] = sockets[j] /\ panes'[sockets[j].pane] = panes[sockets[j].pane]
        BY <1>29, <1>30, <1>33, <2>1, <2>4
      <3> QED BY <2>2, <3>1
    <2> QED BY <2>3, <2>4
  <1> QED BY <1>34, <1>35, <1>36, <1>37, <1>38 DEF Plumbed

-----------------------------------------------------------------------------
(* The terminal's theorems.                                                *)

LEMMA PlumbedInit ==
    ASSUME PtyInit
    PROVE  Plumbed
  <1>1. /\ shell = NoShell /\ spawned = 0 /\ dialled = 0
        /\ sockets = [k \in Sockets |-> GoneSocket] /\ panes = [p \in Panes |-> NoPane]
    BY DEF PtyInit
  <1>2. \A k \in Sockets : sockets[k] = GoneSocket /\ sockets[k].state = "gone" /\ sockets[k].shell = 0
    BY <1>1, Absent
  <1>3. \A p \in Panes : panes[p].ws = 0 /\ ~panes[p].retry
    BY <1>1, Absent
  <1>4. shell.id = 0 /\ shell.out = 0 /\ shell.parsed = 0 /\ shell.socket = 0
    BY <1>1, Absent
  <1>5. Plugged
    <2>1. shell \in ShellRecords /\ sockets \in [Sockets -> SocketRecords] /\ panes \in [Panes -> PaneRecords]
      BY <1>1, Absent
    <2> QED BY <1>1, <2>1 DEF Plugged
  <1>6. Tied
    BY <1>2, <1>3 DEF Tied, InPlace
  <1>7. Clients
    BY <1>1, <1>2, <1>4 DEF Clients
  <1>8. AllHear
    BY <1>2 DEF AllHear
  <1>9. BacklogIsOwed
    BY <1>4 DEF BacklogIsOwed
  <1> QED BY <1>5, <1>6, <1>7, <1>8, <1>9 DEF Plumbed

LEMMA PlumbedNext ==
    ASSUME Plumbed, [PtyNext]_ptyvars
    PROVE  Plumbed'
  <1>1. ASSUME NEW k \in Sockets, Upgrade(k) \/ OnMessage(k) \/ OnClose(k)
        PROVE  Plumbed'
    BY <1>1, PlumbedUpgrade, PlumbedOnMessage, PlumbedOnClose
  <1>2. ASSUME Output \/ Parse \/ Exit \/ OnExit
        PROVE  Plumbed'
    BY <1>2, PlumbedOutput, PlumbedParse, PlumbedExit, PlumbedOnExit
  <1>3. ASSUME NEW p \in Panes,
               \/ MountPane(p) \/ Connect(p) \/ SocketDrops(p) \/ ReadClose(p)
               \/ UnmountPane(p) \/ Receive(p)
        PROVE  Plumbed'
    <2>1. ReadClose(p) => SocketDrops(p)
      BY Zenon DEF ReadClose
    <2> QED BY <1>3, <2>1, PlumbedMountPane, PlumbedConnect, PlumbedSocketDrops, PlumbedUnmountPane,
               PlumbedReceive
  <1>4. ASSUME UNCHANGED ptyvars
        PROVE  Plumbed'
    <2>1. /\ shell' = shell /\ spawned' = spawned /\ sockets' = sockets
          /\ dialled' = dialled /\ panes' = panes
      BY <1>4 DEF ptyvars
    <2>2. Plugged'
      BY <2>1 DEF Plumbed, Plugged
    <2>3. Tied'
      BY <2>1, StillTied DEF Plumbed
    <2>4. Clients'
      BY <2>1 DEF Plumbed, Clients
    <2>5. AllHear'
      BY <2>1, StillHears DEF Plumbed
    <2>6. BacklogIsOwed'
      BY <2>1, StillOwed DEF Plumbed
    <2> QED BY <2>2, <2>3, <2>4, <2>5, <2>6 DEF Plumbed
  <1> QED BY <1>1, <1>2, <1>3, <1>4, Zenon DEF PtyNext

LEMMA PlumbedHears ==
    ASSUME Plumbed
    PROVE  ClientHearsAll
  <1> SUFFICES ASSUME NEW k \in Sockets, sockets[k].state = "open", shell.id = sockets[k].shell
               PROVE  /\ shell.socket = k
                      /\ \E held, from \in 0 .. shell.out :
                            /\ held <= from
                            /\ Coming(k) = [i \in 1 .. held |-> i]
                                           \o [i \in 1 .. (shell.out - from) |-> from + i]
    BY Zenon DEF ClientHearsAll
  <1>1. shell.socket = k
    BY DEF Plumbed, Clients
  <1>2. Hears(panes[sockets[k].pane].screen, sockets[k].down, shell.out)
    BY DEF Plumbed, AllHear
  <1>3. PICK g, held, from :
          /\ held \in 0 .. shell.out /\ from \in 0 .. shell.out /\ held <= from
          /\ Draws(g, panes[sockets[k].pane].screen, sockets[k].down)
          /\ g[Len(sockets[k].down)] = Told(held, from, shell.out)
    BY <1>2 DEF Hears
  <1>4. sockets[k].down \in Seq(PaneFrames)
    <2>1. sockets[k] \in SocketRecords
      BY DEF Plumbed, Plugged
    <2> QED BY <2>1, SocketFields
  <1>5. Coming(k) = Told(held, from, shell.out)
    BY <1>3, <1>4, ComingIs
  <1> QED BY <1>1, <1>3, <1>5 DEF Told

LEMMA PlumbedAlways == PtySpec => []Plumbed
  <1>1. PtyInit => Plumbed
    BY PlumbedInit
  <1>2. Plumbed /\ [PtyNext]_ptyvars => Plumbed'
    BY PlumbedNext
  <1> QED BY <1>1, <1>2, PTL DEF PtySpec

(* A socket that neither end has closed, of the shell that is up, is the   *)
(* session's client, and its pane shows, or will when it has read what is  *)
(* on its way, what the mirror held at its attach and every chunk since,   *)
(* in order and once, whatever the closes of earlier sockets do and        *)
(* whenever the mirror parses (pty.ts attachPty, onData, the close         *)
(* listener; TerminalPane.tsx onmessage).                                  *)
THEOREM ClientHears == PtySpec => []ClientHearsAll
  <1>1. Plumbed => ClientHearsAll
    BY PlumbedHears
  <1> QED BY <1>1, PlumbedAlways, PTL

(* The session never counts more than its client was sent and has not      *)
(* reported: take-overs, reconnections and late acknowledgements leave     *)
(* nothing behind in the backlog (pty.ts outstanding; TerminalPane.tsx     *)
(* acked).                                                                 *)
THEOREM BacklogOwed == PtySpec => []BacklogIsOwed
  <1>1. Plumbed => BacklogIsOwed
    BY DEF Plumbed
  <1> QED BY <1>1, PlumbedAlways, PTL


=============================================================================
