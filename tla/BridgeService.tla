--------------------------- MODULE BridgeService ---------------------------
(***************************************************************************)
(* The cloud mirror of the daemon's sessions: BridgeService, the           *)
(* BridgeTransport it owns per session, the worker state kept on disk      *)
(* (sidecode-sessions.ts) and the startup re-attach.                       *)
(*                                                                         *)
(* An AttachedSession is an object that a reconnect holds on to across its *)
(* awaits while the service's map may already hold another one, so entries *)
(* have an identity: the number of the attach that made them.  A link is   *)
(* one BridgeTransport; it belongs to a cloud session (cse).               *)
(***************************************************************************)
EXTENDS Integers, FiniteSets

CONSTANTS
    Sessions,
    Ladder,        \* retries of a failed reconnect (3 in production)
    MaxAttaches,   \* bound: attaches begun
    MaxLinks,      \* bound: transports opened
    MaxDeaths,     \* bound: transports that die
    MaxInbound,    \* bound: messages of a cloud session
    MaxBoots       \* bound: daemon processes

Attaches == 1 .. MaxAttaches
Links    == 1 .. MaxLinks
Clouds   == Attaches     \* the attach that created it names a cloud session
None     == 0

ASSUME LadderAssumption == Ladder \in Nat
ASSUME SessionsAssumption == None \notin Sessions
ASSUME BoundsAssumption ==
    /\ MaxAttaches \in Nat /\ MaxLinks \in Nat /\ MaxDeaths \in Nat
    /\ MaxInbound \in Nat /\ MaxBoots \in Nat \ {0}

VARIABLES
    \* --- the service
    stopped,
    map,         \* session -> its AttachedSession, None if not bridged
    entry,       \* the AttachedSession objects
    refreshing,  \* the OAuth manager's proactive timer is on
    \* --- awaiting operations
    op,          \* attach and upgrade
    rec,         \* reconnect, one per AttachedSession at most
    boot,        \* the startup re-attach's snapshot of a session it has not reached
    \* --- outside
    link,        \* transports
    bridge,      \* runtime.bridge
    disk,        \* worker state in the metadata file
    gone,        \* cloud sessions deleted
    flushed,     \* cloud sessions that got the history
    \* --- counters and history
    opened, links, deaths, boots,
    got,         \* newest message of a cloud session given to the daemon
    skipped,     \* a message was resumed past without being given
    repeated,    \* messages given twice to this daemon process
    spilt,       \* messages a transport gave it whose connect then failed
    raced        \* two lifecycle operations of a session overlapped, or the
                 \* late close of a failed connect let the session go

serviceVars == <<stopped, map, entry, refreshing>>
waitVars    == <<op, rec, boot>>
cloudVars   == <<gone, flushed>>
countVars   == <<opened, links, deaths, boots>>
inboundVars == <<got, skipped, repeated, spilt>>
vars == <<serviceVars, waitVars, link, bridge, disk, cloudVars, countVars,
          inboundVars, raced>>

NoEntry == [session |-> None, link |-> None, attempt |-> 0,
            refresh |-> FALSE, backoff |-> FALSE]
NoOp    == [phase |-> "none", session |-> None, kind |-> "fresh",
            cse |-> None, link |-> None, seq |-> 0]
NoRec   == [phase |-> "none", link |-> None]
NoLink  == [state |-> "none", session |-> None, cse |-> None, seq |-> 0, closes |-> 0]
Pure    == [cse |-> None, seq |-> 0, backfilled |-> FALSE]

Init ==
    /\ stopped = FALSE /\ refreshing = FALSE
    /\ map = [s \in Sessions |-> None]
    /\ entry = [i \in Attaches |-> NoEntry]
    /\ op = [i \in Attaches |-> NoOp]
    /\ rec = [i \in Attaches |-> NoRec]
    /\ boot = [s \in Sessions |-> Pure]
    /\ link = [t \in Links |-> NoLink]
    /\ bridge = [s \in Sessions |-> None]
    /\ disk = [s \in Sessions |-> Pure]
    /\ gone = {} /\ flushed = {}
    /\ opened = 0 /\ links = 0 /\ deaths = 0 /\ boots = 1
    /\ got = [c \in Clouds |-> [ever |-> 0, now |-> 0]]
    /\ skipped = FALSE /\ repeated = {} /\ spilt = {}
    /\ raced = [s \in Sessions |-> FALSE]

(* A lifecycle operation of the session is awaiting.                       *)
Busy(s) ==
    \/ \E i \in Attaches : op[i].session = s /\ op[i].phase # "none"
    \/ \E i \in Attaches : entry[i].session = s /\ rec[i].phase # "none"
    \/ boot[s] # Pure

Overlap(s) == raced' = [raced EXCEPT ![s] = @ \/ Busy(s)]

-----------------------------------------------------------------------------
(* The pieces the operations share, on a value `e` of `entry` and of `map`.*)

Disarmed(e, i) == [e EXCEPT ![i].refresh = FALSE, ![i].backoff = FALSE]

(* armProactiveRefresh: of the entry the map holds now.                    *)
ArmRefresh(e, m, s) == IF m[s] = None THEN e ELSE [e EXCEPT ![m[s]].refresh = TRUE]

(* Mutant: the last failure of the ladder is not counted, so nothing is    *)
(* armed and nothing says that the ladder is exhausted.                    *)
ScheduleRetry_Short(e, s) ==
    IF map[s] = None \/ e[map[s]].attempt >= Ladder - 1 THEN e
    ELSE [e EXCEPT ![map[s]].attempt = @ + 1, ![map[s]].backoff = TRUE]

(* Mutant: a retry is armed and not counted.                               *)
ScheduleRetry_Uncounted(e, s) ==
    IF map[s] = None THEN e ELSE [e EXCEPT ![map[s]].backoff = TRUE]

(* scheduleBackoffRetry: of the entry the map holds now, up to the ladder. *)
ScheduleRetry(e, s) ==
    IF map[s] = None THEN e
    ELSE IF e[map[s]].attempt >= Ladder THEN [e EXCEPT ![map[s]].backoff = FALSE]
    ELSE [e EXCEPT ![map[s]].attempt = @ + 1, ![map[s]].backoff = TRUE]

Shut(t) == [link EXCEPT ![t].state = "closed"]

(* forget: the entry goes, its timers with it, runtime.bridge if it still  *)
(* is this entry's, the OAuth timer with the last entry.                   *)
Forget(s) ==
    /\ map' = [map EXCEPT ![s] = None]
    /\ entry' = Disarmed(entry, map[s])
    /\ bridge' = [bridge EXCEPT ![s] = IF @ = entry[map[s]].link THEN None ELSE @]
    /\ refreshing' = (refreshing /\ \E r \in Sessions \ {s} : map[r] # None)

(* detach: close, forget, clear the worker state.                          *)
Detach(s) ==
    /\ link' = Shut(entry[map[s]].link)
    /\ Forget(s)
    /\ disk' = [disk EXCEPT ![s] = Pure]

(* A failed attach stops the OAuth timer if the map is empty.              *)
StillRefreshing == refreshing /\ \E s \in Sessions : map[s] # None

(* A connect that failed: the handle is closed, unless it was the handle's *)
(* own close that ended the wait.                                          *)
Dropped(t) ==
    IF link[t].state = "refused" /\ link[t].closes < 2 THEN link ELSE Shut(t)

NewLink(s, c, seq) ==
    [state |-> "connecting", session |-> s, cse |-> c, seq |-> seq, closes |-> 0]

-----------------------------------------------------------------------------
(* attach and upgrade.                                                     *)

(* An attach begins: a fresh cloud session (create-bridged), the same with *)
(* the history flushed afterwards (upgrade), or an existing one.  An       *)
(* upgrade of a session that is bridged goes straight to the history.      *)
Begin(s, kind, from) ==
    /\ ~stopped
    /\ opened < MaxAttaches
    /\ opened' = opened + 1
    /\ op' = IF map[s] # None /\ kind # "upgrade" THEN op
             ELSE [op EXCEPT ![opened'] =
                [phase   |-> IF map[s] = None THEN "auth" ELSE "history",
                 session |-> s, kind |-> kind, cse |-> from.cse,
                 link    |-> IF map[s] = None THEN None ELSE entry[map[s]].link,
                 seq     |-> from.seq]]
    /\ refreshing' = (refreshing \/ map[s] = None)
    /\ UNCHANGED <<stopped, map, entry, rec, link, bridge, disk, cloudVars,
                   links, deaths, boots, inboundVars>>

(* sendPrompt of a session the SDK has no file of yet, or the bridgeSession*)
(* RPC at a turn boundary.                                                 *)
Attach(s, kind) ==
    /\ kind \in {"fresh", "upgrade"}
    /\ Begin(s, kind, Pure)
    /\ Overlap(s)
    /\ UNCHANGED boot

(* BridgeTransport.attach: token, cloud session, credentials, and a handle *)
(* that is connecting.                                                     *)
AttachOpens(i) ==
    /\ op[i].phase = "auth"
    /\ op[i].cse \notin gone
    /\ links < MaxLinks
    /\ links' = links + 1
    /\ LET c == IF op[i].cse = None THEN i ELSE op[i].cse IN
       /\ link' = [link EXCEPT ![links'] = NewLink(op[i].session, c, op[i].seq)]
       /\ op' = [op EXCEPT ![i].phase = "connect", ![i].cse = c, ![i].link = links']
    /\ UNCHANGED <<serviceVars, rec, boot, bridge, disk, cloudVars,
                   opened, deaths, boots, inboundVars, raced>>

(* Any of its steps fails.                                                 *)
AttachFails(i) ==
    /\ op[i].phase \in {"auth", "connect"}
    /\ op' = [op EXCEPT ![i] = NoOp]
    /\ link' = IF op[i].phase = "auth" THEN link ELSE Dropped(op[i].link)
    /\ refreshing' = StillRefreshing
    /\ UNCHANGED <<stopped, map, entry, rec, boot, bridge, disk, cloudVars,
                   countVars, inboundVars, raced>>

(* A fresh attach records its cloud session; a re-attach leaves the file.  *)
Persisted(i) ==
    IF op[i].kind = "existing" THEN disk
    ELSE [disk EXCEPT ![op[i].session] =
            [cse |-> op[i].cse, seq |-> 0, backfilled |-> FALSE]]

(* Connected: the entry, runtime.bridge, the worker state and the timer.   *)
(* Nothing is looked at again: not the map, not `stopped`.                 *)
AttachLands(i) ==
    /\ op[i].phase = "connect"
    /\ link[op[i].link].state = "connecting"
    /\ LET s == op[i].session
           m == [map EXCEPT ![s] = i]
           e == [entry EXCEPT ![i] = [NoEntry EXCEPT !.session = s, !.link = op[i].link]]
       IN /\ map' = m
          /\ entry' = ArmRefresh(e, m, s)
          /\ bridge' = [bridge EXCEPT ![s] = op[i].link]
    /\ link' = [link EXCEPT ![op[i].link].state = "up"]
    /\ disk' = Persisted(i)
    /\ op' = [op EXCEPT ![i] = IF @.kind = "upgrade" THEN [@ EXCEPT !.phase = "history"]
                               ELSE NoOp]
    /\ UNCHANGED <<stopped, refreshing, rec, boot, cloudVars, countVars,
                   inboundVars, raced>>

(* The upgrade reads the history and flushes it.  A transport closed by    *)
(* then takes nothing and says nothing.                                    *)
Backfill(i) ==
    /\ op[i].phase = "history"
    /\ link[op[i].link].state \in {"up", "closed"}
    /\ flushed' = IF link[op[i].link].state = "up"
                  THEN flushed \cup {link[op[i].link].cse} ELSE flushed
    /\ op' = [op EXCEPT ![i].phase = "mark"]
    /\ UNCHANGED <<serviceVars, rec, boot, link, bridge, disk, gone, countVars,
                   inboundVars, raced>>

(* markBridgeBackfilled, of whatever worker state the file holds.          *)
MarkBackfilled(i) ==
    /\ op[i].phase = "mark"
    /\ LET s == op[i].session IN
       disk' = IF disk[s].cse = None THEN disk ELSE [disk EXCEPT ![s].backfilled = TRUE]
    /\ op' = [op EXCEPT ![i] = NoOp]
    /\ UNCHANGED <<serviceVars, rec, boot, link, bridge, cloudVars, countVars,
                   inboundVars, raced>>

(* Mutant: a failed flush is caught and the mark written all the same.     *)
BackfillFails_Marks(i) ==
    /\ op[i].phase = "history"
    /\ op' = [op EXCEPT ![i].phase = "mark"]
    /\ UNCHANGED <<serviceVars, rec, boot, link, bridge, disk, cloudVars,
                   countVars, inboundVars, raced>>

(* The history cannot be read, or the flush fails: the mark is not written.*)
BackfillFails(i) ==
    /\ op[i].phase = "history"
    /\ op' = [op EXCEPT ![i] = NoOp]
    /\ UNCHANGED <<serviceVars, rec, boot, link, bridge, disk, cloudVars,
                   countVars, inboundVars, raced>>

-----------------------------------------------------------------------------
(* Reconnect.                                                              *)

(* reconnect(sessionId), called by a close or by a timer: nothing if the   *)
(* service is stopped or the session not bridged, joined to the one in     *)
(* flight if there is one; else both timers are cancelled and the probe of *)
(* the cloud session awaited.                                              *)
Recover(s, e) ==
    IF stopped \/ map[s] = None \/ rec[map[s]].phase # "none"
    THEN entry' = e /\ UNCHANGED rec
    ELSE /\ entry' = Disarmed(e, map[s])
         /\ rec' = [rec EXCEPT ![map[s]].phase = "probe"]

(* A timer fires: reconnect, of the session, whichever entry armed it.     *)
RefreshDue(i) ==
    /\ entry[i].refresh
    /\ Recover(entry[i].session, [entry EXCEPT ![i].refresh = FALSE])
    /\ UNCHANGED <<stopped, map, refreshing, op, boot, link, bridge, disk, cloudVars,
                   countVars, inboundVars, raced>>

RetryDue(i) ==
    /\ entry[i].backoff
    /\ Recover(entry[i].session, [entry EXCEPT ![i].backoff = FALSE])
    /\ UNCHANGED <<stopped, map, refreshing, op, boot, link, bridge, disk, cloudVars,
                   countVars, inboundVars, raced>>

Finished(i) == rec' = [rec EXCEPT ![i] = NoRec]

(* The token or the credentials cannot be had: try again later.            *)
ProbeFails(i) ==
    /\ rec[i].phase = "probe"
    /\ Finished(i)
    /\ entry' = ScheduleRetry(entry, entry[i].session)
    /\ UNCHANGED <<stopped, map, refreshing, op, boot, link, bridge, disk, cloudVars,
                   countVars, inboundVars, raced>>

(* No credentials: the cloud session is deleted, the login refused, or the *)
(* network fails in the way that looks the same.  The session, whatever    *)
(* entry it has by now, is detached.                                       *)
ProbeGone(i) ==
    /\ rec[i].phase = "probe"
    /\ Finished(i)
    /\ LET s == entry[i].session IN
       /\ IF map[s] = None
          THEN UNCHANGED <<map, entry, bridge, refreshing, link, disk>>
          ELSE Detach(s)
       /\ raced' = [raced EXCEPT ![s] = @ \/ map[s] # i]
    /\ UNCHANGED <<stopped, op, boot, cloudVars, countVars, inboundVars>>

(* Mutant: a new transport resumes from the checkpoint on disk.            *)
ResumeFrom_Disk(i) == disk[entry[i].session].seq

(* A new transport resumes from what the dead one has seen.                *)
ResumeFrom(i) == link[entry[i].link].seq

(* Credentials: a live transport is given them, a dead one is replaced.    *)
ProbeOk(i) ==
    /\ rec[i].phase = "probe"
    /\ LET t == entry[i].link IN
       /\ link[t].cse \notin gone
       /\ IF link[t].state = "up"
          THEN /\ rec' = [rec EXCEPT ![i].phase = "swap"]
               /\ UNCHANGED <<link, links>>
          ELSE /\ links < MaxLinks
               /\ links' = links + 1
               /\ rec' = [rec EXCEPT ![i] = [phase |-> "reattach", link |-> links']]
               /\ link' = [link EXCEPT ![links'] =
                     NewLink(entry[i].session, link[t].cse, ResumeFrom(i))]
    /\ UNCHANGED <<serviceVars, op, boot, bridge, disk, cloudVars,
                   opened, deaths, boots, inboundVars, raced>>

(* The live transport has rebuilt its internals, in place: one that died   *)
(* meanwhile is up again, and the old internals say nothing any more.      *)
Rebuilt(l) == IF l.state = "dead" THEN [l EXCEPT !.state = "up", !.closes = 0] ELSE l

SwapOk(i) ==
    /\ rec[i].phase = "swap"
    /\ Finished(i)
    /\ link' = [link EXCEPT ![entry[i].link] = Rebuilt(@)]
    /\ entry' = ArmRefresh([entry EXCEPT ![i].attempt = 0], map, entry[i].session)
    /\ UNCHANGED <<stopped, map, refreshing, op, boot, bridge, disk, cloudVars,
                   countVars, inboundVars, raced>>

SwapFails(i) ==
    /\ rec[i].phase = "swap"
    /\ Finished(i)
    /\ entry' = ScheduleRetry(entry, entry[i].session)
    /\ UNCHANGED <<stopped, map, refreshing, op, boot, link, bridge, disk, cloudVars,
                   countVars, inboundVars, raced>>

(* The new transport is connected: into the AttachedSession object that    *)
(* began the reconnect, and into runtime.bridge, unconditionally.          *)
ReattachOk(i) ==
    /\ rec[i].phase = "reattach"
    /\ link[rec[i].link].state = "connecting"
    /\ Finished(i)
    /\ LET s == entry[i].session
           t == rec[i].link
       IN /\ link' = [link EXCEPT ![t].state = "up"]
          /\ entry' = ArmRefresh([entry EXCEPT ![i].link = t, ![i].attempt = 0], map, s)
          /\ bridge' = [bridge EXCEPT ![s] = t]
    /\ UNCHANGED <<stopped, map, refreshing, op, boot, disk, cloudVars,
                   countVars, inboundVars, raced>>

(* The messages the transport t has given and the transport u has not.     *)
Past(t, u) == {link[t].cse} \X (link[u].seq + 1 .. link[t].seq)

(* What the handle gave while it was connecting has reached the daemon, and*)
(* the next one resumes from the old transport all the same.               *)
ReattachFails(i) ==
    /\ rec[i].phase = "reattach"
    /\ Finished(i)
    /\ link' = Dropped(rec[i].link)
    /\ entry' = ScheduleRetry(entry, entry[i].session)
    /\ spilt' = spilt \cup Past(rec[i].link, entry[i].link)
    /\ UNCHANGED <<stopped, map, refreshing, op, boot, bridge, disk, cloudVars,
                   countVars, got, skipped, repeated, raced>>

-----------------------------------------------------------------------------
(* Closes.  A transport that dies says so twice, once for its read stream  *)
(* and once for its worker client, each time later and with its own code.  *)

Dead(ls, t) == [ls EXCEPT ![t].state = "dead", ![t].closes = 2]

Die(t) ==
    /\ link[t].state = "up"
    /\ deaths < MaxDeaths
    /\ deaths' = deaths + 1
    /\ link' = Dead(link, t)
    /\ UNCHANGED <<serviceVars, waitVars, bridge, disk, cloudVars, opened, links, boots,
                   inboundVars, raced>>

(* A handle is closed for good before it has connected.  The wait throws   *)
(* once it was told, and leaves the handle with what it has still to say.  *)
Refuse(t) ==
    /\ link[t].state = "connecting"
    /\ link' = [link EXCEPT ![t].state = "refused", ![t].closes = 2]
    /\ UNCHANGED <<serviceVars, waitVars, bridge, disk, cloudVars, countVars,
                   inboundVars, raced>>

(* The cloud session is deleted, by its user or by unbridge.               *)
DeleteCloud(c) ==
    /\ c \notin gone
    /\ \/ \E t \in Links : link[t].cse = c
       \/ \E s \in Sessions : disk[s].cse = c
    /\ gone' = gone \cup {c}
    /\ link' = [t \in Links |-> IF link[t].cse = c /\ link[t].state = "up"
                                THEN Dead(link, t)[t] ELSE link[t]]
    /\ UNCHANGED <<serviceVars, waitVars, bridge, disk, flushed, countVars,
                   inboundVars, raced>>

(* Mutant: the close of a transport that was replaced is not ignored.      *)
IsStale_Never(s, t) == FALSE

(* The close of a transport that is not the entry's any more.  A handle    *)
(* that never connected has no transport to compare, and is not stale.     *)
IsStale(s, t) ==
    map[s] # None /\ link[t].state # "refused" /\ entry[map[s]].link # t

(* handleClose: a stale close is ignored, any other code than 1000 starts  *)
(* a recovery.                                                             *)
CloseFires(t) ==
    /\ link[t].closes > 0
    /\ link' = [link EXCEPT ![t].closes = @ - 1]
    /\ LET s == link[t].session IN
       IF IsStale(s, t) THEN UNCHANGED <<entry, rec>>
       ELSE Recover(s, entry)
    /\ UNCHANGED <<stopped, map, refreshing, op, boot, bridge, disk, cloudVars,
                   countVars, inboundVars, raced>>

(* handleClose with code 1000: forget, and keep the worker state.          *)
CleanClose(t) ==
    /\ link[t].closes > 0
    /\ link' = [link EXCEPT ![t].closes = @ - 1]
    /\ LET s == link[t].session IN
       IF map[s] = None \/ IsStale(s, t)
       THEN UNCHANGED <<map, entry, bridge, refreshing, raced>>
       ELSE /\ Forget(s)
            /\ raced' = [raced EXCEPT ![s] =
                  @ \/ Busy(s) \/ link[t].state = "refused"]
    /\ UNCHANGED <<stopped, waitVars, disk, cloudVars, countVars, inboundVars>>

-----------------------------------------------------------------------------
(* Unbridge, shutdown, restart.                                            *)

(* unbridge: detach at once; the deletion of the cloud session follows     *)
(* when it can (DeleteCloud).  Not bridged is a success.                   *)
Unbridged(s) ==
    IF map[s] = None
    THEN UNCHANGED <<map, entry, bridge, refreshing, link, disk>>
    ELSE Detach(s)

(* The unbridgeSession RPC, refused by a daemon that shuts down.           *)
Unbridge(s) ==
    /\ ~stopped
    /\ Unbridged(s)
    /\ Overlap(s)
    /\ UNCHANGED <<stopped, waitVars, cloudVars, countVars, inboundVars>>

(* shutdown: every transport closed, every timer cancelled, the map and    *)
(* the OAuth timer; the runtimes' bridge slots stay.                       *)
Shutdown ==
    /\ ~stopped
    /\ stopped' = TRUE
    /\ link' = [t \in Links |->
                  IF \E s \in Sessions : map[s] # None /\ entry[map[s]].link = t
                  THEN [link[t] EXCEPT !.state = "closed"] ELSE link[t]]
    /\ entry' = [i \in Attaches |->
                  [entry[i] EXCEPT !.refresh = FALSE, !.backoff = FALSE]]
    /\ map' = [s \in Sessions |-> None]
    /\ refreshing' = FALSE
    /\ raced' = [s \in Sessions |-> raced[s] \/ Busy(s)]
    /\ UNCHANGED <<waitVars, bridge, disk, cloudVars, countVars, inboundVars>>

(* The process is gone, by stop or by crash, and another one starts with   *)
(* what is on disk; the re-attach takes its snapshot of it.                *)
Restart ==
    /\ boots < MaxBoots
    /\ boots' = boots + 1
    /\ stopped' = FALSE /\ refreshing' = FALSE
    /\ map' = [s \in Sessions |-> None]
    /\ entry' = [i \in Attaches |-> NoEntry]
    /\ op' = [i \in Attaches |-> NoOp]
    /\ rec' = [i \in Attaches |-> NoRec]
    /\ boot' = disk
    /\ link' = [t \in Links |-> NoLink]
    /\ bridge' = [s \in Sessions |-> None]
    /\ got' = [c \in Clouds |-> [ever |-> got[c].ever, now |-> 0]]
    /\ repeated' = {} /\ spilt' = {}
    /\ UNCHANGED <<disk, cloudVars, opened, links, deaths, skipped, raced>>

(* The re-attach reaches a session: its cloud session is gone, and the     *)
(* worker state is cleared; or the session is attached to it; or neither   *)
(* can be told, and the next process will try again.                       *)
BootGone(s) ==
    /\ boot[s] # Pure
    /\ boot' = [boot EXCEPT ![s] = Pure]
    /\ disk' = [disk EXCEPT ![s] = Pure]
    /\ UNCHANGED <<serviceVars, op, rec, link, bridge, cloudVars, countVars,
                   inboundVars, raced>>

BootAttach(s) ==
    /\ boot[s] # Pure
    /\ boot[s].cse \notin gone
    /\ boot' = [boot EXCEPT ![s] = Pure]
    /\ Begin(s, "existing", boot[s])
    /\ UNCHANGED raced

BootFails(s) ==
    /\ boot[s] # Pure
    /\ boot' = [boot EXCEPT ![s] = Pure]
    /\ UNCHANGED <<serviceVars, op, rec, link, bridge, disk, cloudVars, countVars,
                   inboundVars, raced>>

-----------------------------------------------------------------------------
(* Messages from the cloud.                                                *)

Larger(a, b) == IF a > b THEN a ELSE b

(* The next message of the stream reaches onInboundPrompt: the handlers    *)
(* are there before the handle is connected.                               *)
Inbound(t) ==
    /\ link[t].state \in {"connecting", "up"}
    /\ link[t].seq < MaxInbound
    /\ LET n == link[t].seq + 1
           c == link[t].cse
       IN /\ link' = [link EXCEPT ![t].seq = n]
          /\ got' = [got EXCEPT ![c] = [ever |-> Larger(@.ever, n), now |-> Larger(@.now, n)]]
          /\ skipped' = (skipped \/ n > got[c].ever + 1)
          /\ repeated' = IF n <= got[c].now THEN repeated \cup {<<c, n>>} ELSE repeated
    /\ UNCHANGED <<serviceVars, waitVars, bridge, disk, cloudVars, countVars, spilt, raced>>

(* A turn ends: the mirror's high-water mark goes to disk, forward only,   *)
(* onto whatever worker state the file holds.                              *)
Checkpoint(s) ==
    /\ bridge[s] # None
    /\ link[bridge[s]].state # "closed"
    /\ disk[s].cse # None
    /\ link[bridge[s]].seq > disk[s].seq
    /\ disk' = [disk EXCEPT ![s].seq = link[bridge[s]].seq]
    /\ UNCHANGED <<serviceVars, waitVars, link, bridge, cloudVars, countVars,
                   inboundVars, raced>>

-----------------------------------------------------------------------------
Probed(i)     == ProbeFails(i) \/ ProbeGone(i) \/ ProbeOk(i)
Swapped(i)    == SwapOk(i) \/ SwapFails(i)
Reattached(i) == ReattachOk(i) \/ ReattachFails(i)

Next ==
    \/ \E s \in Sessions :
          \/ \E kind \in {"fresh", "upgrade"} : Attach(s, kind)
          \/ Unbridge(s)
          \/ BootGone(s) \/ BootAttach(s) \/ BootFails(s)
          \/ Checkpoint(s)
    \/ \E i \in Attaches :
          \/ AttachOpens(i) \/ AttachFails(i) \/ AttachLands(i)
          \/ Backfill(i) \/ MarkBackfilled(i) \/ BackfillFails(i)
          \/ RefreshDue(i) \/ RetryDue(i)
          \/ Probed(i) \/ Swapped(i) \/ Reattached(i)
    \/ \E t \in Links :
          Die(t) \/ Refuse(t) \/ CloseFires(t) \/ CleanClose(t) \/ Inbound(t)
    \/ \E c \in Clouds : DeleteCloud(c)
    \/ Shutdown \/ Restart

Spec == Init /\ [][Next]_vars

(* Timers fire, awaited calls settle, and a dead transport reports itself. *)
Fairness ==
    /\ \A i \in Attaches :
         WF_vars(RetryDue(i)) /\ WF_vars(Probed(i)) /\ WF_vars(Swapped(i)) /\ WF_vars(Reattached(i))
    /\ \A t \in Links : WF_vars(CloseFires(t))

FairSpec == Spec /\ Fairness

-----------------------------------------------------------------------------
(* Properties.                                                             *)

Phases == {"none", "auth", "connect", "history", "mark"}

Worker    == [cse : Clouds \cup {None}, seq : 0 .. MaxInbound, backfilled : BOOLEAN]
Entry     == [session : Sessions \cup {None}, link : Links \cup {None},
              attempt : 0 .. Ladder, refresh : BOOLEAN, backoff : BOOLEAN]
Operation == [phase : Phases, session : Sessions \cup {None},
              kind : {"fresh", "upgrade", "existing"}, cse : Clouds \cup {None},
              link : Links \cup {None}, seq : 0 .. MaxInbound]
Recovery  == [phase : {"none", "probe", "swap", "reattach"}, link : Links \cup {None}]
Transport == [state : {"none", "connecting", "refused", "up", "dead", "closed"},
              session : Sessions \cup {None}, cse : Clouds \cup {None},
              seq : 0 .. MaxInbound, closes : 0 .. 2]
Messages  == Clouds \X (1 .. MaxInbound)

(* Every variable holds a value of its kind; the ladder is never overrun.  *)
TypeOK ==
    /\ stopped \in BOOLEAN /\ refreshing \in BOOLEAN
    /\ map \in [Sessions -> Attaches \cup {None}]
    /\ entry \in [Attaches -> Entry] /\ op \in [Attaches -> Operation]
    /\ rec \in [Attaches -> Recovery] /\ boot \in [Sessions -> Worker]
    /\ link \in [Links -> Transport]
    /\ bridge \in [Sessions -> Links \cup {None}]
    /\ disk \in [Sessions -> Worker]
    /\ gone \subseteq Clouds /\ flushed \subseteq Clouds
    /\ opened \in 0 .. MaxAttaches /\ links \in 0 .. MaxLinks
    /\ deaths \in 0 .. MaxDeaths /\ boots \in 1 .. MaxBoots
    /\ got \in [Clouds -> [ever : 0 .. MaxInbound, now : 0 .. MaxInbound]]
    /\ skipped \in BOOLEAN
    /\ repeated \subseteq Messages /\ spilt \subseteq Messages
    /\ raced \in [Sessions -> BOOLEAN]

(* The query loop mirrors into the transport of the session's entry and    *)
(* into no other, no transport is open and no timer armed that no entry    *)
(* owns, and the worker state names the cloud session of the mirror, so    *)
(* that a crash loses none - unless two lifecycle operations of the        *)
(* session overlapped (bridge-service.ts attach, reconnectInternal, forget,*)
(* detach).                                                                *)
MirrorIsTracked ==
    \A s \in Sessions : ~raced[s] /\ ~stopped =>
       /\ bridge[s] = IF map[s] = None THEN None ELSE entry[map[s]].link
       /\ \A t \in Links : (link[t].session = s /\ link[t].state = "up") => bridge[s] = t
       /\ \A i \in Attaches : entry[i].session = s /\ (entry[i].refresh \/ entry[i].backoff) => map[s] = i
       /\ map[s] # None => disk[s].cse = link[entry[map[s]].link].cse

(* A bridged session whose transport is dead is on its way back: the close *)
(* is still to be reported, a reconnect is in flight, a retry is armed, or *)
(* the ladder is exhausted.  No close is lost to the coalescing            *)
(* (bridge-service.ts handleClose, reconnect, scheduleBackoffRetry).       *)
DeadIsBeingRecovered ==
    \A s \in Sessions :
       ~stopped /\ map[s] # None /\ link[entry[map[s]].link].state = "dead" =>
          \/ link[entry[map[s]].link].closes > 0
          \/ rec[map[s]].phase # "none"
          \/ entry[map[s]].backoff
          \/ entry[map[s]].attempt = Ladder

(* Across dead transports, retries and restarts no message of the cloud is *)
(* resumed past before it was given to the session, and none is given      *)
(* twice to one process but those a transport gave whose connect then      *)
(* failed (bridge-service.ts reconnectInternal, lastSeq;                   *)
(* bridge-transport.ts attach, checkpoint).                                *)
InboundOnce == (\A s \in Sessions : ~raced[s]) => ~skipped /\ repeated \subseteq spilt

(* A worker state is marked backfilled only if its cloud session got the   *)
(* history (bridge-service.ts upgrade).                                    *)
BackfilledIsTrue ==
    \A s \in Sessions : ~raced[s] /\ disk[s].backfilled => disk[s].cse \in flushed

(* A dead transport is replaced, the session let go, or the ladder used up *)
(* (bridge-service.ts reconnect, scheduleBackoffRetry).                    *)
Recovers ==
    \A s \in Sessions :
       (map[s] # None /\ link[entry[map[s]].link].state = "dead")
         ~> \/ map[s] = None \/ stopped
            \/ link[entry[map[s]].link].state = "up"
            \/ entry[map[s]].attempt = Ladder

=============================================================================
