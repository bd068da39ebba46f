------------------------------ MODULE GitWatch ------------------------------
(* The git status of one working directory, from the daemon's watcher      *)
(* (git-watch.ts) through the router's git commands to the status bar of   *)
(* each device (use-git-status.ts over Transport's callbacks).             *)
(* The repository's contents are two version counters: head is what        *)
(* fs.watch sees (.git/HEAD, refs/heads), tree what it does not (the       *)
(* working tree). A fetch reads head first and tree later, as fetchStatus  *)
(* runs `git status` before the diff and the untracked files.              *)
(* The parts of the specification are called Watch..., so that one module  *)
(* can extend this one and other components.                               *)
EXTENDS Naturals, Sequences, FiniteSets

CONSTANTS
    Devices,     \* each holds one connection and at most one status bar
    None,        \* no status
    MaxEdits,    \* commits, checkouts, edits and git init, together
    MaxMounts,   \* per device, times its hook runs its effect
    MaxDrops,    \* connections lost, over all devices
    MaxQueue     \* frames on a wire when a self-heal interval elapses

ASSUME GitWatchAssumption ==
    /\ MaxEdits \in Nat /\ MaxMounts \in [Devices -> Nat]
    /\ MaxDrops \in Nat /\ MaxQueue \in Nat \ {0}

VARIABLES
    disk,        \* the repository: repo, head, tree
    handles,     \* the fs.watch handles on HEAD and refs/heads are open
    healing,     \* the self-heal interval is armed
    debounce,    \* the debounce timer is armed
    cached,      \* cachedStatus, or None
    young,       \* cachedStatus was within its TTL when last looked at
    inFlight,    \* the fetch refresh() calls join, or 0
    fetches,     \* the fetches under way
    listeners,   \* the watcher's listeners, by connection
    open,        \* connections whose disconnect the daemon has not seen
    epoch,       \* the number of a device's connection
    online,      \* a device's connection is up
    up, down,    \* its wire, as two queues
    runs,        \* times a device's effect has run; the number of the last
    mount,       \* the effect that is mounted, or 0
    owner,       \* gitStatusCallbacks.get(cwd): the effect it belongs to, or 0
    acked,       \* the effect whose subscribe was answered while it was active
    query,       \* state of the getGitStatus query
    data,        \* the query-cache entry the bar shows, or None
    recent       \* that entry was within staleTime when last looked at

watcher == <<handles, healing, debounce, cached, young, inFlight, fetches, listeners>>
client == <<runs, mount, owner, acked, query, data, recent>>
wires == <<open, epoch, online, up, down>>
watchvars == <<disk, watcher, client, wires>>

-----------------------------------------------------------------------------
(* Values.                                                                 *)

Status == [repo : BOOLEAN, head : 0..MaxEdits, tree : 0..MaxEdits]

\* null is not a status.
ASSUME NoStatusAssumption == None \notin Status

Truth == disk
Conn(d) == <<d, epoch[d]>>
Idle == [phase |-> "idle", repo |-> FALSE, head |-> 0, push |-> FALSE, asks |-> {}]
FetchIds == {1, 2}

\* Frames to `conns`, in turn on each wire that is still the device's.
SendTo(queues, conns, frame) ==
    [d \in Devices |-> IF online[d] /\ Conn(d) \in conns THEN Append(queues[d], frame) ELSE queues[d]]

Reply(status) == [type |-> "getGitStatus.response", status |-> status, effect |-> 0]
Push(status) == [type |-> "gitStatus", status |-> status, effect |-> 0]
Ack(n) == [type |-> "subscribeGitStatus.response", status |-> None, effect |-> n]
Request(type, n) == [type |-> type, effect |-> n]

WatchInit ==
    /\ disk \in [repo : BOOLEAN, head : {0}, tree : {0}]
    /\ handles = FALSE /\ healing = FALSE /\ debounce = FALSE
    /\ cached = None /\ young = FALSE /\ inFlight = 0
    /\ fetches = [i \in FetchIds |-> Idle]
    /\ listeners = {}
    /\ open = {<<d, 1>> : d \in Devices}
    /\ epoch = [d \in Devices |-> 1]
    /\ online = [d \in Devices |-> TRUE]
    /\ up = [d \in Devices |-> <<>>]
    /\ down = [d \in Devices |-> <<>>]
    /\ runs = [d \in Devices |-> 0]
    /\ mount = [d \in Devices |-> 0]
    /\ owner = [d \in Devices |-> 0]
    /\ acked = [d \in Devices |-> 0]
    /\ query = [d \in Devices |-> "idle"]
    /\ data = [d \in Devices |-> None]
    /\ recent = [d \in Devices |-> FALSE]

-----------------------------------------------------------------------------
(* The repository.                                                         *)

Edits == disk.head + disk.tree

EditTree ==
    /\ disk.repo /\ Edits < MaxEdits
    /\ disk' = [disk EXCEPT !.tree = @ + 1]
    /\ UNCHANGED <<watcher, client, wires>>

\* A checkout, a commit or a reset: fs.watch, when it is open, calls
\* onWatchEvent, which arms the debounce anew.
MoveHead ==
    /\ disk.repo /\ Edits < MaxEdits
    /\ disk' = [disk EXCEPT !.head = @ + 1]
    /\ debounce' = (debounce \/ handles)
    /\ UNCHANGED <<handles, healing, cached, young, inFlight, fetches, listeners, client, wires>>

GitInit ==
    /\ ~disk.repo
    /\ disk' = [disk EXCEPT !.repo = TRUE]
    /\ UNCHANGED <<watcher, client, wires>>

-----------------------------------------------------------------------------
(* GitWatcher.                                                             *)

\* Mutant: an invalidated refresh abandons the fetch in flight and starts another.
Join_Restart(push, asks) ==
    LET idle == {j \in FetchIds : fetches[j] = Idle}
        i == IF idle = {} THEN inFlight ELSE CHOOSE j \in idle : TRUE
    IN  /\ inFlight' = i
        /\ fetches' = [fetches EXCEPT
              ![i].phase = IF idle = {} THEN @ ELSE "queued",
              ![i].push = @ \/ push,
              ![i].asks = @ \cup asks]

\* A refresh() that the cache does not answer: join the fetch in flight or
\* start one; `push` when its result is to be notified, `asks` the
\* connections whose getGitStatus awaits it.
Join(push, asks) ==
    LET i == IF inFlight # 0 THEN inFlight ELSE CHOOSE j \in FetchIds : fetches[j] = Idle
    IN  /\ inFlight' = i
        /\ fetches' = [fetches EXCEPT
              ![i].phase = IF inFlight # 0 THEN @ ELSE "queued",
              ![i].push = @ \/ push,
              ![i].asks = @ \cup asks]

\* p-limit lets the fetch run: checkIsRepo and `git status`.
FetchBegins(i) ==
    /\ fetches[i].phase = "queued"
    /\ fetches' = [fetches EXCEPT ![i].phase = "reading", ![i].repo = disk.repo, ![i].head = disk.head]
    /\ UNCHANGED <<disk, handles, healing, debounce, cached, young, inFlight, listeners, client, wires>>

\* The diff and the untracked files, then every continuation of the fetch's
\* promise: the cache, inFlight, the awaiting handlers, the listeners of now.
FetchSettles(i) ==
    LET f == fetches[i]
        status == [repo |-> f.repo, head |-> f.head, tree |-> IF f.repo THEN disk.tree ELSE 0]
    IN  /\ f.phase = "reading"
        /\ cached' = status /\ young' = TRUE
        /\ inFlight' = IF inFlight = i THEN 0 ELSE inFlight
        /\ fetches' = [fetches EXCEPT ![i] = Idle]
        /\ down' = SendTo(SendTo(down, f.asks, Reply(status)),
                          IF f.push THEN listeners ELSE {}, Push(status))
        /\ UNCHANGED <<disk, handles, healing, debounce, listeners, client, open, epoch, online, up>>

DebounceFires ==
    /\ debounce
    /\ debounce' = FALSE
    /\ cached' = None /\ young' = FALSE
    /\ Join(TRUE, {})
    /\ UNCHANGED <<disk, handles, healing, listeners, client, wires>>

\* Mutant: the interval honours the cache.
SelfHeal_KeepsCache ==
    /\ healing
    /\ \A d \in Devices : Len(down[d]) < MaxQueue
    /\ IF cached # None /\ young
       THEN down' = SendTo(down, listeners, Push(cached)) /\ UNCHANGED <<inFlight, fetches>>
       ELSE Join(TRUE, {}) /\ UNCHANGED down
    /\ UNCHANGED <<disk, handles, healing, debounce, cached, young, listeners, client, open, epoch, online, up>>

\* SELF_HEAL_INTERVAL_MS (60 s) elapses; the wires are faster than that.
SelfHeal ==
    /\ healing
    /\ \A d \in Devices : Len(down[d]) < MaxQueue
    /\ cached' = None /\ young' = FALSE
    /\ Join(TRUE, {})
    /\ UNCHANGED <<disk, handles, healing, debounce, listeners, client, wires>>

\* Mutant: the interval outlives the last listener.
StopWatching_KeepsInterval(left) ==
    /\ listeners' = left
    /\ handles' = (handles /\ left # {})
    /\ healing' = healing
    /\ debounce' = (debounce /\ left # {})

\* What the loss of a listener leaves of the handles and the timers.
StopWatching(left) ==
    /\ listeners' = left
    /\ handles' = (handles /\ left # {})
    /\ healing' = (healing /\ left # {})
    /\ debounce' = (debounce /\ left # {})

-----------------------------------------------------------------------------
(* The router.                                                             *)

Take(d, type) == online[d] /\ up[d] # <<>> /\ Head(up[d]).type = type

\* STATUS_CACHE_TTL_MS (15 s) may have elapsed since the cache was last used.
HandleGetStatus(d) ==
    /\ Take(d, "getGitStatus")
    /\ up' = [up EXCEPT ![d] = Tail(@)]
    /\ \/ /\ cached # None /\ young
          /\ down' = SendTo(down, {Conn(d)}, Reply(cached))
          /\ UNCHANGED <<young, inFlight, fetches>>
       \/ /\ young' = FALSE
          /\ Join(FALSE, {Conn(d)})
          /\ UNCHANGED down
    /\ UNCHANGED <<disk, handles, healing, debounce, cached, listeners, client, open, epoch, online>>

\* The previous listener of this connection goes first: if it was the last,
\* the watcher stops and starts again.
HandleSubscribe(d) ==
    LET others == listeners \ {Conn(d)}
    IN  /\ Take(d, "subscribeGitStatus")
        /\ up' = [up EXCEPT ![d] = Tail(@)]
        /\ listeners' = others \cup {Conn(d)}
        /\ IF others = {}
           THEN /\ handles' = disk.repo /\ healing' = TRUE
                /\ debounce' = FALSE
           ELSE UNCHANGED <<handles, healing, debounce>>
        /\ down' = SendTo(down, {Conn(d)}, Ack(Head(up[d]).effect))
        /\ UNCHANGED <<disk, cached, young, inFlight, fetches, client, open, epoch, online>>

HandleUnsubscribe(d) ==
    /\ Take(d, "unsubscribeGitStatus")
    /\ up' = [up EXCEPT ![d] = Tail(@)]
    /\ StopWatching(listeners \ {Conn(d)})
    /\ UNCHANGED <<disk, cached, young, inFlight, fetches, client, open, epoch, online, down>>

\* The daemon sees the end of a connection that the device has lost before:
\* its onDisconnect callbacks run.
NoticeClose(c) ==
    /\ c \in open /\ ~(online[c[1]] /\ c = Conn(c[1]))
    /\ open' = open \ {c}
    /\ StopWatching(listeners \ {c})
    /\ UNCHANGED <<disk, cached, young, inFlight, fetches, client, epoch, online, up, down>>

-----------------------------------------------------------------------------
(* The status bar of a device.                                             *)

\* The hook becomes enabled: useQuery fetches when its entry is missing or
\* older than staleTime (30 s, which may have elapsed), then the effect
\* installs its callback and subscribes. `sent` is what the wire holds before.
Enable(d, sent) ==
    \E aged \in BOOLEAN :
    LET n == runs[d] + 1
        fetch == query[d] = "idle" /\ (data[d] = None \/ ~recent[d] \/ aged)
        asks == IF fetch THEN <<Request("getGitStatus", 0)>> ELSE <<>>
    IN  /\ runs[d] < MaxMounts[d]
        /\ recent' = [recent EXCEPT ![d] = @ /\ ~aged]
        /\ runs' = [runs EXCEPT ![d] = n]
        /\ mount' = [mount EXCEPT ![d] = n]
        /\ owner' = [owner EXCEPT ![d] = n]
        /\ acked' = [acked EXCEPT ![d] = 0]
        /\ query' = [query EXCEPT ![d] = IF fetch THEN "asked" ELSE IF @ = "waiting" THEN "asked again" ELSE @]
        /\ up' = [up EXCEPT ![d] = sent \o asks \o <<Request("subscribeGitStatus", n)>>]

Mount(d) ==
    /\ mount[d] = 0 /\ online[d]
    /\ Enable(d, up[d])
    /\ UNCHANGED <<disk, watcher, open, epoch, online, down, data>>

\* unsubscribeGitStatusOwned: only the effect the callback belongs to lets go.
Owns(d, n) == owner[d] = n

Release(d, n) ==
    IF Owns(d, n)
    THEN /\ owner' = [owner EXCEPT ![d] = 0]
         /\ up' = [up EXCEPT ![d] = Append(@, Request("unsubscribeGitStatus", n))]
    ELSE UNCHANGED <<owner, up>>

\* The effect's cleanup: its thunk exists only once the subscribe was answered.
Unmount(d) ==
    /\ mount[d] # 0 /\ online[d]
    /\ mount' = [mount EXCEPT ![d] = 0]
    /\ acked' = [acked EXCEPT ![d] = 0]
    /\ IF acked[d] # 0 THEN Release(d, acked[d]) ELSE UNCHANGED <<owner, up>>
    /\ UNCHANGED <<disk, watcher, open, epoch, online, down, runs, query, data, recent>>

OnResponse(d, frame) ==
    /\ frame.type = "getGitStatus.response"
    /\ data' = [data EXCEPT ![d] = frame.status]
    /\ recent' = [recent EXCEPT ![d] = TRUE]
    /\ query' = [query EXCEPT ![d] = "idle"]
    /\ UNCHANGED <<owner, acked, up>>

\* The callback of an effect that was cleaned up ignores what it is given.
OnPush(d, frame) ==
    /\ frame.type = "gitStatus"
    /\ IF owner[d] # 0 /\ owner[d] = mount[d]
       THEN /\ data' = [data EXCEPT ![d] = frame.status]
            /\ recent' = [recent EXCEPT ![d] = TRUE]
       ELSE UNCHANGED <<data, recent>>
    /\ UNCHANGED <<owner, acked, query, up>>

OnAck(d, frame) ==
    /\ frame.type = "subscribeGitStatus.response"
    /\ IF frame.effect = mount[d]
       THEN acked' = [acked EXCEPT ![d] = frame.effect] /\ UNCHANGED <<owner, up>>
       ELSE Release(d, frame.effect) /\ UNCHANGED acked
    /\ UNCHANGED <<data, recent, query>>

Deliver(d) ==
    /\ online[d] /\ down[d] # <<>>
    /\ down' = [down EXCEPT ![d] = Tail(@)]
    /\ LET frame == Head(down[d]) IN OnResponse(d, frame) \/ OnPush(d, frame) \/ OnAck(d, frame)
    /\ UNCHANGED <<disk, watcher, open, epoch, online, runs, mount>>

\* The transport dies: callbacks cleared, pending requests rejected; the
\* query keeps one retry, a second to come.
Drops == LET Lost(d) == (IF online[d] THEN 0 ELSE 1) + epoch[d] - 1
             total[S \in SUBSET Devices] ==
                 IF S = {} THEN 0 ELSE LET d == CHOOSE d \in S : TRUE IN Lost(d) + total[S \ {d}]
         IN  total[Devices]

Drop(d) ==
    /\ online[d] /\ Drops < MaxDrops
    /\ online' = [online EXCEPT ![d] = FALSE]
    /\ up' = [up EXCEPT ![d] = <<>>]
    /\ down' = [down EXCEPT ![d] = <<>>]
    /\ owner' = [owner EXCEPT ![d] = 0]
    /\ acked' = [acked EXCEPT ![d] = 0]
    /\ query' = [query EXCEPT ![d] = IF @ = "asked" THEN "retrying" ELSE "idle"]
    /\ UNCHANGED <<disk, watcher, open, epoch, runs, mount, data, recent>>

\* What waited for a transport is sent as soon as there is one.
Held(d) == IF query[d] = "waiting" THEN <<Request("getGitStatus", 0)>> ELSE <<>>

\* connectionStatus is online again: a mounted hook is enabled anew.
Reconnect(d) ==
    /\ ~online[d]
    /\ online' = [online EXCEPT ![d] = TRUE]
    /\ epoch' = [epoch EXCEPT ![d] = @ + 1]
    /\ open' = open \cup {<<d, epoch[d] + 1>>}
    /\ IF mount[d] # 0
       THEN Enable(d, Held(d))
       ELSE /\ query' = [query EXCEPT ![d] = IF @ = "waiting" THEN "asked again" ELSE @]
            /\ up' = [up EXCEPT ![d] = Held(d)]
            /\ UNCHANGED <<runs, mount, owner, acked, recent>>
    /\ UNCHANGED <<disk, watcher, down, data>>

\* The retry of a rejected query. Without a transport it waits for the next
\* one; on the dead transport, which stays attached for a while, it hangs.
RetryQuery(d) ==
    /\ query[d] = "retrying"
    /\ \E next \in IF online[d] THEN {"asked again"} ELSE {"waiting", "hung"} :
          query' = [query EXCEPT ![d] = next]
    /\ up' = IF online[d] THEN [up EXCEPT ![d] = Append(@, Request("getGitStatus", 0))] ELSE up
    /\ UNCHANGED <<disk, watcher, open, epoch, online, down, runs, mount, owner, acked, data, recent>>

-----------------------------------------------------------------------------
FetchSteps == \E i \in FetchIds : FetchBegins(i) \/ FetchSettles(i)
Handle(d) == HandleGetStatus(d) \/ HandleSubscribe(d) \/ HandleUnsubscribe(d)
Closing == \E c \in open : NoticeClose(c)
System == FetchSteps \/ DebounceFires \/ SelfHeal \/ Closing
             \/ \E d \in Devices : Handle(d) \/ Deliver(d) \/ RetryQuery(d)
Environment == EditTree \/ MoveHead \/ GitInit
                  \/ \E d \in Devices : Mount(d) \/ Unmount(d) \/ Drop(d) \/ Reconnect(d)
WatchNext == System \/ Environment

WatchSpec == WatchInit /\ [][WatchNext]_watchvars

\* The daemon's event loop runs what is ready and its intervals elapse, git
\* ends, and a connection delivers while it lasts. Nothing is assumed of the
\* user, the network's failures, or the ageing of caches.
WatchFairness ==
    /\ WF_watchvars(FetchSteps) /\ WF_watchvars(DebounceFires) /\ WF_watchvars(SelfHeal)
    /\ \A d \in Devices : WF_watchvars(Handle(d)) /\ WF_watchvars(Deliver(d))

WatchLiveSpec == WatchSpec /\ WatchFairness

-----------------------------------------------------------------------------
(* Properties.                                                             *)

WatchTypeOK ==
    /\ disk \in Status
    /\ {handles, healing, debounce, young} \subseteq BOOLEAN
    /\ cached \in Status \cup {None}
    /\ inFlight \in FetchIds \cup {0}
    /\ \A i \in FetchIds : /\ fetches[i].phase \in {"idle", "queued", "reading"}
                           /\ (fetches[i].phase = "idle") <=> (inFlight # i)
    /\ listeners \subseteq open
    /\ epoch \in [Devices -> 1..(MaxDrops + 1)]
    /\ \A d \in Devices : /\ {mount[d], owner[d], acked[d]} \subseteq 0..runs[d]
                          /\ query[d] \in {"idle", "asked", "retrying", "asked again", "waiting", "hung"}
                          /\ data[d] \in Status \cup {None}

\* The daemon has its listener, or will have it when it has handled what is
\* on the wire.
Registered(d) ==
    LET last == {i \in DOMAIN up[d] : up[d][i].type # "getGitStatus"}
    IN  IF last = {} THEN Conn(d) \in listeners
        ELSE up[d][CHOOSE i \in last : \A j \in last : j <= i].type = "subscribeGitStatus"

\* The handles, the debounce and the self-heal interval exist for listeners
\* alone, and every listener is of a connection the daemon takes for open:
\* no order of navigation, re-subscription and disconnects leaks a watcher.
\* Nor does one stop what somebody needs: once its subscribe was answered, a
\* mounted bar has the callback slot and its listener, whatever late answer
\* or cleanup of an earlier mount comes (git-watch.ts:140-150,
\* daemon-client.ts unsubscribeOwned).
WatchesForSomeone ==
    /\ healing <=> listeners # {}
    /\ (handles \/ debounce) => healing
    /\ listeners \subseteq open
    /\ \A d \in Devices : online[d] /\ acked[d] # 0 => owner[d] = acked[d] /\ Registered(d)

\* What a bar shows never goes back: snapshots and pushes reach it by two
\* ways, and one fetch at a time keeps them in order (git-watch.ts:27-29).
NotOlder(s, t) == s = None \/ (t # None /\ s.head <= t.head /\ s.tree <= t.tree /\ (s.repo => t.repo))
NeverGoesBack == [][\A d \in Devices : NotOlder(data[d], data'[d])]_watchvars

\* A bar that stays mounted on a connection that stays up comes to show the
\* repository as it is, whatever fs.watch missed and whatever a fetch in
\* flight made of a change: the self-heal interval sees to it
\* (git-watch.ts:30-33).
Settled(d) == online[d] /\ mount[d] # 0
CatchesUp == \A d \in Devices : []<>(~Settled(d) \/ data[d] = Truth)

=============================================================================
