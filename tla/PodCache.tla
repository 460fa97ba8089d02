------------------------------ MODULE PodCache ------------------------------
(***************************************************************************)
(* The in-process cache of pod states of one Kubernetes request            *)
(* (PodStateCache), the watcher that fills it from the apiserver's event   *)
(* stream, the periodic resync beside it, and the status reads that are    *)
(* served from it (K8sWatcher, K8sHandlerBase._read_from_cache).           *)
(*                                                                         *)
(* The apiserver is external: a log of changes whose index is the          *)
(* resourceVersion.  A pod state is the index of the change that made it,  *)
(* so two states of one pod are told apart and ordered; a deleted=True     *)
(* entry is the change that deleted the pod.  A session and a relist run   *)
(* in worker threads; each lock section of the cache is a step.            *)
(* Time stamps are kept as what they are compared with: whether an entry   *)
(* was written since a LIST began, and whether it has outlived the stale   *)
(* timeout.  The cluster is empty when the watcher starts, so the startup  *)
(* LIST before it, if it comes through, caches nothing.                    *)
(***************************************************************************)
EXTENDS Integers, Sequences, FiniteSets

CONSTANTS
  Pods,         \* the pods of the request
  ResyncModes,  \* whether periodic_resync_interval_seconds may be set
  MaxChanges,   \* bound of changes in the cluster
  MaxErrors,    \* bound of broken sessions and failed LISTs
  None          \* no resource version

ASSUME PodsFinite == IsFiniteSet(Pods)
ASSUME ModesAssumption == ResyncModes \subseteq BOOLEAN
ASSUME BoundsAssumption == MaxChanges \in Nat /\ MaxErrors \in Nat
ASSUME NoneAssumption == None \notin Nat

VARIABLES
  log,      \* the changes in the cluster
  floor,    \* watching from an older version than this gets 410 Gone
  cache,    \* the cached state of each pod, 0 if there is none
  aged,     \* pods whose entry has outlived stale_cache_timeout_seconds
  session,  \* the watch session
  relist,   \* the relist after a 410 and the one of the periodic resync
  resync,   \* whether the periodic resync runs
  healthy,  \* whether the startup LIST came through (is_healthy)
  answer,   \* the status read: served from the cache, and what it dropped
  errors    \* errors so far

vars == <<log, floor, cache, aged, session, relist, resync, healthy, answer, errors>>

Relisters == {"recover", "resync"}

\* The state of a pod after the first n changes of a log: its last change among
\* them, unless that was its deletion.
IsState(l, n, p, i) == l[i].pod = p /\ l[i].alive /\ \A j \in i + 1 .. n : l[j].pod # p
StateIn(l, n, p) ==
  IF \E i \in 1 .. n : IsState(l, n, p, i) THEN CHOOSE i \in 1 .. n : IsState(l, n, p, i) ELSE 0
StateAt(n, p) == StateIn(log, n, p)

Version == Len(log)
Running(n) == {p \in Pods : StateAt(n, p) # 0}
Cached == {p \in Pods : cache[p] # 0}

\* from: the version the session was opened with; at: how far the apiserver has
\* got; last: the version of the last object seen, kept by the client library;
\* adds: initial pods still to be announced, with their states.
NoAdds == [p \in Pods |-> 0]
Connecting(from) == [pc |-> "connect", from |-> from, at |-> 0, last |-> from, adds |-> NoAdds]
TooOld(from) == IF from = None THEN FALSE ELSE from < floor

\* snap: the version of the LIST; todo: pods still to be visited; next: the pod
\* whose entry was found not to be newer; fresh: pods written since the LIST
\* began (while evicting: since the victims were picked).
NoRelist == [pc |-> "idle", snap |-> 0, pre |-> {}, fresh |-> {}, todo |-> {}, next |-> {}]

Init ==
  /\ log = <<>>
  /\ floor = 0
  /\ cache = [p \in Pods |-> 0]
  /\ aged = {}
  /\ session = Connecting(None)
  /\ relist = [k \in Relisters |-> NoRelist]
  /\ resync \in ResyncModes
  /\ healthy \in BOOLEAN
  /\ answer = [pc |-> "idle", served |-> FALSE, dropped |-> {}]
  /\ errors = 0

cluster == <<log, floor>>

-----------------------------------------------------------------------------
(***************************************************************************)
(* The cache.  Every write stamps the entry, which a relist under way sees *)
(* as newer than its LIST.                                                 *)
(***************************************************************************)
Stamp(k, p) == [relist[k] EXCEPT !.fresh = IF relist[k].pc = "idle" THEN {} ELSE @ \cup {p}]

Upsert(p, state) ==
  /\ cache' = [cache EXCEPT ![p] = state]
  /\ aged' = aged \ {p}

\* Mutant: the deleted pod's time stamp is left behind.
DeleteKeepsStamp(p) ==
  /\ cache' = [cache EXCEPT ![p] = 0]
  /\ UNCHANGED aged

Delete(p) ==
  /\ cache' = [cache EXCEPT ![p] = 0]
  /\ aged' = aged \ {p}

-----------------------------------------------------------------------------
(***************************************************************************)
(* The apiserver.                                                          *)
(***************************************************************************)
Change(p, alive) ==
  /\ Version < MaxChanges
  /\ alive \/ p \in Running(Version)
  /\ log' = Append(log, [pod |-> p, alive |-> alive])
  /\ UNCHANGED <<floor, cache, aged, session, relist, resync, healthy, answer, errors>>

Compact ==
  /\ floor < Version
  /\ floor' = Version
  /\ UNCHANGED <<log, cache, aged, session, relist, resync, healthy, answer, errors>>

-----------------------------------------------------------------------------
(***************************************************************************)
(* _run and _run_one_session.  A session without a version is first told   *)
(* of every pod there is, in any order.                                    *)
(***************************************************************************)
SessionOpens ==
  /\ session.pc = "connect"
  /\ ~TooOld(session.from)
  /\ session' = [session EXCEPT !.pc = "stream",
                   !.at = IF session.from = None THEN Version ELSE session.from,
                   !.adds = IF session.from = None
                            THEN [p \in Pods |-> StateAt(Version, p)] ELSE NoAdds]
  /\ UNCHANGED <<cluster, cache, aged, relist, resync, healthy, answer, errors>>

\* 410 Gone: in answer to the request, or as an ERROR event of a stream the
\* compaction has overtaken.
SessionTooOld ==
  /\ \/ session.pc = "connect" /\ TooOld(session.from)
     \/ session.pc = "stream" /\ session.at < floor
  /\ session' = [session EXCEPT !.pc = "relist", !.adds = NoAdds]
  /\ relist' = [relist EXCEPT !["recover"] = [NoRelist EXCEPT !.pc = "list"]]
  /\ UNCHANGED <<cluster, cache, aged, resync, healthy, answer, errors>>

Stamped(p) == relist' = [k \in Relisters |-> Stamp(k, p)]

SessionAdds(p) ==
  /\ session.pc = "stream"
  /\ session.adds[p] # 0
  /\ Upsert(p, session.adds[p])
  /\ Stamped(p)
  /\ session' = [session EXCEPT !.last = session.adds[p], !.adds = [session.adds EXCEPT ![p] = 0]]
  /\ UNCHANGED <<cluster, resync, healthy, answer, errors>>

\* _handle_event.  A deletion first puts the final state into the cache, ...
SessionEvent ==
  /\ session.pc = "stream"
  /\ session.adds = NoAdds
  /\ session.at < Version
  /\ LET e == log[session.at + 1]
     IN  /\ Upsert(e.pod, session.at + 1)
         /\ Stamped(e.pod)
         /\ session' = IF e.alive THEN [session EXCEPT !.at = @ + 1, !.last = session.at + 1]
                                  ELSE [session EXCEPT !.pc = "delete"]
  /\ UNCHANGED <<cluster, resync, healthy, answer, errors>>

\* ... for reads that race with it, and then deletes the entry.
SessionDeletes ==
  /\ session.pc = "delete"
  /\ Delete(log[session.at + 1].pod)
  /\ session' = [session EXCEPT !.pc = "stream", !.at = @ + 1, !.last = session.at + 1]
  /\ UNCHANGED <<cluster, relist, resync, healthy, answer, errors>>

\* Mutant: the next session starts at the newest version.
SessionEndsAhead ==
  /\ session.pc = "stream"
  /\ session' = Connecting(Version)
  /\ UNCHANGED <<cluster, cache, aged, relist, resync, healthy, answer, errors>>

\* The watch timeout: the next session goes on from the last object seen, even if
\* not all initial pods were announced by then.
SessionEnds ==
  /\ session.pc = "stream"
  /\ session' = Connecting(session.last)
  /\ UNCHANGED <<cluster, cache, aged, relist, resync, healthy, answer, errors>>

\* An error other than 410: after a pause, from where the broken session began.
SessionBreaks ==
  /\ session.pc \in {"connect", "stream"}
  /\ errors < MaxErrors
  /\ session' = Connecting(session.from)
  /\ errors' = errors + 1
  /\ UNCHANGED <<cluster, cache, aged, relist, resync, healthy, answer>>

-----------------------------------------------------------------------------
(***************************************************************************)
(* _relist_snapshot.                                                       *)
(***************************************************************************)
Relist(k, value) == relist' = [relist EXCEPT ![k] = value]

ResyncBegins ==
  /\ resync
  /\ relist["resync"].pc = "idle"
  /\ Relist("resync", [NoRelist EXCEPT !.pc = "list", !.pre = Cached])
  /\ UNCHANGED <<cluster, cache, aged, session, resync, healthy, answer, errors>>

List(k) ==
  /\ relist[k].pc = "list"
  /\ Relist(k, [relist[k] EXCEPT !.pc = "apply", !.snap = Version, !.todo = Running(Version)])
  /\ UNCHANGED <<cluster, cache, aged, session, resync, healthy, answer, errors>>

\* upsert_if_not_newer looks at the entry, lets the lock go, ...
Check(k, p) ==
  /\ relist[k].pc = "apply" /\ relist[k].next = {}
  /\ p \in relist[k].todo
  /\ Relist(k, [relist[k] EXCEPT !.todo = @ \ {p},
                  !.next = IF p \in Cached /\ p \in relist[k].fresh THEN {} ELSE {p}])
  /\ UNCHANGED <<cluster, cache, aged, session, resync, healthy, answer, errors>>

\* ... and then writes what the LIST said.
Overwrite(k, p) ==
  /\ relist[k].pc = "apply" /\ p \in relist[k].next
  /\ Upsert(p, StateAt(relist[k].snap, p))
  /\ relist' = [j \in Relisters |-> IF j = k THEN [Stamp(k, p) EXCEPT !.next = {}] ELSE Stamp(j, p)]
  /\ UNCHANGED <<cluster, session, resync, healthy, answer, errors>>

Applied(k) == relist[k].pc = "apply" /\ relist[k].todo = {} /\ relist[k].next = {}

\* The watch goes on from the LIST; nothing is evicted.
Recovered ==
  /\ Applied("recover")
  /\ Relist("recover", NoRelist)
  /\ session' = Connecting(relist["recover"].snap)
  /\ UNCHANGED <<cluster, cache, aged, resync, healthy, answer, errors>>

\* The entries not in the LIST, but for those on their way out (deleted=True).
Absent == {p \in Cached \ Running(relist["resync"].snap) : log[cache[p]].alive}

\* Mutant: entries written since the LIST began are not spared.
VictimsUnguarded == Absent \cap relist["resync"].pre

\* The entries the resync takes for gone: not in the LIST, cached before it
\* began and not written since.
Victims == Absent \cap (relist["resync"].pre \ relist["resync"].fresh)

PickVictims ==
  /\ Applied("resync")
  /\ Relist("resync", [NoRelist EXCEPT !.pc = "evict", !.todo = Victims])
  /\ UNCHANGED <<cluster, cache, aged, session, resync, healthy, answer, errors>>

Evict(p) ==
  /\ relist["resync"].pc = "evict"
  /\ p \in relist["resync"].todo
  /\ Delete(p)
  /\ Relist("resync", [relist["resync"] EXCEPT !.todo = @ \ {p}])
  /\ UNCHANGED <<cluster, session, resync, healthy, answer, errors>>

ResyncEnds ==
  /\ relist["resync"].pc = "evict" /\ relist["resync"].todo = {}
  /\ Relist("resync", NoRelist)
  /\ UNCHANGED <<cluster, cache, aged, session, resync, healthy, answer, errors>>

\* A LIST that fails: the resync waits for its next turn, the recovery pauses
\* and meets the 410 again.
ListFails(k) ==
  /\ relist[k].pc = "list"
  /\ errors < MaxErrors
  /\ Relist(k, NoRelist)
  /\ session' = IF k = "recover" THEN Connecting(session.from) ELSE session
  /\ errors' = errors + 1
  /\ UNCHANGED <<cluster, cache, aged, resync, healthy, answer>>

-----------------------------------------------------------------------------
\* An entry grows older than the stale timeout.
Age(p) ==
  /\ p \in Cached \ aged
  /\ aged' = aged \cup {p}
  /\ UNCHANGED <<cluster, cache, session, relist, resync, healthy, answer, errors>>

\* mark_stale: entries older than the timeout are dropped.
DropStale ==
  /\ cache' = [p \in Pods |-> IF p \in aged THEN 0 ELSE cache[p]]
  /\ aged' = {}

\* Mutant: a read drops nothing.
ReadDropsNothing ==
  /\ healthy /\ answer.pc = "idle"
  /\ answer' = [pc |-> "get", served |-> FALSE, dropped |-> {}]
  /\ UNCHANGED <<cluster, cache, aged, session, relist, resync, healthy, errors>>

(***************************************************************************)
(* _read_from_cache, one read after the other: old entries are dropped,    *)
(* then the cache answers if it has any entry left; otherwise, and as long *)
(* as it is not healthy, the read lists the pods.                          *)
(***************************************************************************)
ReadDrops ==
  /\ healthy /\ answer.pc = "idle"
  /\ answer' = [pc |-> "get", served |-> FALSE, dropped |-> Cached \cap aged]
  /\ DropStale
  /\ UNCHANGED <<cluster, session, relist, resync, healthy, errors>>

ReadGets ==
  /\ answer.pc = "get"
  /\ answer' = [answer EXCEPT !.pc = "idle", !.served = Cached # {}]
  /\ UNCHANGED <<cluster, cache, aged, session, relist, resync, healthy, errors>>

ReadLists ==
  /\ ~healthy
  /\ answer' = [pc |-> "idle", served |-> FALSE, dropped |-> {}]
  /\ UNCHANGED <<cluster, cache, aged, session, relist, resync, healthy, errors>>

-----------------------------------------------------------------------------
SessionStep ==
  \/ SessionOpens \/ SessionTooOld
  \/ SessionEvent \/ SessionDeletes
  \/ \E p \in Pods : SessionAdds(p)

RelistStep(k) == List(k) \/ \E p \in Pods : Check(k, p) \/ Overwrite(k, p)

Read == ReadDrops \/ ReadGets \/ ReadLists

EvictStep == PickVictims \/ (\E p \in Pods : Evict(p)) \/ ResyncEnds

Next ==
  \/ \E p \in Pods, alive \in BOOLEAN : Change(p, alive)
  \/ Compact
  \/ SessionStep \/ SessionEnds \/ SessionBreaks
  \/ \E k \in Relisters : RelistStep(k) \/ ListFails(k)
  \/ Recovered
  \/ ResyncBegins \/ EvictStep
  \/ \E p \in Pods : Age(p)
  \/ Read

Spec == Init /\ [][Next]_vars

(***************************************************************************)
(* Fairness: worker threads run, the watch loop reconnects, the resync has *)
(* its turn, entries grow old, and the request is read again and again.    *)
(***************************************************************************)
LiveSpec ==
  /\ Spec
  /\ WF_vars(SessionStep) /\ WF_vars(Recovered)
  /\ \A k \in Relisters : WF_vars(RelistStep(k))
  /\ WF_vars(ResyncBegins) /\ WF_vars(EvictStep)
  /\ \A p \in Pods : WF_vars(Age(p))
  /\ WF_vars(Read)

-----------------------------------------------------------------------------
(***************************************************************************)
(* Properties.                                                             *)
(***************************************************************************)
Versions == 0 .. MaxChanges

Sessions(v) ==
  [pc : {"connect", "stream", "delete", "relist"}, from : (0 .. v) \cup {None}, at : 0 .. v,
   last : (0 .. v) \cup {None}, adds : [Pods -> 0 .. v]]

Relists(v) ==
  [pc : {"idle", "list", "apply", "evict"}, snap : 0 .. v, pre : SUBSET Pods,
   fresh : SUBSET Pods, todo : SUBSET Pods, next : SUBSET Pods]

\* Type invariant; no session reads past the newest version.
TypeOK ==
  /\ log \in Seq([pod : Pods, alive : BOOLEAN]) /\ Version \in Versions
  /\ floor \in 0 .. Version
  /\ cache \in [Pods -> 0 .. Version]
  /\ aged \subseteq Cached
  /\ session \in Sessions(Version) /\ (session.pc = "delete" => session.at < Version)
  /\ relist \in [Relisters -> Relists(Version)]
  /\ resync \in BOOLEAN /\ healthy \in BOOLEAN
  /\ answer \in [pc : {"idle", "get"}, served : BOOLEAN, dropped : SUBSET Pods]
  /\ errors \in 0 .. MaxErrors

\* The entries a step of the resync evicts.
Evicted ==
  IF relist["resync"].pc = "evict" THEN relist["resync"].todo \ relist'["resync"].todo ELSE {}

\* The resync evicts no entry that shows the pod as it is, however the LIST and
\* the watch overlap, except one written after the victims were picked: the
\* cache is read once (watcher.py:657) and each entry deleted without another
\* look (684).  The comments at watcher.py:590-594 and 653-656 deny even that
\* exception; NewerIsKept is what they say, and it does not hold.
EvictedIsOutdated ==
  [][\A p \in Evicted :
       cache[p] # StateAt(Version, p) \/ cache[p] = 0 \/ p \in relist["resync"].fresh]_relist

\* The claim of _relist_snapshot: "We never evict a pod that was written after
\* captured_before" (watcher.py:653-656), held against entries that are right: no
\* entry written since the LIST and showing the pod as it is is evicted.
NewerIsKept ==
  [][\A p \in Evicted :
       p \in relist["resync"].fresh => cache[p] = 0 \/ cache[p] # StateAt(Version, p)]_relist

\* As long as no session breaks and no resync runs, the cache shows every pod as
\* of the point the stream has reached, or later, over any number of sessions and
\* of relists after a 410 (the version handed from one to the next).  All that a
\* gap can leave behind are pods that are gone.
StreamIsExact ==
  ~resync /\ errors = 0 /\ session.pc = "stream" /\ session.adds = NoAdds =>
    \A p \in Cached : cache[p] <= session.at =>
      \/ cache[p] = StateAt(session.at, p)
      \/ floor # 0 /\ StateAt(session.at, p) = 0

\* Once the cluster is quiet, the cache ends up without a wrong entry: a pod
\* that went away during a 410 gap, one a LIST brought back after its deletion
\* and one a LIST overwrote with an older state are all put right, by the
\* resync if it runs and otherwise by the reads that drop old entries.  With
\* neither (no resync and a failed startup LIST) the cache is never read.
CacheConverges ==
  healthy \/ resync => <>[](\A p \in Cached : cache[p] = StateAt(Version, p))

\* The claim of PodStatusResolver.check_hosts_status: a stale cache (any entry
\* older than the timeout) falls back to a list.
StaleFallsBack == answer.served => answer.dropped = {}
=============================================================================
