-------------------------- MODULE PodCache_proofs --------------------------
(***************************************************************************)
(* Proofs about PodCache, for any set of pods, any number of changes in    *)
(* the cluster and any number of errors.                                   *)
(***************************************************************************)
EXTENDS PodCache, TLAPS

-----------------------------------------------------------------------------
(***************************************************************************)
(* The state of a pod after n changes.                                     *)
(***************************************************************************)

\* A log of changes.
Log == Seq([pod : Pods, alive : BOOLEAN])

\* An element of a sequence.
LEMMA ElementOfSeq ==
  ASSUME NEW S, NEW l \in Seq(S), NEW i \in 1 .. Len(l)
  PROVE  l[i] \in S
OBVIOUS

\* A pod has one state at a time: two last changes are the same change.
LEMMA StateUnique ==
  ASSUME NEW l, NEW n \in Nat, NEW p, NEW i \in 1 .. n, NEW j \in 1 .. n,
         IsState(l, n, p, i), IsState(l, n, p, j)
  PROVE  i = j
BY DEF IsState

\* The state is 0 or the change that is the pod's last one.
LEMMA StateInFacts ==
  ASSUME NEW l, NEW n \in Nat, NEW p
  PROVE  /\ StateIn(l, n, p) \in 0 .. n
         /\ StateIn(l, n, p) # 0 => IsState(l, n, p, StateIn(l, n, p))
         /\ \A i \in 1 .. n : IsState(l, n, p, i) => StateIn(l, n, p) = i
<1>1. CASE \E i \in 1 .. n : IsState(l, n, p, i)
  <2>1. StateIn(l, n, p) \in 1 .. n /\ IsState(l, n, p, StateIn(l, n, p))
    BY <1>1 DEF StateIn
  <2> QED BY <2>1, StateUnique
<1>2. CASE ~\E i \in 1 .. n : IsState(l, n, p, i)
  <2>1. StateIn(l, n, p) = 0
    BY <1>2 DEF StateIn
  <2> QED BY <1>2, <2>1
<1> QED BY <1>1, <1>2

\* So a state known at a version is not ahead of a later one.
LEMMA StateInBound ==
  ASSUME NEW l, NEW n \in Nat, NEW m \in 0 .. n, NEW p
  PROVE  StateIn(l, m, p) \in 0 .. n
BY StateInFacts

\* A state that was reached by the m-th change was the state at m already.
LEMMA StateInPrefix ==
  ASSUME NEW l, NEW n \in Nat, NEW m \in 0 .. n, NEW p,
         StateIn(l, n, p) # 0, StateIn(l, n, p) <= m
  PROVE  StateIn(l, m, p) = StateIn(l, n, p)
<1> DEFINE i == StateIn(l, n, p)
<1>1. i \in 1 .. m /\ IsState(l, n, p, i)
  BY StateInFacts
<1> HIDE DEF i
<1>2. IsState(l, m, p, i)
  BY <1>1 DEF IsState
<1>3. StateIn(l, m, p) = i
  BY <1>1, <1>2, StateInFacts
<1> QED BY <1>3 DEF i

\* The next change moves the pod it is about and no other.
LEMMA StateInNext ==
  ASSUME NEW l, NEW n \in Nat, NEW p
  PROVE  /\ l[n + 1].pod = p /\ l[n + 1].alive => StateIn(l, n + 1, p) = n + 1
         /\ l[n + 1].pod = p /\ ~l[n + 1].alive => StateIn(l, n + 1, p) = 0
         /\ l[n + 1].pod # p => StateIn(l, n + 1, p) = StateIn(l, n, p)
<1>1. ASSUME l[n + 1].pod = p, l[n + 1].alive PROVE StateIn(l, n + 1, p) = n + 1
  <2>1. IsState(l, n + 1, p, n + 1)
    BY <1>1 DEF IsState
  <2> QED BY <2>1, StateInFacts
<1>2. ASSUME l[n + 1].pod = p, ~l[n + 1].alive PROVE StateIn(l, n + 1, p) = 0
  <2>1. \A i \in 1 .. n + 1 : ~IsState(l, n + 1, p, i)
    BY <1>2 DEF IsState
  <2> QED BY <2>1 DEF StateIn
<1>3. ASSUME l[n + 1].pod # p PROVE StateIn(l, n + 1, p) = StateIn(l, n, p)
  <2>1. \A i \in 1 .. n + 1 : IsState(l, n + 1, p, i) => i \in 1 .. n /\ IsState(l, n, p, i)
    BY <1>3 DEF IsState
  <2>2. \A i \in 1 .. n : IsState(l, n, p, i) => IsState(l, n + 1, p, i)
    BY <1>3 DEF IsState
  <2>3. CASE StateIn(l, n, p) # 0
    BY <2>2, <2>3, StateInFacts
  <2>4. CASE StateIn(l, n, p) = 0
    <3>1. \A i \in 1 .. n : ~IsState(l, n, p, i)
      BY <2>4, StateInFacts
    <3> QED BY <2>1, <2>4, <3>1 DEF StateIn
  <2> QED BY <2>3, <2>4
<1> QED BY <1>1, <1>2, <1>3

\* What a pod's state was at a version does not change when the log grows.
LEMMA StateInGrows ==
  ASSUME NEW l \in Log, NEW e \in [pod : Pods, alive : BOOLEAN], NEW n \in 0 .. Len(l), NEW p
  PROVE  StateIn(Append(l, e), n, p) = StateIn(l, n, p)
<1>1. \A i \in 1 .. n : Append(l, e)[i] = l[i]
  BY DEF Log
<1>2. \A i \in 1 .. n : IsState(Append(l, e), n, p, i) <=> IsState(l, n, p, i)
  BY <1>1 DEF IsState
<1>3. CASE StateIn(l, n, p) # 0
  BY <1>2, <1>3, StateInFacts
<1>4. CASE StateIn(l, n, p) = 0
  <2>1. \A i \in 1 .. n : ~IsState(l, n, p, i)
    BY <1>4, StateInFacts
  <2> QED BY <1>2, <1>4, <2>1 DEF StateIn
<1> QED BY <1>3, <1>4

-----------------------------------------------------------------------------
(***************************************************************************)
(* Types.                                                                  *)
(***************************************************************************)

USE DEF Version, StateAt

\* The pods a LIST returns are pods of the request, and so are the cached ones.
LEMMA SetsOfPods == Cached \subseteq Pods /\ \A n : Running(n) \subseteq Pods
  BY DEF Cached, Running

\* The versions there are stay versions as the log grows.
LEMMA Grows ==
  ASSUME TypeOK, NEW p \in Pods, NEW alive \in BOOLEAN, Change(p, alive)
  PROVE  /\ log \in Log /\ log' \in Log
         /\ Len(log') = Len(log) + 1
         /\ 0 .. Len(log) \subseteq 0 .. Len(log')
         /\ log'[Len(log')] = [pod |-> p, alive |-> alive]
         /\ \A i \in 1 .. Len(log) : log'[i] = log[i]
         /\ \A n \in 0 .. Len(log) : \A q : StateIn(log', n, q) = StateIn(log, n, q)
<1> DEFINE e == [pod |-> p, alive |-> alive]
<1>1. log \in Log /\ e \in [pod : Pods, alive : BOOLEAN] /\ log' = Append(log, e)
  BY DEF TypeOK, Log, Change
<1> HIDE DEF e
<1>2. log' \in Log /\ Len(log') = Len(log) + 1 /\ log'[Len(log')] = e
       /\ \A i \in 1 .. Len(log) : log'[i] = log[i]
  BY <1>1 DEF Log
<1>3. 0 .. Len(log) \subseteq 0 .. Len(log')
  BY <1>1, <1>2 DEF Log
<1> QED BY <1>1, <1>2, <1>3, StateInGrows DEF e

\* The cache's own operations keep its type, and no time stamp outlives its entry.
LEMMA CacheTypes ==
  ASSUME TypeOK, NEW p \in Pods, log' = log
  PROVE  /\ \A state \in 0 .. Len(log) :
              Upsert(p, state) => cache' \in [Pods -> 0 .. Len(log)] /\ aged' \subseteq Cached'
         /\ Delete(p) => cache' \in [Pods -> 0 .. Len(log)] /\ aged' \subseteq Cached'
BY DEF TypeOK, Upsert, Delete, Cached

\* What a stamp does to a relist: the pod counts as fresh, unless nobody lists.
LEMMA StampFacts ==
  ASSUME TypeOK, NEW p \in Pods, NEW k \in Relisters
  PROVE  /\ Stamp(k, p) \in Relists(Len(log))
         /\ Stamp(k, p).pc = relist[k].pc /\ Stamp(k, p).snap = relist[k].snap
         /\ Stamp(k, p).pre = relist[k].pre
         /\ Stamp(k, p).todo = relist[k].todo /\ Stamp(k, p).next = relist[k].next
         /\ relist[k].pc # "idle" => Stamp(k, p).fresh = relist[k].fresh \cup {p}
BY DEF TypeOK, Stamp, Relists

\* Stamping all relists keeps their type.
LEMMA StampTypes ==
  ASSUME TypeOK, NEW p \in Pods, Stamped(p)
  PROVE  relist' \in [Relisters -> Relists(Len(log))]
BY StampFacts DEF Stamped

\* A step of the cluster keeps the types.
LEMMA TypeCluster ==
  ASSUME TypeOK, \/ \E p \in Pods, alive \in BOOLEAN : Change(p, alive)
                 \/ Compact
  PROVE  TypeOK'
<1>1. ASSUME NEW p \in Pods, NEW alive \in BOOLEAN, Change(p, alive) PROVE TypeOK'
  <2>1. log' \in Seq([pod : Pods, alive : BOOLEAN]) /\ Len(log') \in 0 .. MaxChanges
    BY <1>1, Grows, BoundsAssumption DEF TypeOK, Change, Log, Versions
  <2>2. 0 .. Len(log) \subseteq 0 .. Len(log')
    BY <1>1, Grows
  <2>3. session' \in Sessions(Len(log')) /\ relist' \in [Relisters -> Relists(Len(log'))]
    BY <1>1, <2>2 DEF TypeOK, Change, Sessions, Relists
  <2>4. session'.pc = "delete" => session'.at < Len(log')
    BY <1>1, Grows DEF TypeOK, Change, Sessions, Log
  <2> QED BY <1>1, <2>1, <2>2, <2>3, <2>4 DEF TypeOK, Change, Cached, Versions
<1>2. CASE Compact
  BY <1>2 DEF TypeOK, Compact, Cached, Versions
<1> QED BY <1>1, <1>2

\* A step of the watch session keeps the types.
LEMMA TypeSession ==
  ASSUME TypeOK, SessionStep \/ SessionEnds \/ SessionBreaks
  PROVE  TypeOK'
<1> USE DEF cluster
<1>0. Len(log) \in Nat
  BY DEF TypeOK
<1>1. CASE SessionOpens
  <2> DEFINE at == IF session.from = None THEN Len(log) ELSE session.from
             adds == IF session.from = None THEN [p \in Pods |-> StateIn(log, Len(log), p)]
                                            ELSE NoAdds
  <2>1. [p \in Pods |-> StateIn(log, Len(log), p)] \in [Pods -> 0 .. Len(log)]
    BY <1>0, StateInFacts
  <2>2. at \in 0 .. Len(log)
    BY <1>0 DEF TypeOK, Sessions
  <2>3. adds \in [Pods -> 0 .. Len(log)]
    BY <1>0, <2>1 DEF NoAdds
  <2>4. session' = [session EXCEPT !.pc = "stream", !.at = at, !.adds = adds]
    BY <1>1 DEF SessionOpens
  <2> HIDE DEF at, adds
  <2>5. session' \in Sessions(Len(log)) /\ session'.pc = "stream"
    BY <2>2, <2>3, <2>4 DEF TypeOK, Sessions
  <2> QED BY <1>1, <2>5 DEF SessionOpens, TypeOK, Cached
<1>2. CASE SessionTooOld
  <2>0. NoAdds \in [Pods -> 0 .. Len(log)] /\ session \in Sessions(Len(log))
        /\ session' = [session EXCEPT !.pc = "relist", !.adds = NoAdds]
    BY <1>0, <1>2 DEF NoAdds, SessionTooOld, TypeOK
  <2>1. session' \in Sessions(Len(log)) /\ session'.pc = "relist"
    BY <2>0 DEF Sessions
  <2>2. [NoRelist EXCEPT !.pc = "list"] =
          [pc |-> "list", snap |-> 0, pre |-> {}, fresh |-> {}, todo |-> {}, next |-> {}]
    BY DEF NoRelist
  <2>3. relist' = [relist EXCEPT !["recover"] = [NoRelist EXCEPT !.pc = "list"]]
    BY <1>2 DEF SessionTooOld
  <2>4. [NoRelist EXCEPT !.pc = "list"] \in Relists(Len(log))
    BY <1>0, <2>2 DEF Relists
  <2>5. relist' \in [Relisters -> Relists(Len(log))]
    BY <2>3, <2>4 DEF TypeOK
  <2> QED BY <1>2, <2>1, <2>5 DEF SessionTooOld, TypeOK, Cached
<1>3. CASE SessionEvent
  <2> DEFINE e == log[session.at + 1]
             n == session.at + 1
  <2>0. session.at < Len(log)
    BY <1>3 DEF SessionEvent
  <2>1. n \in 0 .. Len(log) /\ e.pod \in Pods
    <3>1. n \in 1 .. Len(log)
      BY <1>0, <2>0 DEF TypeOK, Sessions
    <3> HIDE DEF n
    <3>2. log[n] \in [pod : Pods, alive : BOOLEAN]
      BY <3>1, ElementOfSeq DEF TypeOK
    <3> USE DEF n
    <3> QED BY <3>1, <3>2
  <2>2. session' \in Sessions(Len(log)) /\ (session'.pc = "delete" => session'.at < Len(log))
    <3>1. session' = [session EXCEPT !.at = n, !.last = n] \/ session' = [session EXCEPT !.pc = "delete"]
      BY <1>3 DEF SessionEvent
    <3>2. session.pc = "stream"
      BY <1>3 DEF SessionEvent
    <3> HIDE DEF n
    <3> QED BY <2>0, <2>1, <3>1, <3>2 DEF TypeOK, Sessions
  <2>3. Upsert(e.pod, n) /\ Stamped(e.pod)
    BY <1>3 DEF SessionEvent
  <2> HIDE DEF e, n
  <2> QED BY <1>3, <2>1, <2>2, <2>3, CacheTypes, StampTypes DEF SessionEvent, TypeOK
<1>7. CASE SessionDeletes
  <2> DEFINE n == session.at + 1
  <2>0. session.at < Len(log) /\ Delete(log[n].pod)
    BY <1>7 DEF SessionDeletes, TypeOK
  <2>1. n \in 1 .. Len(log)
    BY <1>0, <2>0 DEF TypeOK, Sessions
  <2>2. session' = [session EXCEPT !.pc = "stream", !.at = n, !.last = n]
    BY <1>7 DEF SessionDeletes
  <2> HIDE DEF n
  <2>3. log[n].pod \in Pods /\ n \in 0 .. Len(log)
    <3>1. log[n] \in [pod : Pods, alive : BOOLEAN]
      BY <2>1, ElementOfSeq DEF TypeOK
    <3> QED BY <2>1, <3>1
  <2>4. session' \in Sessions(Len(log)) /\ session'.pc = "stream"
    BY <2>2, <2>3 DEF TypeOK, Sessions
  <2> QED BY <1>7, <2>0, <2>3, <2>4, CacheTypes DEF SessionDeletes, TypeOK
<1>4. ASSUME NEW p \in Pods, SessionAdds(p) PROVE TypeOK'
  <2>1. session.adds[p] \in 0 .. Len(log) /\ session.adds[p] # 0
    BY <1>4 DEF SessionAdds, TypeOK, Sessions
  <2>2. [session.adds EXCEPT ![p] = 0] \in [Pods -> 0 .. Len(log)]
    BY <1>0 DEF TypeOK, Sessions
  <2>3. session' \in Sessions(Len(log)) /\ session'.pc = "stream"
    BY <1>4, <2>1, <2>2 DEF SessionAdds, TypeOK, Sessions
  <2> QED BY <1>4, <2>1, <2>3, CacheTypes, StampTypes DEF SessionAdds, TypeOK
<1>5. CASE SessionEnds
  BY <1>0, <1>5 DEF SessionEnds, TypeOK, Cached, Connecting, NoAdds, Sessions
<1>6. CASE SessionBreaks
  BY <1>0, <1>6, BoundsAssumption DEF SessionBreaks, TypeOK, Cached, Connecting, NoAdds, Sessions
<1> QED BY <1>1, <1>2, <1>3, <1>4, <1>5, <1>6, <1>7 DEF SessionStep

\* The other record a relist can be in after a step of its own.
LEMMA RelistTypes ==
  ASSUME TypeOK, NEW k \in Relisters
  PROVE  /\ \A v \in Relists(Len(log)) : Relist(k, v) => relist' \in [Relisters -> Relists(Len(log))]
         /\ NoRelist \in Relists(Len(log))
         /\ relist[k] \in Relists(Len(log))
<1>1. NoRelist \in Relists(Len(log))
  BY DEF TypeOK, NoRelist, Relists
<1> QED BY <1>1 DEF TypeOK, Relist

\* A step of a relist keeps the types.
LEMMA TypeRelist ==
  ASSUME TypeOK, NEW k \in Relisters, RelistStep(k) \/ ListFails(k)
  PROVE  TypeOK'
<1> USE DEF cluster
<1>0. Len(log) \in Nat /\ Len(log) \in 0 .. Len(log)
  BY DEF TypeOK
<1>1. CASE List(k)
  <2>1. [relist[k] EXCEPT !.pc = "apply", !.snap = Len(log), !.todo = Running(Len(log))]
          \in Relists(Len(log))
    BY <1>0, RelistTypes, SetsOfPods DEF Relists
  <2> QED BY <1>1, <2>1, RelistTypes DEF List, TypeOK, Cached
<1>2. ASSUME NEW p \in Pods, Check(k, p) PROVE TypeOK'
  <2> DEFINE next == IF p \in Cached /\ p \in relist[k].fresh THEN {} ELSE {p}
             todo == relist[k].todo \ {p}
  <2>1. next \in SUBSET Pods /\ todo \in SUBSET Pods
    BY RelistTypes DEF Relists
  <2>2. Relist(k, [relist[k] EXCEPT !.todo = todo, !.next = next])
    BY <1>2 DEF Check
  <2> HIDE DEF next, todo
  <2>3. [relist[k] EXCEPT !.todo = todo, !.next = next] \in Relists(Len(log))
    BY <2>1, RelistTypes DEF Relists
  <2> QED BY <1>2, <2>2, <2>3, RelistTypes DEF Check, TypeOK, Cached
<1>3. ASSUME NEW p \in Pods, Overwrite(k, p) PROVE TypeOK'
  <2>1. Upsert(p, StateIn(log, relist[k].snap, p)) /\ log' = log
    BY <1>3 DEF Overwrite
  <2>2. relist[k].snap \in 0 .. Len(log)
    BY RelistTypes DEF Relists
  <2>3. StateIn(log, relist[k].snap, p) \in 0 .. Len(log)
    BY <1>0, <2>2, StateInBound
  <2> DEFINE v == [Stamp(k, p) EXCEPT !.next = {}]
  <2>4. v \in Relists(Len(log))
    BY StampFacts DEF Relists
  <2>5. relist' \in [Relisters -> Relists(Len(log))]
    <3>1. relist' = [j \in Relisters |-> IF j = k THEN v ELSE Stamp(j, p)]
      BY <1>3 DEF Overwrite
    <3> HIDE DEF v
    <3> QED BY <2>4, <3>1, StampFacts
  <2> QED BY <1>3, <2>1, <2>3, <2>5, CacheTypes DEF Overwrite, TypeOK
<1>4. CASE ListFails(k)
  <2>1. Connecting(session.from) \in Sessions(Len(log))
    BY <1>0 DEF TypeOK, Sessions, Connecting, NoAdds
  <2>2. session' \in Sessions(Len(log)) /\ (session'.pc = "delete" => session'.at < Len(log))
    BY <1>4, <2>1 DEF ListFails, TypeOK, Connecting
  <2>3. errors' \in 0 .. MaxErrors
    BY <1>4, BoundsAssumption DEF ListFails, TypeOK
  <2> QED BY <1>4, <2>2, <2>3, RelistTypes DEF ListFails, TypeOK, Cached
<1> QED BY <1>1, <1>2, <1>3, <1>4 DEF RelistStep

\* The end of a recovery and a step of the resync keep the types.
LEMMA TypeResync ==
  ASSUME TypeOK, Recovered \/ ResyncBegins \/ EvictStep
  PROVE  TypeOK'
<1> USE DEF cluster, Relisters
<1>0. Len(log) \in Nat
  BY DEF TypeOK
<1>1. CASE Recovered
  <2>1. /\ Connecting(relist["recover"].snap) \in Sessions(Len(log))
        /\ Connecting(relist["recover"].snap).pc = "connect"
    BY <1>0, RelistTypes DEF Relists, Sessions, Connecting, NoAdds
  <2> QED BY <1>1, <2>1, RelistTypes DEF Recovered, TypeOK, Cached
<1>2. CASE ResyncBegins
  <2>1. [NoRelist EXCEPT !.pc = "list", !.pre = Cached] \in Relists(Len(log))
    BY RelistTypes, SetsOfPods DEF Relists
  <2> QED BY <1>2, <2>1, RelistTypes DEF ResyncBegins, TypeOK, Cached
<1>3. CASE PickVictims
  <2>0. Victims \subseteq Pods
    BY SetsOfPods DEF Victims, Absent
  <2>1. [NoRelist EXCEPT !.pc = "evict", !.todo = Victims] \in Relists(Len(log))
    BY <2>0, RelistTypes DEF Relists
  <2> QED BY <1>3, <2>1, RelistTypes DEF PickVictims, TypeOK, Cached
<1>4. ASSUME NEW p \in Pods, Evict(p) PROVE TypeOK'
  <2>1. [relist["resync"] EXCEPT !.todo = relist["resync"].todo \ {p}] \in Relists(Len(log))
    BY RelistTypes DEF Relists
  <2>2. Relist("resync", [relist["resync"] EXCEPT !.todo = relist["resync"].todo \ {p}])
    BY <1>4 DEF Evict
  <2> QED BY <1>4, <2>1, <2>2, RelistTypes, CacheTypes DEF Evict, TypeOK
<1>5. CASE ResyncEnds
  BY <1>5, RelistTypes DEF ResyncEnds, TypeOK, Cached
<1> QED BY <1>1, <1>2, <1>3, <1>4, <1>5 DEF EvictStep

\* Ageing and reads keep the types; a read leaves no old entry behind.
LEMMA TypeReads ==
  ASSUME TypeOK, (\E p \in Pods : Age(p)) \/ Read
  PROVE  TypeOK'
<1> USE DEF cluster
<1>1. ASSUME NEW p \in Pods, Age(p) PROVE TypeOK'
  BY <1>1 DEF Age, TypeOK, Cached
<1>2. CASE ReadDrops
  BY <1>2 DEF ReadDrops, DropStale, TypeOK, Cached
<1>3. CASE ReadGets
  <2>1. answer' \in [pc : {"idle", "get"}, served : BOOLEAN, dropped : SUBSET Pods]
    <3> DEFINE served == Cached # {}
    <3>1. served \in BOOLEAN /\ answer' = [answer EXCEPT !.pc = "idle", !.served = served]
      BY <1>3 DEF ReadGets
    <3> HIDE DEF served
    <3>2. answer \in [pc : {"idle", "get"}, served : BOOLEAN, dropped : SUBSET Pods]
      BY DEF TypeOK
    <3> QED BY <3>1, <3>2
  <2> QED BY <1>3, <2>1 DEF ReadGets, TypeOK, Cached
<1>4. CASE ReadLists
  BY <1>4 DEF ReadLists, TypeOK, Cached
<1> QED BY <1>1, <1>2, <1>3, <1>4 DEF Read

\* The types are inductive by themselves.
LEMMA TypeStep == TypeOK /\ [Next]_vars => TypeOK'
<1>1. ASSUME TypeOK, Next PROVE TypeOK'
  BY <1>1, TypeCluster, TypeSession, TypeRelist, TypeResync, TypeReads DEF Next
<1>2. ASSUME TypeOK, UNCHANGED vars PROVE TypeOK'
  BY <1>2 DEF TypeOK, vars, Cached
<1> QED BY <1>1, <1>2

\* Nothing is known of the cluster at first.
LEMMA TypeInit == Init => TypeOK
  BY ModesAssumption, BoundsAssumption DEF Init, TypeOK, Cached, Connecting, NoAdds, NoRelist,
     Sessions, Relists, Versions

\* Every variable keeps its type: in particular no session, relist or cache
\* entry is ahead of the apiserver, and no time stamp outlives its entry
\* (PodStateCache drops both together).
THEOREM TypeCorrect == Spec => []TypeOK
  BY TypeInit, TypeStep, PTL DEF Spec
-----------------------------------------------------------------------------
(***************************************************************************)
(* Evictions.                                                              *)
(***************************************************************************)

\* What the resync relies on.  While a LIST is applied, an entry that was not
\* written since the LIST began is not newer than the LIST, ...
ListIsNewer ==
  relist["resync"].pc = "apply" =>
    \A p \in Pods \ relist["resync"].fresh : cache[p] <= relist["resync"].snap

\* ... and a victim not written since it was picked does not show its pod as it is.
VictimsOutdated ==
  relist["resync"].pc = "evict" =>
    \A p \in relist["resync"].todo \ relist["resync"].fresh :
      cache[p] = 0 \/ cache[p] # StateAt(Version, p)

EvictInv == ListIsNewer /\ VictimsOutdated

\* A change leaves outdated what was outdated: the pod's state stays or becomes
\* one that no entry shows yet.
LEMMA ChangeOutdates ==
  ASSUME TypeOK, NEW p \in Pods, NEW alive \in BOOLEAN, Change(p, alive), NEW q \in Pods,
         cache[q] = 0 \/ cache[q] # StateIn(log, Len(log), q)
  PROVE  cache[q] = 0 \/ cache[q] # StateIn(log', Len(log'), q)
<1> DEFINE n == Len(log)
<1>1. n \in Nat /\ n \in 0 .. Len(log) /\ cache[q] \in 0 .. n
  BY DEF TypeOK
<1>2. Len(log') = n + 1
  BY Grows
<1>3. \A m \in 0 .. Len(log) : \A r : StateIn(log', m, r) = StateIn(log, m, r)
  BY Grows
<1> HIDE DEF n
<1>4. StateIn(log', n + 1, q) \in {n + 1, 0, StateIn(log', n, q)}
  BY <1>1, StateInNext
<1>5. StateIn(log', n, q) = StateIn(log, n, q)
  BY <1>1, <1>3
<1> QED BY <1>1, <1>2, <1>4, <1>5 DEF n

\* A step that changes the cache only at pods it stamps, or deletes, and does
\* not move the resync on, keeps the evictions right.
LEMMA EvictFrame ==
  ASSUME TypeOK, EvictInv, log' = log,
         \/ relist'["resync"].pc \in {"idle", "list"}
         \/ /\ relist'["resync"].pc = relist["resync"].pc
            /\ relist'["resync"].snap = relist["resync"].snap
            /\ relist'["resync"].todo \subseteq relist["resync"].todo
            /\ relist["resync"].fresh \subseteq relist'["resync"].fresh,
         \A p \in Pods : \/ cache'[p] = cache[p]
                         \/ cache'[p] = 0
                         \/ p \in relist'["resync"].fresh
                         \/ relist["resync"].pc = "idle"
  PROVE  EvictInv'
<1>1. relist["resync"] \in Relists(Len(log)) /\ Len(log) \in Nat
  BY RelistTypes DEF TypeOK, Relisters
<1>2. CASE relist'["resync"].pc \in {"idle", "list"}
  BY <1>2 DEF EvictInv, ListIsNewer, VictimsOutdated
<1>3. CASE ~(relist'["resync"].pc \in {"idle", "list"})
  <2>1. ListIsNewer'
    BY <1>1, <1>3 DEF EvictInv, ListIsNewer, Relists
  <2>2. VictimsOutdated'
    BY <1>1, <1>3 DEF EvictInv, VictimsOutdated, Relists
  <2> QED BY <2>1, <2>2 DEF EvictInv
<1> QED BY <1>2, <1>3

\* An upsert together with its stamp is such a step.
LEMMA EvictStamp ==
  ASSUME TypeOK, EvictInv, log' = log, NEW p \in Pods, NEW state \in 0 .. Len(log),
         Upsert(p, state), Stamped(p)
  PROVE  EvictInv'
<1>1. relist'["resync"] = Stamp("resync", p)
  BY DEF Stamped, Relisters
<1>2. \A q \in Pods : q # p => cache'[q] = cache[q]
  BY DEF Upsert, TypeOK
<1>3. /\ relist'["resync"].pc = relist["resync"].pc
      /\ relist'["resync"].snap = relist["resync"].snap
      /\ relist'["resync"].todo = relist["resync"].todo
      /\ relist["resync"].pc # "idle" =>
           relist'["resync"].fresh = relist["resync"].fresh \cup {p}
  BY <1>1, StampFacts DEF Relisters
<1>4. CASE relist["resync"].pc = "idle"
  BY <1>3, <1>4, EvictFrame
<1>5. CASE relist["resync"].pc # "idle"
  BY <1>2, <1>3, <1>5, EvictFrame
<1> QED BY <1>4, <1>5

\* All a read does to the cache is to drop entries.
LEMMA ReadFacts ==
  ASSUME Read
  PROVE  /\ log' = log /\ floor' = floor /\ session' = session /\ relist' = relist
         /\ resync' = resync /\ errors' = errors
         /\ \A p \in Pods : cache'[p] = cache[p] \/ cache'[p] = 0
BY DEF Read, ReadDrops, ReadGets, ReadLists, DropStale, cluster

\* Steps of the cluster, and ageing and reads, keep the evictions right.
LEMMA EvictCluster ==
  ASSUME TypeOK, EvictInv,
         \/ \E p \in Pods, alive \in BOOLEAN : Change(p, alive)
         \/ Compact
         \/ (\E p \in Pods : Age(p)) \/ Read
         \/ UNCHANGED vars
  PROVE  EvictInv'
<1> USE DEF cluster
<1>1. ASSUME NEW p \in Pods, NEW alive \in BOOLEAN, Change(p, alive) PROVE EvictInv'
  <2>1. relist' = relist /\ cache' = cache
    BY <1>1 DEF Change
  <2>2. ListIsNewer'
    BY <2>1 DEF EvictInv, ListIsNewer
  <2>3. relist["resync"].todo \subseteq Pods
    BY RelistTypes DEF Relists, Relisters
  <2>4. VictimsOutdated'
    BY <1>1, <2>1, <2>3, ChangeOutdates DEF EvictInv, VictimsOutdated
  <2> QED BY <2>2, <2>4 DEF EvictInv
<1>2. CASE Compact
  BY <1>2, EvictFrame DEF Compact
<1>3. ASSUME NEW p \in Pods, Age(p) PROVE EvictInv'
  BY <1>3, EvictFrame DEF Age
<1>4. CASE Read
  <2>1. log' = log /\ relist' = relist /\ \A p \in Pods : cache'[p] = cache[p] \/ cache'[p] = 0
    BY <1>4, ReadFacts
  <2> QED BY <2>1, EvictFrame
<1>5. CASE UNCHANGED vars
  BY <1>5, EvictFrame DEF vars
<1> QED BY <1>1, <1>2, <1>3, <1>4, <1>5
\* Steps of the watch session keep the evictions right: what it writes, it stamps.
LEMMA EvictSession ==
  ASSUME TypeOK, EvictInv, SessionStep \/ SessionEnds \/ SessionBreaks
  PROVE  EvictInv'
<1> USE DEF cluster
<1>1. CASE SessionOpens
  BY <1>1, EvictFrame DEF SessionOpens
<1>2. CASE SessionTooOld
  <2>1. relist'["resync"] = relist["resync"]
    BY <1>2 DEF SessionTooOld, TypeOK, Relisters
  <2> QED BY <1>2, <2>1, EvictFrame DEF SessionTooOld
<1>3. CASE SessionEvent
  <2> DEFINE e == log[session.at + 1]
             n == session.at + 1
  <2>1. log' = log /\ session.at < Len(log)
    BY <1>3 DEF SessionEvent
  <2>2. n \in 1 .. Len(log)
    BY <2>1 DEF TypeOK, Sessions
  <2>3. n \in 0 .. Len(log) /\ e.pod \in Pods
    <3> HIDE DEF n
    <3>1. log[n] \in [pod : Pods, alive : BOOLEAN]
      BY <2>2, ElementOfSeq DEF TypeOK
    <3> QED BY <2>2, <3>1 DEF n
  <2>4. Upsert(e.pod, n) /\ Stamped(e.pod)
    BY <1>3 DEF SessionEvent
  <2> HIDE DEF e, n
  <2> QED BY <2>1, <2>3, <2>4, EvictStamp
<1>7. CASE SessionDeletes
  <2>1. log' = log /\ relist' = relist /\ Delete(log[session.at + 1].pod)
    BY <1>7 DEF SessionDeletes
  <2>2. \A q \in Pods : cache'[q] = cache[q] \/ cache'[q] = 0
    BY <2>1 DEF Delete, TypeOK
  <2> QED BY <2>1, <2>2, EvictFrame
<1>4. ASSUME NEW p \in Pods, SessionAdds(p) PROVE EvictInv'
  <2>1. session.adds[p] \in 0 .. Len(log)
    BY DEF TypeOK, Sessions
  <2> QED BY <1>4, <2>1, EvictStamp DEF SessionAdds
<1>5. CASE SessionEnds
  BY <1>5, EvictFrame DEF SessionEnds
<1>6. CASE SessionBreaks
  BY <1>6, EvictFrame DEF SessionBreaks
<1> QED BY <1>1, <1>2, <1>3, <1>4, <1>5, <1>6, <1>7 DEF SessionStep

\* What a relist's own step leaves to the other one.
LEMMA RelistEffect ==
  ASSUME TypeOK, NEW k \in Relisters, NEW v, Relist(k, v)
  PROVE  relist'[k] = v /\ \A j \in Relisters : j # k => relist'[j] = relist[j]
BY DEF TypeOK, Relist

\* Steps of either relist keep the evictions right: what is in the cache when the
\* LIST is answered is not newer than the LIST.
LEMMA EvictRelist ==
  ASSUME TypeOK, EvictInv, NEW k \in Relisters, RelistStep(k) \/ ListFails(k)
  PROVE  EvictInv'
<1> USE DEF cluster
<1>0. "resync" \in Relisters /\ Len(log) \in Nat
  BY DEF Relisters, TypeOK
<1>1. CASE List(k)
  <2>1. log' = log /\ cache' = cache
        /\ Relist(k, [relist[k] EXCEPT !.pc = "apply", !.snap = Len(log), !.todo = Running(Len(log))])
    BY <1>1 DEF List
  <2>2. CASE k = "resync"
    <3>1. relist'["resync"] =
            [relist["resync"] EXCEPT !.pc = "apply", !.snap = Len(log), !.todo = Running(Len(log))]
      BY <2>1, <2>2, RelistEffect
    <3>2. relist'["resync"].pc = "apply" /\ relist'["resync"].snap = Len(log)
      BY <1>0, <3>1, RelistTypes DEF Relists
    <3> QED BY <1>0, <2>1, <3>2 DEF EvictInv, ListIsNewer, VictimsOutdated, TypeOK
  <2>3. CASE k # "resync"
    BY <1>0, <2>1, <2>3, RelistEffect, EvictFrame
  <2> QED BY <2>2, <2>3
<1>2. ASSUME NEW p \in Pods, Check(k, p) PROVE EvictInv'
  <2> DEFINE next == IF p \in Cached /\ p \in relist[k].fresh THEN {} ELSE {p}
             todo == relist[k].todo \ {p}
  <2>1. log' = log /\ cache' = cache /\ Relist(k, [relist[k] EXCEPT !.todo = todo, !.next = next])
    BY <1>2 DEF Check
  <2>2. todo \subseteq relist[k].todo
    OBVIOUS
  <2> HIDE DEF next, todo
  <2>3. CASE k = "resync"
    <3>1. relist'["resync"] = [relist["resync"] EXCEPT !.todo = todo, !.next = next]
      BY <2>1, <2>3, RelistEffect
    <3>2. /\ relist'["resync"].pc = relist["resync"].pc
          /\ relist'["resync"].snap = relist["resync"].snap
          /\ relist'["resync"].todo = todo
          /\ relist'["resync"].fresh = relist["resync"].fresh
      BY <1>0, <3>1, RelistTypes DEF Relists
    <3> QED BY <2>1, <2>2, <2>3, <3>2, EvictFrame
  <2>4. CASE k # "resync"
    BY <1>0, <2>1, <2>4, RelistEffect, EvictFrame
  <2> QED BY <2>3, <2>4
<1>3. ASSUME NEW p \in Pods, Overwrite(k, p) PROVE EvictInv'
  <2> DEFINE v == [Stamp(k, p) EXCEPT !.next = {}]
  <2>1. log' = log /\ Upsert(p, StateIn(log, relist[k].snap, p))
        /\ relist' = [j \in Relisters |-> IF j = k THEN v ELSE Stamp(j, p)]
    BY <1>3 DEF Overwrite
  <2>2. /\ v.pc = Stamp(k, p).pc /\ v.snap = Stamp(k, p).snap
        /\ v.todo = Stamp(k, p).todo /\ v.fresh = Stamp(k, p).fresh
    BY StampFacts DEF Relists
  <2> HIDE DEF v
  <2>3. relist'["resync"] = IF "resync" = k THEN v ELSE Stamp("resync", p)
    BY <1>0, <2>1
  <2>4. /\ relist'["resync"].pc = relist["resync"].pc
        /\ relist'["resync"].snap = relist["resync"].snap
        /\ relist'["resync"].todo = relist["resync"].todo
        /\ relist["resync"].pc # "idle" =>
             relist'["resync"].fresh = relist["resync"].fresh \cup {p}
    BY <1>0, <2>2, <2>3, StampFacts
  <2>5. \A q \in Pods : q # p => cache'[q] = cache[q]
    BY <2>1 DEF Upsert, TypeOK
  <2>6. CASE relist["resync"].pc = "idle"
    BY <2>1, <2>4, <2>6, EvictFrame
  <2>7. CASE relist["resync"].pc # "idle"
    BY <2>1, <2>4, <2>5, <2>7, EvictFrame
  <2> QED BY <2>6, <2>7
<1>4. CASE ListFails(k)
  <2>1. log' = log /\ cache' = cache /\ Relist(k, NoRelist)
    BY <1>4 DEF ListFails
  <2>2. relist'["resync"] = relist["resync"] \/ relist'["resync"].pc = "idle"
    BY <1>0, <2>1, RelistEffect DEF NoRelist
  <2> QED BY <2>1, <2>2, EvictFrame
<1> QED BY <1>1, <1>2, <1>3, <1>4 DEF RelistStep

\* The victims: entries older than the LIST, of pods the LIST did not show.  If
\* such a pod runs now, it was created after the LIST.
LEMMA VictimIsOutdated ==
  ASSUME TypeOK, EvictInv, Applied("resync"), NEW p \in Victims
  PROVE  cache[p] # StateIn(log, Len(log), p)
<1> DEFINE n == Len(log)
           m == relist["resync"].snap
           c == StateIn(log, n, p)
<1>1. n \in Nat /\ m \in 0 .. n /\ p \in Pods
  BY RelistTypes DEF TypeOK, Relisters, Relists, Victims, Absent, Cached
<1>2. cache[p] # 0 /\ cache[p] <= m /\ cache[p] \in Nat
  BY <1>1 DEF Victims, Absent, Cached, EvictInv, ListIsNewer, Applied, TypeOK
<1>3. StateIn(log, m, p) = 0
  BY <1>1 DEF Victims, Absent, Running
<1> HIDE DEF n, m
<1>4. c # 0 => c > m
  <2>1. c \in 0 .. n
    BY <1>1, StateInFacts
  <2> QED BY <1>1, <1>3, <2>1, StateInPrefix
<1> HIDE DEF c
<1>5. cache[p] # c
  BY <1>1, <1>2, <1>4
<1> QED BY <1>5 DEF c, n

\* Steps of the resync, and the end of a recovery, keep the evictions right.
LEMMA EvictResync ==
  ASSUME TypeOK, EvictInv, Recovered \/ ResyncBegins \/ EvictStep
  PROVE  EvictInv'
<1> USE DEF cluster
<1>0. "resync" \in Relisters /\ "recover" \in Relisters
  BY DEF Relisters
<1>1. CASE Recovered
  <2>1. relist'["resync"] = relist["resync"]
    BY <1>0, <1>1, RelistEffect DEF Recovered
  <2> QED BY <1>1, <2>1, EvictFrame DEF Recovered
<1>2. CASE ResyncBegins
  <2>0. relist'["resync"] = [NoRelist EXCEPT !.pc = "list", !.pre = Cached]
    BY <1>0, <1>2, RelistEffect DEF ResyncBegins
  <2>1. relist'["resync"].pc = "list"
    BY <2>0 DEF NoRelist
  <2> QED BY <2>1 DEF EvictInv, ListIsNewer, VictimsOutdated
<1>3. CASE PickVictims
  <2>1. Relist("resync", [NoRelist EXCEPT !.pc = "evict", !.todo = Victims])
        /\ log' = log /\ cache' = cache /\ Applied("resync")
    BY <1>3 DEF PickVictims
  <2>2. relist'["resync"] = [NoRelist EXCEPT !.pc = "evict", !.todo = Victims]
    BY <1>0, <2>1, RelistEffect
  <2>3. relist'["resync"].pc = "evict" /\ relist'["resync"].todo = Victims
    BY <2>2 DEF NoRelist
  <2> QED BY <2>1, <2>3, VictimIsOutdated DEF EvictInv, ListIsNewer, VictimsOutdated
<1>4. ASSUME NEW p \in Pods, Evict(p) PROVE EvictInv'
  <2>1. Relist("resync", [relist["resync"] EXCEPT !.todo = relist["resync"].todo \ {p}])
        /\ log' = log /\ Delete(p)
    BY <1>4 DEF Evict
  <2>2. relist'["resync"] = [relist["resync"] EXCEPT !.todo = relist["resync"].todo \ {p}]
    BY <1>0, <2>1, RelistEffect
  <2>3. /\ relist'["resync"].pc = relist["resync"].pc
        /\ relist'["resync"].snap = relist["resync"].snap
        /\ relist'["resync"].todo = relist["resync"].todo \ {p}
        /\ relist'["resync"].fresh = relist["resync"].fresh
    BY <1>0, <2>2, RelistTypes DEF Relists
  <2>4. \A q \in Pods : cache'[q] = cache[q] \/ cache'[q] = 0
    BY <2>1 DEF Delete, TypeOK
  <2> QED BY <2>1, <2>3, <2>4, EvictFrame
<1>5. CASE ResyncEnds
  <2>1. relist'["resync"].pc = "idle"
    BY <1>0, <1>5, RelistEffect DEF ResyncEnds, NoRelist
  <2> QED BY <2>1 DEF EvictInv, ListIsNewer, VictimsOutdated
<1> QED BY <1>1, <1>2, <1>3, <1>4, <1>5 DEF EvictStep

\* What the resync relies on holds initially and is kept by every step.
LEMMA EvictStepInv == TypeOK /\ EvictInv /\ [Next]_vars => EvictInv'
<1>1. ASSUME TypeOK, EvictInv, Next PROVE EvictInv'
  BY <1>1, EvictCluster, EvictSession, EvictRelist, EvictResync DEF Next
<1> QED BY <1>1, EvictCluster
\* However watch events, relists and reads overlap with it, the resync never has
\* a victim in hand that shows its pod as it is and was not written since it was
\* picked.
THEOREM VictimsStayOutdated == Spec => []EvictInv
<1>1. Init => EvictInv
  BY DEF Init, EvictInv, ListIsNewer, VictimsOutdated, NoRelist, Relisters
<1> QED BY <1>1, EvictStepInv, TypeCorrect, PTL DEF Spec

\* The resync evicts no entry that shows the pod as it is, except one written
\* after the victims were picked (the eviction guards of _relist_snapshot; its
\* comments deny the exception, but the code has it).
THEOREM EvictionsAreRight == Spec => EvictedIsOutdated
<1>1. EvictInv => [\A p \in Evicted :
       cache[p] # StateAt(Version, p) \/ cache[p] = 0 \/ p \in relist["resync"].fresh]_relist
  BY DEF EvictInv, VictimsOutdated, Evicted
<1> QED BY <1>1, VictimsStayOutdated, PTL DEF EvictedIsOutdated

-----------------------------------------------------------------------------
(***************************************************************************)
(* The stream.                                                             *)
(***************************************************************************)

\* What the stream relies on.  An entry names a change of its own pod, a pod
\* still to be announced is announced as it was when the session opened, and a
\* session in the middle of a deletion is at one.
EntriesAreReal ==
  /\ \A p \in Cached : log[cache[p]].pod = p
  /\ \A p \in Pods : session.adds[p] # 0 =>
       session.pc = "stream" /\ session.from = None /\ session.adds[p] = StateAt(session.at, p)
  /\ session.pc = "delete" => ~log[session.at + 1].alive

\* The cache shows every pod as of the first n changes of the log, or later; if
\* there was a gap, pods that are gone may be left.
Exact(c, l, n, gap) ==
  \A p \in Pods : c[p] # 0 /\ c[p] <= n =>
    c[p] = StateIn(l, n, p) \/ (gap /\ StateIn(l, n, p) = 0)

Gap == floor # 0

Untroubled == ~resync /\ errors = 0

\* While a relist after a 410 applies its LIST, only pods it has not yet dealt
\* with may be out of date, and it has written none of those.
RecoveryInv ==
  LET r == relist["recover"]
  IN  /\ Gap
      /\ r.pc \in {"list", "apply"}
      /\ r.todo \cap r.fresh = {} /\ r.todo \cap r.next = {} /\ \A p, q \in r.next : p = q
      /\ r.pc = "list" => r.fresh = {} /\ r.next = {}
      /\ r.pc = "apply" =>
           \A p \in Pods \ (r.todo \cup r.next) :
             cache[p] \in {0, StateAt(r.snap, p)} \/ StateAt(r.snap, p) = 0

\* Until the first trouble the version the session would be resumed at is one
\* the cache is exact up to.
StreamInv ==
  Untroubled =>
    /\ relist["resync"].pc = "idle"
    /\ IF session.pc = "relist" THEN RecoveryInv ELSE relist["recover"].pc = "idle"
    /\ session.last = None /\ session.pc \in {"connect", "stream"} => Cached = {}
    /\ session.pc = "connect" =>
         /\ session.last = session.from
         /\ session.from # None => Exact(cache, log, session.from, Gap)
    /\ session.pc \in {"stream", "delete"} =>
         /\ session.last # None => session.last <= session.at
         /\ session.from # None => session.last = session.at
         /\ Exact(cache, log, session.at, Gap /\ session.from # None)

\* A cache that is exact up to a version is exact up to every earlier one: that
\* is why a session may be resumed further back.
LEMMA ExactEarlier ==
  ASSUME TypeOK, NEW n \in 0 .. Len(log), NEW m \in 0 .. n, Exact(cache, log, n, FALSE)
  PROVE  Exact(cache, log, m, FALSE)
<1> SUFFICES ASSUME NEW p \in Pods, cache[p] # 0, cache[p] <= m
             PROVE  cache[p] = StateIn(log, m, p)
  BY DEF Exact
<1>1. n \in Nat /\ cache[p] \in Nat
  BY DEF TypeOK
<1>2. cache[p] = StateIn(log, n, p)
  BY <1>1 DEF Exact
<1> QED BY <1>1, <1>2, StateInPrefix

\* What is exact without a gap is exact with one.
LEMMA ExactWeaker ==
  ASSUME NEW n, NEW g \in BOOLEAN, NEW h \in BOOLEAN, g => h, Exact(cache, log, n, g)
  PROVE  Exact(cache, log, n, h)
BY DEF Exact

\* The next event brings the cache to the next version.
LEMMA ExactNext ==
  ASSUME TypeOK, EntriesAreReal, NEW n \in 0 .. Len(log) - 1, NEW g \in BOOLEAN,
         Exact(cache, log, n, g),
         IF log[n + 1].alive THEN Upsert(log[n + 1].pod, n + 1) ELSE Delete(log[n + 1].pod)
  PROVE  Exact(cache', log, n + 1, g)
<1> SUFFICES ASSUME NEW p \in Pods, cache'[p] # 0, cache'[p] <= n + 1
             PROVE  cache'[p] = StateIn(log, n + 1, p) \/ (g /\ StateIn(log, n + 1, p) = 0)
  BY DEF Exact
<1>1. n \in Nat /\ cache \in [Pods -> Nat]
  BY DEF TypeOK
<1>2. CASE log[n + 1].pod = p
  <2>1. log[n + 1].alive => cache'[p] = n + 1
    BY <1>1, <1>2 DEF Upsert
  <2>2. ~log[n + 1].alive => cache'[p] = 0
    BY <1>1, <1>2 DEF Delete
  <2> QED BY <1>1, <1>2, <2>1, <2>2, StateInNext
<1>3. CASE log[n + 1].pod # p
  <2>1. cache'[p] = cache[p]
    BY <1>1, <1>3 DEF Upsert, Delete
  <2>2. cache[p] # n + 1
    BY <1>3, <2>1 DEF EntriesAreReal, Cached
  <2>3. cache[p] <= n
    BY <1>1, <2>1, <2>2
  <2>4. cache[p] = StateIn(log, n, p) \/ (g /\ StateIn(log, n, p) = 0)
    BY <2>1, <2>3 DEF Exact
  <2>5. StateIn(log, n + 1, p) = StateIn(log, n, p)
    BY <1>1, <1>3, StateInNext
  <2> QED BY <2>1, <2>4, <2>5
<1> QED BY <1>2, <1>3

\* An entry that is ahead of a version does not count at it.
LEMMA ExactAhead ==
  ASSUME TypeOK, NEW n \in Nat, NEW g \in BOOLEAN, Exact(cache, log, n, g),
         NEW p \in Pods, Upsert(p, n + 1)
  PROVE  Exact(cache', log, n, g)
BY DEF Exact, Upsert, TypeOK

\* An announced pod enters the cache as it was when the session opened.
LEMMA ExactAdd ==
  ASSUME TypeOK, NEW n \in 0 .. Len(log), NEW g \in BOOLEAN, Exact(cache, log, n, g),
         NEW p \in Pods, Upsert(p, StateIn(log, n, p))
  PROVE  Exact(cache', log, n, g)
BY DEF Exact, Upsert, TypeOK

\* Dropping entries leaves the rest exact.
LEMMA ExactDrop ==
  ASSUME NEW n, NEW g \in BOOLEAN, Exact(cache, log, n, g),
         \A p \in Pods : cache'[p] = cache[p] \/ cache'[p] = 0
  PROVE  Exact(cache', log, n, g)
BY DEF Exact

\* A step that writes real entries, or deletes, and announces nothing new.
LEMMA RealFrame ==
  ASSUME EntriesAreReal, log' = log,
         session'.pc = "delete" => ~log[session'.at + 1].alive,
         \A p \in Pods : cache'[p] = cache[p] \/ cache'[p] = 0 \/ log[cache'[p]].pod = p,
         \/ \A p \in Pods : session'.adds[p] = 0
         \/ /\ session'.pc = session.pc /\ session'.at = session.at /\ session'.from = session.from
            /\ \A p \in Pods : session'.adds[p] = session.adds[p] \/ session'.adds[p] = 0
         \/ /\ session'.pc = "stream" /\ session'.from = None
            /\ \A p \in Pods : session'.adds[p] = StateIn(log, session'.at, p)
  PROVE  EntriesAreReal'
BY DEF EntriesAreReal, Cached

\* A new session starts with nothing announced.
LEMMA ConnectingFields ==
  ASSUME NEW from
  PROVE  /\ Connecting(from).pc = "connect"
         /\ Connecting(from).from = from /\ Connecting(from).last = from
         /\ Connecting(from).adds = NoAdds
         /\ \A p \in Pods : Connecting(from).adds[p] = 0
BY DEF Connecting, NoAdds
\* The fields of a session after each of its steps.
LEMMA SessionFields ==
  ASSUME TypeOK
  PROVE  /\ SessionOpens =>
              /\ session'.pc = "stream" /\ session'.last = session.last
              /\ session'.from = session.from
              /\ session'.at = IF session.from = None THEN Len(log) ELSE session.from
              /\ session'.adds = IF session.from = None
                                 THEN [p \in Pods |-> StateIn(log, Len(log), p)] ELSE NoAdds
         /\ SessionTooOld => /\ session'.pc = "relist" /\ session'.adds = NoAdds
                             /\ session'.last = session.last
         /\ (SessionEvent /\ log[session.at + 1].alive) \/ SessionDeletes =>
              /\ session'.pc = "stream" /\ session'.at = session.at + 1
              /\ session'.from = session.from
              /\ session'.last = session.at + 1 /\ session'.adds = session.adds
         /\ SessionEvent /\ ~log[session.at + 1].alive =>
              /\ session'.pc = "delete" /\ session'.at = session.at
              /\ session'.from = session.from
              /\ session'.last = session.last /\ session'.adds = session.adds
         /\ \A p \in Pods : SessionAdds(p) =>
              /\ session'.pc = "stream" /\ session'.at = session.at
              /\ session'.from = session.from
              /\ session'.last = session.adds[p]
              /\ session'.adds = [session.adds EXCEPT ![p] = 0]
<1>0. session \in Sessions(Len(log))
  BY DEF TypeOK
<1>1. ASSUME SessionOpens
      PROVE  /\ session'.pc = "stream" /\ session'.last = session.last
             /\ session'.from = session.from
             /\ session'.at = IF session.from = None THEN Len(log) ELSE session.from
             /\ session'.adds = IF session.from = None
                                THEN [p \in Pods |-> StateIn(log, Len(log), p)] ELSE NoAdds
  <2> DEFINE at == IF session.from = None THEN Len(log) ELSE session.from
             adds == IF session.from = None THEN [p \in Pods |-> StateIn(log, Len(log), p)]
                                            ELSE NoAdds
  <2>1. session' = [session EXCEPT !.pc = "stream", !.at = at, !.adds = adds]
    BY <1>1 DEF SessionOpens
  <2> HIDE DEF at, adds
  <2>2. session'.pc = "stream" /\ session'.last = session.last /\ session'.from = session.from
        /\ session'.at = at /\ session'.adds = adds
    BY <1>0, <2>1 DEF Sessions
  <2> QED BY <2>2 DEF at, adds
<1>2. ASSUME SessionTooOld
      PROVE  /\ session'.pc = "relist" /\ session'.adds = NoAdds
             /\ session'.last = session.last
  BY <1>0, <1>2 DEF SessionTooOld, Sessions
<1>3. ASSUME (SessionEvent /\ log[session.at + 1].alive) \/ SessionDeletes
      PROVE  /\ session'.pc = "stream" /\ session'.at = session.at + 1
             /\ session'.from = session.from
             /\ session'.last = session.at + 1 /\ session'.adds = session.adds
  <2> DEFINE n == session.at + 1
  <2>1. session' = [session EXCEPT !.pc = "stream", !.at = n, !.last = n]
    <3>1. CASE SessionDeletes
      BY <3>1 DEF SessionDeletes
    <3>2. CASE SessionEvent /\ log[session.at + 1].alive
      <4>1. session.pc = "stream" /\ session' = [session EXCEPT !.at = n, !.last = n]
        BY <3>2 DEF SessionEvent
      <4> HIDE DEF n
      <4> QED BY <1>0, <4>1 DEF Sessions
    <3> QED BY <1>3, <3>1, <3>2
  <2> HIDE DEF n
  <2>2. session'.pc = "stream" /\ session'.at = n /\ session'.last = n
        /\ session'.adds = session.adds /\ session'.from = session.from
    BY <1>0, <2>1 DEF Sessions
  <2> QED BY <2>2 DEF n
<1>5. ASSUME SessionEvent /\ ~log[session.at + 1].alive
      PROVE  /\ session'.pc = "delete" /\ session'.at = session.at
             /\ session'.from = session.from
             /\ session'.last = session.last /\ session'.adds = session.adds
  <2>1. session' = [session EXCEPT !.pc = "delete"]
    BY <1>5 DEF SessionEvent
  <2> QED BY <1>0, <2>1 DEF Sessions
<1>4. ASSUME NEW p \in Pods, SessionAdds(p)
      PROVE  /\ session'.pc = "stream" /\ session'.at = session.at
             /\ session'.from = session.from
             /\ session'.last = session.adds[p]
             /\ session'.adds = [session.adds EXCEPT ![p] = 0]
  <2> DEFINE adds == [session.adds EXCEPT ![p] = 0]
             last == session.adds[p]
  <2>1. session' = [session EXCEPT !.last = last, !.adds = adds] /\ session.pc = "stream"
    BY <1>4 DEF SessionAdds
  <2> HIDE DEF adds, last
  <2>2. session'.pc = "stream" /\ session'.at = session.at /\ session'.last = last
        /\ session'.adds = adds /\ session'.from = session.from
    BY <1>0, <2>1 DEF Sessions
  <2> QED BY <2>2 DEF adds, last
<1> QED BY <1>1, <1>2, <1>3, <1>4, <1>5

\* What a session event does, spelled out.
LEMMA EventFacts ==
  ASSUME TypeOK, SessionEvent \/ SessionDeletes
  PROVE  /\ session.at \in 0 .. Len(log) - 1 /\ log' = log /\ floor' = floor
         /\ log[session.at + 1].pod \in Pods
         /\ SessionEvent => /\ Upsert(log[session.at + 1].pod, session.at + 1)
                            /\ Stamped(log[session.at + 1].pod)
                            /\ session.pc = "stream" /\ session.adds = NoAdds
         /\ SessionDeletes => Delete(log[session.at + 1].pod) /\ relist' = relist
                              /\ session.pc = "delete"
<1>1. session.at < Len(log) /\ log' = log /\ floor' = floor
  BY DEF SessionEvent, SessionDeletes, cluster, TypeOK
<1>2. session.at \in 0 .. Len(log) /\ Len(log) \in Nat
  BY DEF TypeOK, Sessions
<1>3. session.at \in 0 .. Len(log) - 1 /\ session.at + 1 \in 1 .. Len(log)
  BY <1>1, <1>2
<1>4. log[session.at + 1] \in [pod : Pods, alive : BOOLEAN]
  BY <1>3, ElementOfSeq DEF TypeOK
<1>5. SessionEvent => /\ Upsert(log[session.at + 1].pod, session.at + 1)
                      /\ Stamped(log[session.at + 1].pod)
                      /\ session.pc = "stream" /\ session.adds = NoAdds
  BY DEF SessionEvent
<1>6. SessionDeletes => Delete(log[session.at + 1].pod) /\ relist' = relist
                        /\ session.pc = "delete"
  BY DEF SessionDeletes
<1> QED BY <1>1, <1>3, <1>4, <1>5, <1>6

\* Every step of the session keeps the entries real.
LEMMA RealSession ==
  ASSUME TypeOK, EntriesAreReal, SessionStep \/ SessionEnds \/ SessionBreaks
  PROVE  EntriesAreReal'
<1> USE DEF cluster
<1>1. CASE SessionOpens
  <2>1. log' = log /\ cache' = cache /\ session'.pc = "stream"
    BY <1>1, SessionFields DEF SessionOpens
  <2>2. CASE session.from = None
    <3>1. session'.pc = "stream" /\ session'.from = None
          /\ \A p \in Pods : session'.adds[p] = StateIn(log, session'.at, p)
      BY <1>1, <2>2, SessionFields
    <3> QED BY <2>1, <3>1, RealFrame
  <2>3. CASE session.from # None
    <3>1. \A p \in Pods : session'.adds[p] = 0
      BY <1>1, <2>3, SessionFields DEF NoAdds
    <3> QED BY <2>1, <3>1, RealFrame
  <2> QED BY <2>2, <2>3
<1>2. CASE SessionTooOld
  <2>1. log' = log /\ cache' = cache
    BY <1>2 DEF SessionTooOld
  <2>2. session'.pc = "relist" /\ \A p \in Pods : session'.adds[p] = 0
    BY <1>2, SessionFields DEF NoAdds
  <2> QED BY <2>1, <2>2, RealFrame
<1>3. CASE SessionEvent \/ SessionDeletes
  <2>1. \A p \in Pods : session.adds[p] = 0
    BY <1>3, EventFacts DEF NoAdds, EntriesAreReal
  <2>2. session'.adds = session.adds /\ (session'.pc = "delete" => ~log[session'.at + 1].alive)
    BY <1>3, SessionFields
  <2>3. log' = log /\ \A p \in Pods : cache'[p] = cache[p] \/ cache'[p] = 0 \/ log[cache'[p]].pod = p
    BY <1>3, EventFacts DEF Upsert, Delete, TypeOK
  <2> QED BY <2>1, <2>2, <2>3, RealFrame
<1>4. ASSUME NEW p \in Pods, SessionAdds(p) PROVE EntriesAreReal'
  <2>1. log' = log /\ session.adds[p] # 0 /\ Upsert(p, session.adds[p]) /\ session.pc = "stream"
    BY <1>4 DEF SessionAdds
  <2>2. session.adds[p] = StateIn(log, session.at, p) /\ session.at \in Nat
    BY <2>1 DEF EntriesAreReal, TypeOK, Sessions
  <2>3. log[session.adds[p]].pod = p
    BY <2>1, <2>2, StateInFacts DEF IsState
  <2>4. \A q \in Pods : cache'[q] = cache[q] \/ log[cache'[q]].pod = q
    BY <2>1, <2>3 DEF Upsert, TypeOK
  <2>5. session'.pc = session.pc /\ session'.at = session.at /\ session'.from = session.from
        /\ session'.adds = [session.adds EXCEPT ![p] = 0]
    BY <1>4, <2>1, SessionFields
  <2>6. \A q \in Pods : session'.adds[q] = session.adds[q] \/ session'.adds[q] = 0
    BY <2>5 DEF TypeOK, Sessions
  <2> QED BY <2>1, <2>4, <2>5, <2>6, RealFrame
<1>5. CASE SessionEnds
  <2>1. session'.pc = "connect" /\ \A p \in Pods : session'.adds[p] = 0
    BY <1>5, ConnectingFields DEF SessionEnds
  <2> QED BY <1>5, <2>1, RealFrame DEF SessionEnds
<1>6. CASE SessionBreaks
  <2>1. session'.pc = "connect" /\ \A p \in Pods : session'.adds[p] = 0
    BY <1>6, ConnectingFields DEF SessionBreaks
  <2> QED BY <1>6, <2>1, RealFrame DEF SessionBreaks
<1> QED BY <1>1, <1>2, <1>3, <1>4, <1>5, <1>6 DEF SessionStep

\* So does every other step.
LEMMA RealOthers ==
  ASSUME TypeOK, EntriesAreReal,
         \/ \E p \in Pods, alive \in BOOLEAN : Change(p, alive)
         \/ Compact
         \/ \E k \in Relisters : RelistStep(k) \/ ListFails(k)
         \/ Recovered \/ ResyncBegins \/ EvictStep
         \/ (\E p \in Pods : Age(p)) \/ Read
         \/ UNCHANGED vars
  PROVE  EntriesAreReal'
<1> USE DEF cluster
<1>1. ASSUME NEW p \in Pods, NEW alive \in BOOLEAN, Change(p, alive) PROVE EntriesAreReal'
  <2>1. cache' = cache /\ session' = session
    BY <1>1 DEF Change
  <2>2. \A q \in Pods : /\ cache[q] \in 0 .. Len(log)
                        /\ session.at \in 0 .. Len(log)
    BY DEF TypeOK, Sessions
  <2>3. \A i \in 1 .. Len(log) : log'[i] = log[i]
    BY <1>1, Grows
  <2>4. \A n \in 0 .. Len(log) : \A q : StateIn(log', n, q) = StateIn(log, n, q)
    BY <1>1, Grows
  <2>5. session.pc = "delete" => session.at + 1 \in 1 .. Len(log)
    BY DEF TypeOK, Sessions
  <2> QED BY <2>1, <2>2, <2>3, <2>4, <2>5 DEF EntriesAreReal, Cached
<1>2. CASE Compact
  BY <1>2, RealFrame DEF Compact, EntriesAreReal
<1>3. ASSUME NEW k \in Relisters, List(k) PROVE EntriesAreReal'
  BY <1>3, RealFrame DEF List, EntriesAreReal
<1>4. ASSUME NEW k \in Relisters, NEW p \in Pods, Check(k, p) PROVE EntriesAreReal'
  BY <1>4, RealFrame DEF Check, EntriesAreReal
<1>5. ASSUME NEW k \in Relisters, NEW p \in Pods, Overwrite(k, p) PROVE EntriesAreReal'
  <2> DEFINE c == StateIn(log, relist[k].snap, p)
  <2>1. log' = log /\ Upsert(p, c) /\ session' = session
    BY <1>5 DEF Overwrite
  <2>2. c = 0 \/ log[c].pod = p
    BY RelistTypes, StateInFacts DEF IsState, Relists
  <2> HIDE DEF c
  <2>3. \A q \in Pods : cache'[q] = cache[q] \/ cache'[q] = 0 \/ log[cache'[q]].pod = q
    BY <2>1, <2>2 DEF Upsert, TypeOK
  <2> QED BY <2>1, <2>3, RealFrame DEF EntriesAreReal
<1>6. ASSUME NEW k \in Relisters, ListFails(k) PROVE EntriesAreReal'
  <2>1. \/ session' = session
        \/ session'.pc = "connect" /\ \A p \in Pods : session'.adds[p] = 0
    BY <1>6, ConnectingFields DEF ListFails
  <2> QED BY <1>6, <2>1, RealFrame DEF ListFails, EntriesAreReal
<1>7. CASE Recovered
  <2>1. session'.pc = "connect" /\ \A p \in Pods : session'.adds[p] = 0
    BY <1>7, ConnectingFields DEF Recovered
  <2> QED BY <1>7, <2>1, RealFrame DEF Recovered
<1>8. CASE ResyncBegins
  BY <1>8, RealFrame DEF ResyncBegins, EntriesAreReal
<1>9. CASE EvictStep
  <2>1. log' = log /\ session' = session /\ \A p \in Pods : cache'[p] = cache[p] \/ cache'[p] = 0
    BY <1>9 DEF EvictStep, PickVictims, Evict, ResyncEnds, Delete, TypeOK
  <2> QED BY <2>1, RealFrame DEF EntriesAreReal
<1>10. ASSUME NEW p \in Pods, Age(p) PROVE EntriesAreReal'
  BY <1>10, RealFrame DEF Age, EntriesAreReal
<1>11. CASE Read
  BY <1>11, ReadFacts, RealFrame DEF EntriesAreReal
<1>12. CASE UNCHANGED vars
  BY <1>12, RealFrame DEF vars, EntriesAreReal
<1> QED BY <1>1, <1>2, <1>3, <1>4, <1>5, <1>6, <1>7, <1>8, <1>9, <1>10, <1>11, <1>12
        DEF RelistStep
\* Troubles are not forgotten: before an untroubled state there was no trouble.
LEMMA TroubleStays ==
  ASSUME TypeOK, [Next]_vars, Untroubled'
  PROVE  Untroubled
<1> USE DEF cluster
<1>0. errors \in Nat
  BY BoundsAssumption DEF TypeOK
<1>1. resync' = resync /\ (errors' = errors \/ errors' = errors + 1)
  <2>1. CASE \E p \in Pods, alive \in BOOLEAN : Change(p, alive)
    BY <2>1 DEF Change
  <2>2. CASE Compact
    BY <2>2 DEF Compact
  <2>3. CASE SessionStep \/ SessionEnds \/ SessionBreaks
    BY <2>3 DEF SessionStep, SessionOpens, SessionTooOld, SessionEvent, SessionDeletes, SessionAdds,
       SessionEnds, SessionBreaks
  <2>4. CASE \E k \in Relisters : RelistStep(k) \/ ListFails(k)
    BY <2>4 DEF RelistStep, List, Check, Overwrite, ListFails
  <2>5. CASE Recovered \/ ResyncBegins \/ EvictStep
    BY <2>5 DEF Recovered, ResyncBegins, EvictStep, PickVictims, Evict, ResyncEnds
  <2>6. CASE (\E p \in Pods : Age(p)) \/ Read
    BY <2>6, ReadFacts DEF Age
  <2>7. CASE UNCHANGED vars
    BY <2>7 DEF vars
  <2> QED BY <2>1, <2>2, <2>3, <2>4, <2>5, <2>6, <2>7 DEF Next
<1> QED BY <1>0, <1>1 DEF Untroubled

\* Steps of the session hand on a version the cache is exact up to.
LEMMA StreamSession ==
  ASSUME TypeOK, EntriesAreReal, StreamInv, Untroubled, Untroubled',
         SessionStep \/ SessionEnds \/ SessionBreaks
  PROVE  StreamInv'
<1> USE DEF cluster
<1>0. /\ Len(log) \in Nat /\ session.at \in 0 .. Len(log) /\ floor \in Nat
      /\ session.from \in (0 .. Len(log)) \cup {None} /\ session.last \in (0 .. Len(log)) \cup {None}
      /\ relist["resync"].pc = "idle" /\ Relisters = {"recover", "resync"}
      /\ session.pc # "relist" => relist["recover"].pc = "idle"
      /\ (session.last = None /\ session.pc \in {"connect", "stream"} => Cached = {})
  BY DEF TypeOK, Sessions, StreamInv, Relisters
<1>1. CASE SessionOpens
  <2>1. log' = log /\ cache' = cache /\ relist' = relist /\ floor' = floor /\ session.pc = "connect"
    BY <1>1 DEF SessionOpens
  <2>2. session'.pc = "stream" /\ session'.last = session.last /\ session'.from = session.from
        /\ session'.at = IF session.from = None THEN Len(log) ELSE session.from
    BY <1>1, SessionFields
  <2>3. session.last = session.from /\ (session.from # None => Exact(cache, log, session.from, Gap))
    BY <2>1 DEF StreamInv
  <2>4. CASE session.from = None
    <3>1. Cached = {}
      BY <1>0, <2>1, <2>3, <2>4
    <3>2. Exact(cache, log, session'.at, FALSE)
      BY <3>1 DEF Exact, Cached
    <3> QED BY <1>0, <2>1, <2>2, <2>3, <2>4, <3>1, <3>2 DEF StreamInv, Cached, Gap
  <2>5. CASE session.from # None
    <3>1. Exact(cache, log, session.from, Gap /\ session.from # None)
      BY <2>3, <2>5 DEF Exact
    <3> QED BY <1>0, <2>1, <2>2, <2>3, <2>5, <3>1 DEF StreamInv, Cached, Gap
  <2> QED BY <2>4, <2>5
<1>2. CASE SessionTooOld
  <2>1. /\ (session.pc = "connect" /\ TooOld(session.from)) \/ session.at < floor
        /\ cache' = cache /\ log' = log /\ floor' = floor
        /\ relist' = [relist EXCEPT !["recover"] = [NoRelist EXCEPT !.pc = "list"]]
    BY <1>2 DEF SessionTooOld
  <2>2. Gap'
    BY <1>0, <2>1 DEF TooOld, Gap
  <2>3. relist'["recover"] = [NoRelist EXCEPT !.pc = "list"] /\ relist'["resync"] = relist["resync"]
    BY <1>0, <2>1 DEF TypeOK
  <2>4. /\ relist'["recover"].pc = "list" /\ relist'["recover"].todo = {}
        /\ relist'["recover"].fresh = {} /\ relist'["recover"].next = {}
    BY <2>3 DEF NoRelist
  <2>5. session'.pc = "relist" /\ session'.last = session.last
    BY <1>2, SessionFields
  <2>6. RecoveryInv'
    BY <2>2, <2>4, <2>5 DEF RecoveryInv
  <2> QED BY <1>0, <2>1, <2>3, <2>5, <2>6 DEF StreamInv, Cached
<1>3. CASE SessionEvent \/ SessionDeletes
  <2> DEFINE g == Gap /\ session.from # None
             n == session.at
  <2>1. session.pc \in {"stream", "delete"} /\ n \in Nat
    BY <1>0, <1>3, EventFacts
  <2>2. Exact(cache, log, n, g) /\ g \in BOOLEAN
    BY <2>1 DEF StreamInv
  <2>3. \A k \in Relisters : relist'[k].pc = relist[k].pc
    BY <1>3, EventFacts, StampFacts DEF Stamped
  <2>4. n + 1 # None
    BY <1>0, NoneAssumption
  <2>5. CASE SessionEvent /\ ~log[n + 1].alive
    <3>1. session'.pc = "delete" /\ session'.at = n /\ session'.last = session.last
          /\ session'.from = session.from
      BY <2>5, SessionFields
    <3>2. Exact(cache', log, n, g)
      <4> HIDE DEF g, n
      <4>1. Upsert(log[n + 1].pod, n + 1) /\ log[n + 1].pod \in Pods
        BY <2>5, EventFacts DEF n
      <4> QED BY <2>1, <2>2, <4>1, ExactAhead
    <3> QED BY <1>0, <2>1, <2>3, <2>5, <3>1, <3>2, EventFacts DEF StreamInv, Gap
  <2>6. CASE (SessionEvent /\ log[n + 1].alive) \/ SessionDeletes
    <3>1. session'.pc = "stream" /\ session'.at = n + 1 /\ session'.last = n + 1
          /\ session'.from = session.from
      BY <2>6, SessionFields
    <3>2. IF log[n + 1].alive THEN Upsert(log[n + 1].pod, n + 1) ELSE Delete(log[n + 1].pod)
      BY <2>6, EventFacts DEF EntriesAreReal
    <3>3. Exact(cache', log, n + 1, g)
      <4>1. n \in 0 .. Len(log) - 1
        BY <2>6, EventFacts
      <4> HIDE DEF g, n
      <4> QED BY <2>2, <3>2, <4>1, ExactNext
    <3>4. log' = log /\ floor' = floor
      BY <2>6, EventFacts
    <3> QED BY <1>0, <2>1, <2>3, <2>4, <3>1, <3>3, <3>4 DEF StreamInv, Gap
  <2> QED BY <1>3, <2>5, <2>6
<1>4. ASSUME NEW p \in Pods, SessionAdds(p) PROVE StreamInv'
  <2>1. session.pc = "stream" /\ session.adds[p] # 0 /\ Upsert(p, session.adds[p])
        /\ Stamped(p) /\ log' = log /\ floor' = floor
    BY <1>4 DEF SessionAdds
  <2>2. session'.pc = "stream" /\ session'.at = session.at /\ session'.last = session.adds[p]
        /\ session'.from = session.from
    BY <1>4, SessionFields
  <2>3. session.adds[p] = StateIn(log, session.at, p) /\ session.from = None
    BY <2>1 DEF EntriesAreReal
  <2>4. session.adds[p] \in 0 .. session.at
    <3>1. session.at \in Nat
      BY <1>0
    <3>2. StateIn(log, session.at, p) \in 0 .. session.at
      BY <3>1, StateInFacts
    <3> QED BY <2>3, <3>2
  <2>5. Exact(cache', log', session.at, FALSE)
    <3>1. Exact(cache, log, session.at, FALSE)
      BY <2>1, <2>3 DEF StreamInv
    <3> QED BY <1>0, <2>1, <2>3, <3>1, ExactAdd
  <2>6. \A k \in Relisters : relist'[k].pc = relist[k].pc
    BY <2>1, StampFacts DEF Stamped
  <2>7. session.adds[p] # None
    BY <1>0, <2>4, NoneAssumption
  <2>8. Exact(cache', log', session.at, Gap' /\ session.from # None)
    BY <2>5 DEF Exact
  <2> QED BY <1>0, <2>1, <2>2, <2>3, <2>4, <2>6, <2>7, <2>8 DEF StreamInv
<1>5. CASE SessionEnds
  <2>1. session.pc = "stream" /\ session' = Connecting(session.last) /\ log' = log /\ cache' = cache
        /\ relist' = relist /\ floor' = floor
    BY <1>5 DEF SessionEnds
  <2>2. session'.pc = "connect" /\ session'.from = session.last /\ session'.last = session.last
    BY <2>1, ConnectingFields
  <2>3. Exact(cache, log, session.at, Gap /\ session.from # None)
    BY <2>1 DEF StreamInv
  <2>4. session.last # None => Exact(cache, log, session.last, Gap)
    <3>1. CASE session.from # None
      <4>1. session.last = session.at
        BY <2>1, <3>1 DEF StreamInv
      <4> QED BY <2>3, <3>1, <4>1 DEF Exact
    <3>2. CASE session.from = None /\ session.last # None
      <4>1. session.last \in 0 .. session.at
        BY <1>0, <2>1, <3>2 DEF StreamInv
      <4>2. Exact(cache, log, session.at, FALSE)
        BY <2>3, <3>2
      <4>3. Exact(cache, log, session.last, FALSE)
        BY <1>0, <4>1, <4>2, ExactEarlier
      <4> QED BY <4>3, ExactWeaker DEF Gap
    <3> QED BY <3>1, <3>2
  <2> QED BY <1>0, <2>1, <2>2, <2>4 DEF StreamInv, Cached, Gap
<1>6. CASE SessionBreaks
  BY <1>6, BoundsAssumption DEF SessionBreaks, Untroubled, TypeOK
<1> QED BY <1>1, <1>2, <1>3, <1>4, <1>5, <1>6 DEF SessionStep

\* So do the steps of the relist after a 410: when it is through, the cache is
\* exact up to the version of its LIST but for pods that are gone.
LEMMA StreamRecovery ==
  ASSUME TypeOK, StreamInv, Untroubled, Untroubled',
         \/ \E k \in Relisters : RelistStep(k) \/ ListFails(k)
         \/ Recovered \/ ResyncBegins \/ EvictStep
  PROVE  StreamInv'
<1> USE DEF cluster
<1> DEFINE r == relist["recover"]
           v == relist'["recover"]
<1>0. /\ Len(log) \in Nat /\ r \in Relists(Len(log)) /\ Relisters = {"recover", "resync"}
      /\ relist["resync"].pc = "idle"
      /\ r.pc # "idle" => session.pc = "relist" /\ RecoveryInv
  BY RelistTypes DEF TypeOK, Relisters, StreamInv
<1>1. CASE List("recover")
  <2>1. r.pc = "list" /\ log' = log /\ cache' = cache /\ session' = session /\ floor' = floor
        /\ Relist("recover", [r EXCEPT !.pc = "apply", !.snap = Len(log), !.todo = Running(Len(log))])
    BY <1>1 DEF List
  <2>2. v = [r EXCEPT !.pc = "apply", !.snap = Len(log), !.todo = Running(Len(log))]
        /\ relist'["resync"] = relist["resync"]
    BY <1>0, <2>1, RelistEffect
  <2>3. v.pc = "apply" /\ v.snap = Len(log) /\ v.todo = Running(Len(log))
        /\ v.fresh = r.fresh /\ v.next = r.next
    BY <1>0, <2>2 DEF Relists
  <2>4. RecoveryInv'
    BY <1>0, <2>1, <2>3 DEF RecoveryInv, Running, Gap
  <2> QED BY <1>0, <2>1, <2>2, <2>4 DEF StreamInv, Cached
<1>2. ASSUME NEW p \in Pods, Check("recover", p) PROVE StreamInv'
  <2> DEFINE next == IF p \in Cached /\ p \in r.fresh THEN {} ELSE {p}
             todo == r.todo \ {p}
  <2>1. r.pc = "apply" /\ r.next = {} /\ p \in r.todo
        /\ log' = log /\ cache' = cache /\ session' = session /\ floor' = floor
        /\ Relist("recover", [r EXCEPT !.todo = todo, !.next = next])
    BY <1>2 DEF Check
  <2>2. RecoveryInv
    BY <1>0, <2>1
  <2>3. next = {p}
    BY <2>1, <2>2 DEF RecoveryInv
  <2>4. todo = r.todo \ {p}
    OBVIOUS
  <2> HIDE DEF todo, next
  <2>5. v = [r EXCEPT !.todo = todo, !.next = next] /\ relist'["resync"] = relist["resync"]
    BY <1>0, <2>1, RelistEffect
  <2>6. v.pc = "apply" /\ v.snap = r.snap /\ v.todo = todo /\ v.fresh = r.fresh /\ v.next = next
    BY <1>0, <2>1, <2>5 DEF Relists
  <2>7. RecoveryInv'
    BY <2>1, <2>2, <2>3, <2>4, <2>6 DEF RecoveryInv, Gap
  <2> QED BY <1>0, <2>1, <2>5, <2>7 DEF StreamInv, Cached
<1>3. ASSUME NEW p \in Pods, Overwrite("recover", p) PROVE StreamInv'
  <2> DEFINE w == [Stamp("recover", p) EXCEPT !.next = {}]
             c == StateIn(log, r.snap, p)
  <2>1. r.pc = "apply" /\ p \in r.next /\ log' = log /\ session' = session /\ floor' = floor
        /\ Upsert(p, c)
        /\ relist' = [j \in Relisters |-> IF j = "recover" THEN w ELSE Stamp(j, p)]
    BY <1>3 DEF Overwrite
  <2>2. RecoveryInv
    BY <1>0, <2>1
  <2>3. Stamp("recover", p) \in Relists(Len(log))
    BY <1>0, StampFacts
  <2>4. w.next = {} /\ w.pc = Stamp("recover", p).pc /\ w.snap = Stamp("recover", p).snap
        /\ w.todo = Stamp("recover", p).todo /\ w.fresh = Stamp("recover", p).fresh
    BY <2>3 DEF Relists
  <2> HIDE DEF w
  <2>5. v = w /\ relist'["resync"] = Stamp("resync", p)
    BY <1>0, <2>1
  <2>6. v.pc = "apply" /\ v.snap = r.snap /\ v.todo = r.todo /\ v.next = {}
        /\ v.fresh = r.fresh \cup {p} /\ relist'["resync"].pc = "idle"
    BY <1>0, <2>1, <2>4, <2>5, StampFacts
  <2>7. cache'[p] = c /\ \A q \in Pods : q # p => cache'[q] = cache[q]
    BY <2>1 DEF Upsert, TypeOK
  <2>8. r.todo \cap (r.fresh \cup {p}) = {} /\ \A q \in r.next : q = p
    BY <2>1, <2>2 DEF RecoveryInv
  <2>9. \A q \in Pods \ r.todo : cache'[q] \in {0, StateIn(log, r.snap, q)}
                                 \/ StateIn(log, r.snap, q) = 0
    BY <2>1, <2>2, <2>7, <2>8 DEF RecoveryInv
  <2>10. RecoveryInv'
    BY <2>1, <2>2, <2>6, <2>8, <2>9 DEF RecoveryInv, Gap
  <2> QED BY <1>0, <2>1, <2>2, <2>6, <2>10 DEF StreamInv, RecoveryInv
<1>4. ASSUME NEW k \in Relisters, ListFails(k) PROVE StreamInv'
  BY <1>4, BoundsAssumption DEF ListFails, Untroubled, TypeOK
<1>5. ASSUME RelistStep("resync") PROVE FALSE
  BY <1>0, <1>5 DEF RelistStep, List, Check, Overwrite
<1>6. CASE Recovered
  <2>1. Applied("recover") /\ Relist("recover", NoRelist) /\ session' = Connecting(r.snap)
        /\ log' = log /\ cache' = cache /\ floor' = floor
    BY <1>6 DEF Recovered
  <2>2. RecoveryInv /\ r.pc = "apply" /\ r.todo = {} /\ r.next = {}
    BY <1>0, <2>1 DEF Applied
  <2>3. Exact(cache, log, r.snap, Gap)
    BY <2>2 DEF RecoveryInv, Exact
  <2>4. r.snap \in Nat /\ r.snap # None
    BY <1>0, NoneAssumption DEF Relists
  <2>5. v.pc = "idle" /\ relist'["resync"] = relist["resync"]
    BY <1>0, <2>1, RelistEffect DEF NoRelist
  <2>6. session'.pc = "connect" /\ session'.from = r.snap /\ session'.last = r.snap
    BY <2>1, ConnectingFields
  <2> QED BY <1>0, <2>1, <2>3, <2>4, <2>5, <2>6 DEF StreamInv, Gap
<1>7. CASE ResyncBegins \/ EvictStep
  BY <1>0, <1>7 DEF ResyncBegins, Untroubled, EvictStep, PickVictims, Evict, ResyncEnds, Applied
<1> QED BY <1>0, <1>1, <1>2, <1>3, <1>4, <1>5, <1>6, <1>7 DEF RelistStep

\* No other step disturbs what the session would resume at.
LEMMA StreamOthers ==
  ASSUME TypeOK, StreamInv, Untroubled, Untroubled',
         \/ \E p \in Pods, alive \in BOOLEAN : Change(p, alive)
         \/ Compact
         \/ (\E p \in Pods : Age(p)) \/ Read
         \/ UNCHANGED vars
  PROVE  StreamInv'
<1> USE DEF cluster
<1>0. /\ relist["resync"].pc = "idle"
      /\ session.at \in 0 .. Len(log) /\ session.from \in (0 .. Len(log)) \cup {None}
      /\ relist["recover"].snap \in 0 .. Len(log)
  BY RelistTypes DEF StreamInv, TypeOK, Sessions, Relisters, Relists
<1>1. ASSUME NEW p \in Pods, NEW alive \in BOOLEAN, Change(p, alive) PROVE StreamInv'
  <2>1. cache' = cache /\ session' = session /\ relist' = relist /\ floor' = floor
    BY <1>1 DEF Change
  <2>2. \A n \in 0 .. Len(log) : \A q : StateIn(log', n, q) = StateIn(log, n, q)
    BY <1>1, Grows
  <2>3. \A n \in 0 .. Len(log), g \in BOOLEAN : Exact(cache, log, n, g) => Exact(cache, log', n, g)
    BY <2>2 DEF Exact
  <2>4. RecoveryInv => RecoveryInv'
    BY <1>0, <2>1, <2>2 DEF RecoveryInv, Gap
  <2> QED BY <1>0, <2>1, <2>3, <2>4 DEF StreamInv, Cached, Gap
<1>2. CASE Compact
  <2>1. cache' = cache /\ log' = log /\ session' = session /\ relist' = relist /\ floor < floor'
    BY <1>2 DEF Compact
  <2>2. Gap'
    BY <2>1 DEF Gap, TypeOK
  <2>3. \A n : /\ Exact(cache, log, n, Gap) => Exact(cache, log, n, Gap')
               /\ Exact(cache, log, n, Gap /\ session.from # None) =>
                    Exact(cache, log, n, Gap' /\ session.from # None)
    BY <2>2 DEF Exact
  <2>4. RecoveryInv => RecoveryInv'
    BY <2>1, <2>2 DEF RecoveryInv
  <2> QED BY <1>0, <2>1, <2>3, <2>4 DEF StreamInv, Cached
<1>3. ASSUME NEW p \in Pods, Age(p) PROVE StreamInv'
  BY <1>3 DEF Age, StreamInv, Untroubled, Cached, RecoveryInv, Gap
<1>4. CASE Read
  <2>1. log' = log /\ session' = session /\ relist' = relist /\ floor' = floor
        /\ \A p \in Pods : cache'[p] = cache[p] \/ cache'[p] = 0
    BY <1>4, ReadFacts
  <2>2. \A n : \A g \in BOOLEAN : Exact(cache, log, n, g) => Exact(cache', log, n, g)
    BY <2>1 DEF Exact
  <2>3. Cached = {} => Cached' = {}
    BY <2>1 DEF Cached
  <2>4. RecoveryInv => RecoveryInv'
    BY <2>1 DEF RecoveryInv, Gap
  <2> QED BY <1>0, <2>1, <2>2, <2>3, <2>4 DEF StreamInv, Gap
<1>5. CASE UNCHANGED vars
  BY <1>5 DEF vars, StreamInv, Untroubled, Cached, RecoveryInv, Gap
<1> QED BY <1>1, <1>2, <1>3, <1>4, <1>5

\* Both parts of the stream's invariant are inductive, given the types.
LEMMA StreamStep ==
  TypeOK /\ EntriesAreReal /\ StreamInv /\ [Next]_vars => (EntriesAreReal /\ StreamInv)'
<1> SUFFICES ASSUME TypeOK, EntriesAreReal, StreamInv, [Next]_vars
             PROVE  EntriesAreReal' /\ StreamInv'
  OBVIOUS
<1>1. EntriesAreReal'
  BY RealSession, RealOthers DEF Next
<1>2. CASE Untroubled'
  <2>1. Untroubled
    BY <1>2, TroubleStays
  <2> QED BY <1>1, <1>2, <2>1, StreamSession, StreamRecovery, StreamOthers DEF Next
<1>3. CASE ~Untroubled'
  BY <1>1, <1>3 DEF StreamInv
<1> QED BY <1>2, <1>3

\* The cache never shows one pod's change as another's, and until a session breaks
\* or a resync runs, the version each session is resumed at, and the LIST each
\* relist hands over, is one the cache is exact up to.
THEOREM ResumedWhereExact == Spec => [](EntriesAreReal /\ StreamInv)
<1>1. Init => EntriesAreReal /\ StreamInv
  <2> SUFFICES ASSUME Init PROVE EntriesAreReal /\ StreamInv
    OBVIOUS
  <2>1. Cached = {} /\ \A k \in Relisters : relist[k].pc = "idle"
    BY DEF Init, Cached, NoRelist
  <2>2. session.pc = "connect" /\ session.from = None /\ session.last = None
        /\ \A p \in Pods : session.adds[p] = 0
    BY ConnectingFields DEF Init
  <2> QED BY <2>1, <2>2 DEF EntriesAreReal, StreamInv, Relisters
<1> QED BY <1>1, StreamStep, TypeCorrect, PTL DEF Spec

\* As long as no session breaks and no resync runs, the cache shows every pod as
\* of the point the stream has reached, or later, over any number of sessions and
\* of relists after a 410 (the version K8sWatcher._run hands on); a gap can leave
\* behind only pods that are gone.
THEOREM StreamExact == Spec => []StreamIsExact
<1>1. StreamInv => StreamIsExact
  BY DEF StreamInv, StreamIsExact, Untroubled, Exact, Cached, Gap
<1> QED BY <1>1, ResumedWhereExact, PTL
=============================================================================
