------------------------ MODULE TypeMapCache_proofs ------------------------
(***************************************************************************)
(* For any number of goroutines and types: a type is mapped once, callers  *)
(* leave with the cached map, and the cache implements TypeMapOnce.        *)
(***************************************************************************)
EXTENDS TypeMapCache, TLAPS

(* p runs inside its singleflight call. *)
Inside(p) == pc[p] \in {"recheck", "map", "store", "release"}

(* The key in flight names its leader, and only a leader runs inside. *)
LeaderInv ==
    /\ \A p \in Procs : Inside(p) => flight[SfKey(want[p])] = p
    /\ \A t \in Types : flight[SfKey(t)] \in Procs =>
          /\ Inside(flight[SfKey(t)])
          /\ want[flight[SfKey(t)]] = t

(* The cache and the count of maps agree, but for a map not stored yet. *)
CacheInv ==
    \A t \in Types :
       /\ cache[t] # NoMap => t \notin Unmappable /\ built[t] = 1 /\ cache[t] = Pointer(t, 1)
       /\ cache[t] = NoMap /\ built[t] # 0 =>
             \E p \in Procs : pc[p] = "store" /\ want[p] = t

(* What a goroutine knows at the steps that matter. *)
ProcInv ==
    \A p \in Procs :
       /\ pc[p] = "map" => cache[want[p]] = NoMap
       /\ pc[p] = "store" => /\ want[p] \notin Unmappable
                             /\ cache[want[p]] = NoMap
                             /\ built[want[p]] = 1
                             /\ result[p] = Pointer(want[p], 1)
       /\ pc[p] \in {"release", "done"} =>
             IF want[p] \in Unmappable
             THEN result[p] = Panic
             ELSE result[p] = cache[want[p]] /\ cache[want[p]] # NoMap

IInv == TypeOK /\ LeaderInv /\ CacheInv /\ ProcInv

-----------------------------------------------------------------------------
(* Two types never share a singleflight key, even when they share a name. *)
LEMMA KeysDistinct ==
    ASSUME NEW t \in Types, NEW u \in Types, SfKey(t) = SfKey(u)
    PROVE  t = u
  BY DEF SfKey

(* Only one goroutine at a time is inside the flight of a type. *)
LEMMA OneLeader ==
    ASSUME LeaderInv, NEW p \in Procs, NEW q \in Procs,
           Inside(p), Inside(q), want[p] = want[q]
    PROVE  p = q
  BY DEF LeaderInv

(* The invariant holds of a new Mapper. *)
LEMMA InitInv == Init => IInv
  BY DistinctAssumption
  DEF Init, IInv, TypeOK, PCs, Keys, LeaderInv, CacheInv, ProcInv, Inside

(* Every step of a goroutine keeps the variables in their types. *)
LEMMA StepTypes ==
    ASSUME IInv, NEW p \in Procs,
           Step(p) \/ \E t \in Types : Call(p, t)
    PROVE  TypeOK'
<1> USE DEF IInv, TypeOK, PCs, Goto
<1>1. ASSUME NEW t \in Types, Call(p, t) PROVE TypeOK'
  BY <1>1 DEF Call
<1>2. CASE Load(p)
  BY <1>2 DEF Load
<1>3. CASE Join(p)
  BY <1>3 DEF Join, Keys
<1>4. CASE Recheck(p)
  BY <1>4 DEF Recheck
<1>5. CASE MapType(p)
  BY <1>5 DEF MapType, Pointer, Maps
<1>6. CASE Store(p)
  <2>1. result[p] \in Maps
    BY <1>6 DEF Store, ProcInv, Pointer, Maps
  <2>2. QED
    BY <1>6, <2>1 DEF Store
<1>7. CASE Release(p)
  BY <1>7 DEF Release, Keys
<1>8. CASE Return(p)
  BY <1>8 DEF Return
<1>9. QED
  BY <1>1, <1>2, <1>3, <1>4, <1>5, <1>6, <1>7, <1>8 DEF Step

(* The flights change hands only in Join and Release. *)
LEMMA StepLeader ==
    ASSUME IInv, NEW p \in Procs,
           Step(p) \/ \E t \in Types : Call(p, t)
    PROVE  LeaderInv'
<1> USE DEF IInv, TypeOK, PCs, Keys, LeaderInv, Inside, Goto
<1>1. ASSUME NEW t \in Types, Call(p, t) PROVE LeaderInv'
  BY <1>1 DEF Call, SfKey
<1>2. CASE Load(p)
  BY <1>2 DEF Load
<1>3. CASE Join(p)
  BY <1>3, KeysDistinct, DistinctAssumption DEF Join
<1>4. CASE Recheck(p)
  BY <1>4 DEF Recheck
<1>5. CASE MapType(p)
  BY <1>5 DEF MapType
<1>6. CASE Store(p)
  BY <1>6 DEF Store
<1>7. CASE Release(p)
  BY <1>7, KeysDistinct, DistinctAssumption DEF Release
<1>8. CASE Return(p)
  BY <1>8 DEF Return
<1>9. QED
  BY <1>1, <1>2, <1>3, <1>4, <1>5, <1>6, <1>7, <1>8 DEF Step

(* A map is counted when it is made and published once. *)
LEMMA StepCache ==
    ASSUME IInv, NEW p \in Procs,
           Step(p) \/ \E t \in Types : Call(p, t)
    PROVE  CacheInv'
<1> USE DEF IInv, TypeOK, PCs, CacheInv, Goto
<1>1. ASSUME NEW t \in Types, Call(p, t) PROVE CacheInv'
  BY <1>1 DEF Call
<1>2. CASE Load(p)
  BY <1>2 DEF Load
<1>3. CASE Join(p)
  BY <1>3 DEF Join
<1>4. CASE Recheck(p)
  BY <1>4 DEF Recheck
<1>5. CASE MapType(p)
  BY <1>5 DEF MapType, ProcInv
<1>6. CASE Store(p)
  <2>1. cache' = [cache EXCEPT ![want[p]] = Pointer(want[p], 1)]
    BY <1>6 DEF Store, ProcInv
  <2>2. Pointer(want[p], 1) # NoMap
    BY DistinctAssumption DEF Pointer, Maps
  <2>3. want[p] \notin Unmappable /\ built[want[p]] = 1
    BY <1>6 DEF Store, ProcInv
  <2>4. UNCHANGED <<built, want>> /\ \A q \in Procs \ {p} : pc'[q] = pc[q]
    BY <1>6 DEF Store
  <2>5. QED
    BY <2>1, <2>2, <2>3, <2>4
<1>7. CASE Release(p)
  BY <1>7 DEF Release
<1>8. CASE Return(p)
  BY <1>8 DEF Return
<1>9. QED
  BY <1>1, <1>2, <1>3, <1>4, <1>5, <1>6, <1>7, <1>8 DEF Step

(* What a goroutine knows stays true while the others run: it is the sole  *)
(* leader of its type, and a published map stays.                          *)
LEMMA StepProc ==
    ASSUME IInv, NEW p \in Procs,
           Step(p) \/ \E t \in Types : Call(p, t)
    PROVE  ProcInv'
<1> USE DEF IInv, TypeOK, PCs, ProcInv, Goto
<1>1. ASSUME NEW t \in Types, Call(p, t) PROVE ProcInv'
  BY <1>1 DEF Call
<1>2. CASE Load(p)
  BY <1>2 DEF Load, CacheInv
<1>3. CASE Join(p)
  BY <1>3 DEF Join
<1>4. CASE Recheck(p)
  BY <1>4 DEF Recheck, CacheInv
<1>5. CASE MapType(p)
  <2>1. built[want[p]] = 0
    BY <1>5, OneLeader DEF MapType, CacheInv, Inside
  <2>2. \A q \in Procs \ {p} : pc[q] \in {"map", "store"} => want[q] # want[p]
    BY <1>5, OneLeader DEF MapType, Inside
  <2>3. QED
    BY <1>5, <2>1, <2>2 DEF MapType
<1>6. CASE Store(p)
  <2>1. \A q \in Procs \ {p} : pc[q] \in {"map", "store"} => want[q] # want[p]
    BY <1>6, OneLeader DEF Store, Inside
  <2>2. Pointer(want[p], 1) # NoMap
    BY DistinctAssumption DEF Pointer, Maps
  <2>3. QED
    BY <1>6, <2>1, <2>2 DEF Store
<1>7. CASE Release(p)
  <2>1. \A q \in Procs : SfKey(want[q]) = SfKey(want[p]) => want[q] = want[p]
    BY KeysDistinct
  <2>2. QED
    BY <1>7, <2>1 DEF Release
<1>8. CASE Return(p)
  BY <1>8 DEF Return
<1>9. QED
  BY <1>1, <1>2, <1>3, <1>4, <1>5, <1>6, <1>7, <1>8 DEF Step

(* The inductive invariant. *)
THEOREM Invariance == Spec => []IInv
<1>1. IInv /\ [Next]_vars => IInv'
  <2>1. ASSUME IInv, Next PROVE IInv'
    BY <2>1, StepTypes, StepLeader, StepCache, StepProc DEF Next, IInv
  <2>2. ASSUME IInv, UNCHANGED vars PROVE IInv'
    BY <2>2 DEF vars, IInv, TypeOK, LeaderInv, CacheInv, ProcInv, Inside
  <2>3. QED
    BY <2>1, <2>2
<1>2. QED
  BY InitInv, <1>1, PTL DEF Spec

(* Type correctness of every variable of the cache and its callers. *)
THEOREM TypeCorrect == Spec => []TypeOK
  BY Invariance, PTL DEF IInv

(* However many goroutines stampede, mapType makes a type's map once. *)
THEOREM StampedeMapsOnce == Spec => []MappedOnce
<1>1. IInv => MappedOnce
  <2> SUFFICES ASSUME IInv, NEW t \in Types PROVE built[t] <= 1
    BY DEF MappedOnce
  <2>1. CASE cache[t] # NoMap
    BY <2>1 DEF IInv, CacheInv
  <2>2. CASE cache[t] = NoMap
    BY <2>2 DEF IInv, CacheInv, ProcInv, TypeOK
  <2>3. QED
    BY <2>1, <2>2
<1>2. QED
  BY Invariance, <1>1, PTL

(* A caller of TypeMap leaves with the cached map of its own type. *)
THEOREM AnswersAgree == Spec => []AnswerIsTheCachedMap
<1>1. IInv => AnswerIsTheCachedMap
  BY DEF IInv, TypeOK, CacheInv, ProcInv, AnswerIsTheCachedMap, Pointer
<1>2. QED
  BY Invariance, <1>1, PTL

(* A published map is never replaced by a later Store. *)
THEOREM NeverReplaced == Spec => PublishedForGood
<1>1. ASSUME IInv, [Next]_vars
      PROVE  \A t \in Types : cache[t] # NoMap => cache'[t] = cache[t]
  <2>1. ASSUME NEW p \in Procs, Store(p)
        PROVE  \A t \in Types : cache[t] # NoMap => cache'[t] = cache[t]
    BY <1>1, <2>1 DEF Store, IInv, TypeOK, ProcInv
  <2>2. ASSUME NEW p \in Procs,
               \/ Load(p) \/ Join(p) \/ Recheck(p) \/ MapType(p)
               \/ Release(p) \/ Return(p) \/ \E t \in Types : Call(p, t)
        PROVE  UNCHANGED cache
    BY <2>2 DEF Load, Join, Recheck, MapType, Release, Return, Call
  <2>3. QED
    BY <1>1, <2>1, <2>2 DEF Next, Step, vars
<1>2. QED
  BY Invariance, <1>1, PTL DEF Spec, PublishedForGood

-----------------------------------------------------------------------------
(* The cache implements TypeMapOnce.  A fast-path hit tells one caller,    *)
(* Store makes the map, the end of a flight tells the leader and all the   *)
(* waiters at once; Join, the recheck and mapType change nothing there.    *)
LEMMA OnceInit == Init => Once!Init
  BY DEF Init, Once!Init

LEMMA OnceStep == IInv /\ [Next]_vars => [Once!Next]_(Once!vars)
<1> SUFFICES ASSUME IInv, [Next]_vars PROVE [Once!Next]_(Once!vars)
  OBVIOUS
<1> USE DEF IInv, TypeOK, Goto
<1>1. ASSUME NEW p \in Procs, NEW t \in Types, Call(p, t) PROVE Once!Ask(p, t)
  BY <1>1 DEF Call, Once!Ask
<1>2. ASSUME NEW p \in Procs, Load(p) PROVE [Once!Next]_(Once!vars)
  <2>1. CASE cache[want[p]] = NoMap
    BY <1>2, <2>1 DEF Load, Once!vars
  <2>2. CASE cache[want[p]] # NoMap
    <3>1. want[p] \notin Unmappable
      BY <2>2 DEF CacheInv
    <3>2. Once!Tell(want[p], {p})
      BY <1>2, <2>2, <3>1 DEF Load, Once!Tell
    <3>3. QED
      BY <3>2 DEF Once!Next
  <2>3. QED
    BY <2>1, <2>2
<1>3. ASSUME NEW p \in Procs, Join(p) \/ Recheck(p) \/ MapType(p)
      PROVE  UNCHANGED Once!vars
  BY <1>3 DEF Join, Recheck, MapType, Once!vars
<1>4. ASSUME NEW p \in Procs, Store(p) PROVE Once!Make(want[p])
  <2>1. Pointer(want[p], 1) = Once!Pointer(want[p], 1)
    BY DEF Pointer, Once!Pointer
  <2>2. cache[want[p]] = NoMap /\ want[p] \notin Unmappable
    BY <1>4 DEF Store, ProcInv
  <2>3. cache' = [cache EXCEPT ![want[p]] = Pointer(want[p], 1)]
    BY <1>4 DEF Store, ProcInv
  <2>4. \A q \in Procs : (pc'[q] = "idle" <=> pc[q] = "idle")
                         /\ (pc'[q] = "done" <=> pc[q] = "done")
    BY <1>4 DEF Store
  <2>5. UNCHANGED <<want, result>>
    BY <1>4 DEF Store
  <2>6. QED
    BY <2>1, <2>2, <2>3, <2>4, <2>5 DEF Once!Make
<1>5. ASSUME NEW p \in Procs, Release(p) PROVE Once!Next
  <2> DEFINE t == want[p]
             S == {p} \cup {q \in Procs : pc[q] = "wait" /\ SfKey(want[q]) = SfKey(t)}
  <2>1. \A q \in S : q \in Procs /\ want[q] = t /\ pc[q] \in {"wait", "release"}
    BY <1>5, KeysDistinct DEF Release
  <2>2. result[p] = IF t \in Unmappable THEN Panic ELSE cache[t]
    BY <1>5 DEF Release, ProcInv
  <2>3. t \in Unmappable \/ cache[t] # NoMap
    BY <1>5 DEF Release, ProcInv
  <2>4. /\ result' = [q \in Procs |-> IF q \in S THEN result[p] ELSE result[q]]
        /\ pc' = [q \in Procs |-> IF q \in S THEN "done" ELSE pc[q]]
        /\ UNCHANGED <<cache, want>>
    BY <1>5 DEF Release
  <2> HIDE DEF t, S
  <2>5. Once!Tell(t, S)
    <3>1. S # {} /\ \A q \in S : /\ IF pc[q] = "idle" THEN FALSE ELSE {want[q]} = {t}
                                  /\ pc[q] # "done"
      BY <2>1 DEF S
    <3>2. \A q \in Procs :
             (IF pc'[q] = "done" THEN result'[q] ELSE NoMap)
               = (IF q \in S THEN IF t \in Unmappable THEN Panic ELSE cache[t]
                             ELSE IF pc[q] = "done" THEN result[q] ELSE NoMap)
      BY <2>2, <2>4
    <3>3. \A q \in Procs : (pc'[q] = "idle") <=> (pc[q] = "idle")
      BY <2>1, <2>4
    <3>4. QED
      BY <2>1, <2>3, <2>4, <3>1, <3>2, <3>3 DEF Once!Tell
  <2>6. t \in Types /\ S \in SUBSET Procs
    BY <2>1 DEF t
  <2>7. \E u \in Types, R \in SUBSET Procs : Once!Tell(u, R)
    BY <2>5, <2>6, Zenon DEF Once!Tell
  <2>8. QED
    BY <2>7 DEF Once!Next
<1>6. ASSUME NEW p \in Procs, Return(p) PROVE Once!Leave(p)
  <2>1. result[p] # NoMap
    BY <1>6, DistinctAssumption DEF Return, ProcInv
  <2>2. QED
    BY <1>6, <2>1 DEF Return, Once!Leave
<1>7. CASE UNCHANGED vars
  BY <1>7 DEF vars, Once!vars
<1>8. CASE Next
  BY <1>8, <1>1, <1>2, <1>3, <1>4, <1>5, <1>6 DEF Next, Step, Once!Next
<1>9. QED
  BY <1>7, <1>8

(* Every behaviour of the cache is one the promise allows. *)
THEOREM Refinement == Spec => ImplementsOnce
  BY Invariance, OnceInit, OnceStep, PTL DEF Spec, ImplementsOnce, Once!Spec
============================================================================
