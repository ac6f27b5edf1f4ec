-------------------------- MODULE MetaCache_proofs --------------------------
(***************************************************************************)
(* For any number of goroutines, types and columns, and any hash: a scan   *)
(* gets its own plan from metaCache as long as the Mappers in use agree on *)
(* the names of each type.  The key does not hold the Mapper, and the      *)
(* hypothesis cannot be dropped: MCMetaCacheMappers is a counterexample.   *)
(***************************************************************************)
EXTENDS MetaCache, TLAPS

MappersAgree == \A m \in Mappers, n \in Mappers, t \in Types : Names[m][t] = Names[n][t]

(* An entry is the plan of every call it can serve. *)
EntriesInv ==
    \A r \in Requests : Matches(metaCache[Key(r)], r) =>
        /\ metaCache[Key(r)].meta = Plan(r)
        /\ Plan(r) # Missing

(* A goroutine past the build holds the plan of its own call. *)
ProcInv ==
    \A p \in Procs :
        /\ pc[p] = "store" => meta[p] = Plan(req[p]) /\ meta[p] # Missing
        /\ pc[p] = "done" => meta[p] = Plan(req[p])

IInv == TypeOK /\ EntriesInv /\ ProcInv

-----------------------------------------------------------------------------
(* buildMeta either reports a column or returns a plan of its columns. *)
LEMMA PlanType ==
    ASSUME NEW r \in Requests
    PROVE  Plan(r) \in Plans \cup {Missing}
<1> DEFINE names == Names[r.mapper][r.t]
           plan == [i \in DOMAIN r.columns |->
                      IF r.columns[i] \in DOMAIN names THEN names[r.columns[i]] ELSE Discard]
<1>1. r.columns \in Cols /\ r.mapper \in Mappers /\ r.t \in Types
  BY DEF Requests
<1>2. \A n \in DOMAIN names : names[n] \in Fields
  BY <1>1, NamesAssumption
<1>3. plan \in [DOMAIN r.columns -> Fields \cup {Discard}]
  BY <1>2
<1>4. plan \in Plans
  BY <1>1, <1>3 DEF Plans
<1>5. QED
  BY <1>4 DEF Plan

(* The plan of a call does not depend on which of the Mappers made it. *)
LEMMA PlanOfKey ==
    ASSUME MappersAgree, NEW r \in Requests, NEW s \in Requests,
           Key(r) = Key(s), r.columns = s.columns
    PROVE  Plan(r) = Plan(s)
<1>1. r.t = s.t /\ r.isUnsafe = s.isUnsafe
  BY DEF Key
<1>2. Names[r.mapper][r.t] = Names[s.mapper][s.t]
  BY <1>1 DEF MappersAgree, Requests
<1>3. QED
  BY <1>1, <1>2 DEF Plan

(* The cache starts empty; there is a call to make. *)
LEMMA InitInv == ASSUME Requests # {} PROVE Init => IInv
<1>1. NoRequest \in Requests
  BY DEF NoRequest
<1>2. QED
  BY <1>1 DEF Init, IInv, TypeOK, PCs, EntriesInv, Matches, ProcInv, Keys

(* One goroutine's step keeps the entries right. *)
LEMMA StepInv ==
    ASSUME MappersAgree, Requests # {}, IInv, NEW p \in Procs,
           Step(p) \/ \E r \in Requests : Call(p, r)
    PROVE  IInv'
<1> USE DEF IInv, TypeOK, PCs, Goto
<1>1. ASSUME NEW r \in Requests, Call(p, r) PROVE IInv'
  BY <1>1 DEF Call, EntriesInv, ProcInv
<1>2. CASE Load(p)
  <2>1. /\ Matches(metaCache[Key(req[p])], req[p]) =>
              /\ metaCache[Key(req[p])] \in Entries
              /\ metaCache[Key(req[p])].meta = Plan(req[p])
        /\ UNCHANGED <<metaCache, req>>
    BY <1>2 DEF Load, EntriesInv, Matches, Keys
  <2>2. Plan(req[p]) \in Plans \cup {Missing}
    BY PlanType
  <2>3. TypeOK'
    BY <1>2, <2>1, <2>2 DEF Load
  <2>4. EntriesInv'
    BY <2>1 DEF EntriesInv
  <2>5. ProcInv'
    BY <1>2, <2>1 DEF Load, ProcInv
  <2>6. QED
    BY <2>3, <2>4, <2>5
<1>3. CASE Build(p)
  <2>1. Plan(req[p]) \in Plans \cup {Missing}
    BY PlanType
  <2>2. QED
    BY <1>3, <2>1 DEF Build, EntriesInv, ProcInv
<1>4. CASE Store(p)
  <2> DEFINE e == [columns |-> req[p].columns, meta |-> meta[p]]
  <2>1. meta[p] = Plan(req[p]) /\ meta[p] # Missing /\ req[p] \in Requests
    BY <1>4 DEF Store, ProcInv
  <2>2. e \in Entries /\ Key(req[p]) \in Keys
    BY <2>1, PlanType DEF Entries, Requests, Keys
  <2>3. TypeOK'
    BY <1>4, <2>2 DEF Store
  <2>4. EntriesInv'
    <3> SUFFICES ASSUME NEW r \in Requests, Matches(metaCache'[Key(r)], r)
                 PROVE  metaCache'[Key(r)].meta = Plan(r) /\ Plan(r) # Missing
      BY DEF EntriesInv
    <3>1. CASE Key(r) = Key(req[p])
      <4>1. metaCache'[Key(r)] = e
        BY <1>4, <2>2, <3>1 DEF Store
      <4>2. Plan(r) = Plan(req[p])
        BY <2>1, <3>1, <4>1, PlanOfKey DEF Matches
      <4>3. QED
        BY <2>1, <4>1, <4>2
    <3>2. CASE Key(r) # Key(req[p])
      BY <1>4, <3>2 DEF Store, EntriesInv, Keys
    <3>3. QED
      BY <3>1, <3>2
  <2>5. ProcInv'
    BY <1>4 DEF Store, ProcInv
  <2>6. QED
    BY <2>3, <2>4, <2>5
<1>5. CASE Return(p)
  <2>1. NoRequest \in Requests
    BY DEF NoRequest
  <2>2. QED
    BY <1>5, <2>1 DEF Return, EntriesInv, ProcInv
<1>6. QED
  BY <1>1, <1>2, <1>3, <1>4, <1>5 DEF Step

(* Only plans are cached and only plans, or Missing, are returned: this    *)
(* needs no agreement of the Mappers.                                      *)
THEOREM TypeCorrect ==
    ASSUME Requests # {}
    PROVE  Spec => []TypeOK
<1> DEFINE Built == \A p \in Procs : pc[p] = "store" => meta[p] \in Plans
<1>1. Init => TypeOK /\ Built
  <2>1. NoRequest \in Requests
    BY DEF NoRequest
  <2>2. QED
    BY <2>1 DEF Init, TypeOK, PCs
<1>2. TypeOK /\ Built /\ [Next]_vars => TypeOK' /\ Built'
  <2>1. ASSUME TypeOK, Built, UNCHANGED vars PROVE TypeOK' /\ Built'
    BY <2>1 DEF vars, TypeOK
  <2>2. ASSUME TypeOK, Built, NEW p \in Procs, Step(p) \/ \E r \in Requests : Call(p, r)
        PROVE  TypeOK' /\ Built'
    <3> USE <2>2 DEF TypeOK, PCs, Goto
    <3>1. ASSUME NEW r \in Requests, Call(p, r) PROVE TypeOK' /\ Built'
      BY <3>1 DEF Call
    <3>2. CASE Load(p)
      <4>1. Matches(metaCache[Key(req[p])], req[p]) => metaCache[Key(req[p])] \in Entries
        BY DEF Matches, Keys
      <4>2. Matches(metaCache[Key(req[p])], req[p]) => metaCache[Key(req[p])].meta \in Plans
        BY <4>1 DEF Entries
      <4>3. QED
        BY <3>2, <4>2 DEF Load
    <3>3. CASE Build(p)
      BY <3>3, PlanType DEF Build
    <3>4. CASE Store(p)
      <4> DEFINE e == [columns |-> req[p].columns, meta |-> meta[p]]
      <4>1. e \in Entries /\ Key(req[p]) \in Keys
        BY <3>4 DEF Store, Entries, Requests, Keys
      <4>2. QED
        BY <3>4, <4>1 DEF Store
    <3>5. CASE Return(p)
      <4>1. NoRequest \in Requests
        BY DEF NoRequest
      <4>2. QED
        BY <3>5, <4>1 DEF Return
    <3>6. QED
      BY <3>1, <3>2, <3>3, <3>4, <3>5 DEF Step
  <2>3. QED
    BY <2>1, <2>2 DEF Next
<1>3. QED
  BY <1>1, <1>2, PTL DEF Spec

(* Whatever is cached, replaced or collides, a scan gets its own plan. *)
THEOREM PlansAreRight ==
    ASSUME MappersAgree, Requests # {}
    PROVE  Spec => [](TypeOK /\ PlanIsForThisScan)
<1>1. IInv /\ [Next]_vars => IInv'
  <2>1. ASSUME IInv, UNCHANGED vars PROVE IInv'
    BY <2>1 DEF vars, IInv, TypeOK, EntriesInv, ProcInv
  <2>2. QED
    BY <2>1, StepInv DEF Next
<1>2. IInv => TypeOK /\ PlanIsForThisScan
  BY DEF IInv, ProcInv, PlanIsForThisScan
<1>3. QED
  BY InitInv, <1>1, <1>2, PTL DEF Spec
=============================================================================
