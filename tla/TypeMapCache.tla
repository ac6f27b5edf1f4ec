---------------------------- MODULE TypeMapCache ----------------------------
(***************************************************************************)
(* Mapper.TypeMap (internal/reflectx/reflectx.go): a sync.Map cache in     *)
(* front of mapType, with one singleflight group per bucket so that a      *)
(* stampede of goroutines maps a type once.                                *)
(*                                                                         *)
(* Each step is one synchronised operation of the code: the first Load,    *)
(* entering singleflight.Do (under the group's mutex), the second Load     *)
(* inside the flight, mapType, Store, and the end of the flight (under the *)
(* group's mutex: the key is deleted and the waiters are released).        *)
(***************************************************************************)
EXTENDS Naturals

CONSTANTS
    Procs,        \* goroutines that call TypeMap on one Mapper
    Types,        \* struct types; a *T argument is dereferenced to T first
    TypeName,     \* TypeName[t] is t.String(); two types may share a name
    Unmappable,   \* types with an untagged field under a Mapper without mapFunc
    NoMap, Panic, NoProc

ASSUME UnmappableAssumption == Unmappable \subseteq Types

(* A *StructMap is known by its identity: the type it maps and which of    *)
(* the allocations for that type it is.                                    *)
Maps == [type : Types, alloc : Nat]

ASSUME DistinctAssumption ==
    /\ NoProc \notin Procs
    /\ NoMap # Panic
    /\ NoMap \notin Maps
    /\ Panic \notin Maps

VARIABLES
    cache,    \* Mapper.cache: type -> *StructMap or NoMap
    flight,   \* the keys in flight in the singleflight groups: key -> leader
    pc,       \* where each goroutine is in TypeMap
    want,     \* want[p]: the type p asked for
    result,   \* result[p]: the *StructMap (or Panic) p holds
    built     \* built[t]: how many times mapType has returned a map of t

vars == <<cache, flight, pc, want, result, built>>

Pointer(t, n) == [type |-> t, alloc |-> n]

(* The singleflight key of a type: its name and the address of its type    *)
(* descriptor, which is the type itself.  The bucket is a function of the  *)
(* name, hence of the key, so the 256 groups together are one map of keys. *)
SfKeyNameOnly(t) == <<TypeName[t]>>
SfKey(t) == <<TypeName[t], t>>

Keys == {SfKey(t) : t \in Types}

PCs == {"idle", "load", "join", "wait", "recheck", "map", "store", "release", "done"}

Init ==
    /\ cache = [t \in Types |-> NoMap]
    /\ flight = [k \in Keys |-> NoProc]
    /\ pc = [p \in Procs |-> "idle"]
    /\ want \in [Procs -> Types]     \* of no account before the first Call
    /\ result = [p \in Procs |-> NoMap]
    /\ built = [t \in Types |-> 0]

Goto(p, l) == pc' = [pc EXCEPT ![p] = l]

(* A goroutine calls TypeMap(t). *)
Call(p, t) ==
    /\ pc[p] = "idle"
    /\ want' = [want EXCEPT ![p] = t]
    /\ Goto(p, "load")
    /\ UNCHANGED <<cache, flight, result, built>>

(* The lock-free fast path: a hit returns at once. *)
Load(p) ==
    /\ pc[p] = "load"
    /\ result' = [result EXCEPT ![p] = cache[want[p]]]
    /\ Goto(p, IF cache[want[p]] # NoMap THEN "done" ELSE "join")
    /\ UNCHANGED <<cache, flight, want, built>>

(* singleflight.Do: lead the flight of the key, or wait for its leader. *)
Join(p) ==
    LET k == SfKey(want[p]) IN
    /\ pc[p] = "join"
    /\ IF flight[k] = NoProc
       THEN /\ flight' = [flight EXCEPT ![k] = p]
            /\ Goto(p, "recheck")
       ELSE /\ Goto(p, "wait")
            /\ UNCHANGED flight
    /\ UNCHANGED <<cache, want, result, built>>

(* The leader looks again: another flight may have stored the map between  *)
(* its Load and its Do.                                                    *)
NoRecheck(p) ==
    /\ pc[p] = "recheck"
    /\ Goto(p, "map")
    /\ UNCHANGED <<cache, flight, want, result, built>>

Recheck(p) ==
    /\ pc[p] = "recheck"
    /\ result' = [result EXCEPT ![p] = cache[want[p]]]
    /\ Goto(p, IF cache[want[p]] # NoMap THEN "release" ELSE "map")
    /\ UNCHANGED <<cache, flight, want, built>>

(* A mapType that maps a nested field of the same type through TypeMap     *)
(* instead of flattening it in place re-enters its own flight.             *)
MapTypeThroughTypeMap(p) ==
    /\ pc[p] = "map"
    /\ Goto(p, "load")
    /\ UNCHANGED <<cache, flight, want, result, built>>

(* A mapType that recovers its own panic has the failure cached as a map.  *)
MapTypeRecovered(p) ==
    /\ pc[p] = "map"
    /\ want[p] \in Unmappable
    /\ result' = [result EXCEPT ![p] = Panic]
    /\ Goto(p, "store")
    /\ UNCHANGED <<cache, flight, want, built>>

(* mapType builds a new StructMap; on a type it cannot map it panics and   *)
(* the deferred end of the flight runs with nothing stored.                *)
MapType(p) ==
    /\ pc[p] = "map"
    /\ IF want[p] \in Unmappable
       THEN /\ result' = [result EXCEPT ![p] = Panic]
            /\ Goto(p, "release")
            /\ UNCHANGED built
       ELSE /\ built' = [built EXCEPT ![want[p]] = @ + 1]
            /\ result' = [result EXCEPT ![p] = Pointer(want[p], built[want[p]] + 1)]
            /\ Goto(p, "store")
    /\ UNCHANGED <<cache, flight, want>>

StoreSkipped(p) ==
    /\ pc[p] = "store"
    /\ Goto(p, "release")
    /\ UNCHANGED <<cache, flight, want, result, built>>

Store(p) ==
    /\ pc[p] = "store"
    /\ cache' = [cache EXCEPT ![want[p]] = result[p]]
    /\ Goto(p, "release")
    /\ UNCHANGED <<flight, want, result, built>>

(* The end of the flight: the key goes, and the leader and every goroutine *)
(* that waits on the key leave with the leader's value (or its panic).     *)
Release(p) ==
    LET k == SfKey(want[p])
        leaves == {p} \cup {q \in Procs : pc[q] = "wait" /\ SfKey(want[q]) = k} IN
    /\ pc[p] = "release"
    /\ flight' = [flight EXCEPT ![k] = NoProc]
    /\ result' = [q \in Procs |-> IF q \in leaves THEN result[p] ELSE result[q]]
    /\ pc' = [q \in Procs |-> IF q \in leaves THEN "done" ELSE pc[q]]
    /\ UNCHANGED <<cache, want, built>>

(* TypeMap returns result[p], or panics; the goroutine may call again. *)
Return(p) ==
    /\ pc[p] = "done"
    /\ result' = [result EXCEPT ![p] = NoMap]
    /\ Goto(p, "idle")
    /\ UNCHANGED <<cache, flight, want, built>>

Step(p) ==
    \/ Load(p)
    \/ Join(p)
    \/ Recheck(p)
    \/ MapType(p)
    \/ Store(p)
    \/ Release(p)
    \/ Return(p)

Next == \E p \in Procs : Step(p) \/ \E t \in Types : Call(p, t)

(* A goroutine that can take a step takes it: the Go scheduler is          *)
(* preemptive.  Nothing obliges a goroutine to call TypeMap.               *)
Fairness == \A p \in Procs : WF_vars(Step(p))

Spec == Init /\ [][Next]_vars
FairSpec == Spec /\ Fairness
-----------------------------------------------------------------------------
TypeOK ==
    /\ cache \in [Types -> Maps \cup {NoMap}]
    /\ flight \in [Keys -> Procs \cup {NoProc}]
    /\ pc \in [Procs -> PCs]
    /\ want \in [Procs -> Types]
    /\ result \in [Procs -> Maps \cup {NoMap, Panic}]
    /\ built \in [Types -> Nat]

(* A stampede maps a type once: however many goroutines miss the cache,    *)
(* stall, and come back, mapType makes at most one StructMap of a type.    *)
MappedOnce == \A t \in Types : built[t] <= 1

(* Every caller leaves with the map of the type it asked for, and with the *)
(* very map the cache holds: two callers never hold different maps of one  *)
(* type, and a waiter never leaves with the map of another type that       *)
(* shares the name.  A caller panics only on a type that cannot be mapped. *)
AnswerIsTheCachedMap ==
    \A p \in Procs : pc[p] = "done" =>
        IF want[p] \in Unmappable
        THEN result[p] = Panic
        ELSE /\ result[p] # NoMap
             /\ result[p] = cache[want[p]]
             /\ result[p].type = want[p]

(* A published map is never replaced: callers compare and keep pointers    *)
(* into it (fieldMeta.traversal aliases FieldInfo.Traversal).              *)
PublishedForGood ==
    [][\A t \in Types : cache[t] # NoMap => cache'[t] = cache[t]]_vars

(* Every call of TypeMap returns (or panics): no goroutine is left waiting *)
(* on a flight whose leader has gone, after a panic in mapType too.        *)
EveryCallReturns == \A p \in Procs : (pc[p] # "idle") ~> (pc[p] = "idle")

(* The promise, and how the cache keeps it: the memo is the cache, a       *)
(* caller waits from its call until it leaves the flight or hits.          *)
Once == INSTANCE TypeMapOnce WITH
    memo <- cache,
    asked <- [p \in Procs |-> IF pc[p] = "idle" THEN {} ELSE {want[p]}],
    answer <- [p \in Procs |-> IF pc[p] = "done" THEN result[p] ELSE NoMap]

ImplementsOnce == Once!Spec
=============================================================================
