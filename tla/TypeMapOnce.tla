---------------------------- MODULE TypeMapOnce ----------------------------
(***************************************************************************)
(* What Mapper.TypeMap promises its callers, without saying how: a struct  *)
(* type is mapped once, the map is never replaced, and whoever asks is     *)
(* answered with that one map.  A type the mapper cannot map (mapType      *)
(* panics) is answered with a panic, every time.                           *)
(***************************************************************************)
CONSTANTS
    Procs,        \* goroutines that call TypeMap
    Types,        \* struct types
    Unmappable,   \* the types of Types on which mapType panics
    NoMap,        \* "no *StructMap"
    Panic         \* the panic a caller sees instead of a map

VARIABLES
    memo,     \* memo[t]: the map of type t, NoMap until it is made
    asked,    \* asked[p]: the types p is waiting to be told of: at most one
    answer    \* answer[p]: what p was told, NoMap while it waits or is idle

vars == <<memo, asked, answer>>

(* The identity of a *StructMap: the type it maps and which allocation it is. *)
Pointer(t, n) == [type |-> t, alloc |-> n]

Init ==
    /\ memo = [t \in Types |-> NoMap]
    /\ asked = [p \in Procs |-> {}]
    /\ answer = [p \in Procs |-> NoMap]

Ask(p, t) ==
    /\ asked[p] = {}
    /\ asked' = [asked EXCEPT ![p] = {t}]
    /\ UNCHANGED <<memo, answer>>

(* The one and only mapping of t. *)
Make(t) ==
    /\ t \notin Unmappable
    /\ memo[t] = NoMap
    /\ memo' = [memo EXCEPT ![t] = Pointer(t, 1)]
    /\ UNCHANGED <<asked, answer>>

(* Some of the callers that ask for t are told, all the same thing. *)
Tell(t, S) ==
    /\ S # {}
    /\ \A p \in S : asked[p] = {t} /\ answer[p] = NoMap
    /\ t \in Unmappable \/ memo[t] # NoMap
    /\ answer' = [p \in Procs |->
                    IF p \in S THEN IF t \in Unmappable THEN Panic ELSE memo[t]
                               ELSE answer[p]]
    /\ UNCHANGED <<memo, asked>>

Leave(p) ==
    /\ answer[p] # NoMap
    /\ asked' = [asked EXCEPT ![p] = {}]
    /\ answer' = [answer EXCEPT ![p] = NoMap]
    /\ UNCHANGED memo

Next ==
    \/ \E p \in Procs, t \in Types : Ask(p, t)
    \/ \E t \in Types : Make(t)
    \/ \E t \in Types, S \in SUBSET Procs : Tell(t, S)
    \/ \E p \in Procs : Leave(p)

Spec == Init /\ [][Next]_vars
============================================================================
