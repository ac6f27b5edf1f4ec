------------------------------ MODULE MetaCache ------------------------------
(***************************************************************************)
(* buildMeta (engine.go): the process-wide cache of column plans.  A plan  *)
(* (a []fieldMeta) says for each column of a result which field of the     *)
(* struct it goes to, or that it is discarded (Unsafe mode only).          *)
(*                                                                         *)
(* Goroutines call buildMeta with a type, the columns of the result, the   *)
(* StructMap their own DB's Mapper made of the type, and their own Unsafe  *)
(* flag.  sync.Map's Load and Store are the atomic steps; the columns of   *)
(* an entry, its plan and everything in between belong to the goroutine.   *)
(***************************************************************************)
EXTENDS Naturals, Sequences

CONSTANTS
    Procs,        \* goroutines that scan
    Types,        \* struct types
    Mappers,      \* the Mappers of the DBs in the process
    Cols,         \* the column lists of the results: sequences of names
    Fields,       \* struct fields: where a column is scanned to
    Names,        \* Names[m][t]: StructMap.Names, a function on the known names
    ColumnHash,   \* ColumnHash[c]: the FNV-1a hash of a column list
    NoEntry, Missing, Discard, NoPlan

Plans == UNION {[DOMAIN c -> Fields \cup {Discard}] : c \in Cols}

ASSUME NamesAssumption ==
    \A m \in Mappers, t \in Types : \A n \in DOMAIN Names[m][t] : Names[m][t][n] \in Fields
ASSUME ColsAssumption == \A c \in Cols : c \in Seq({c[i] : i \in DOMAIN c})
ASSUME DistinctAssumption ==
    /\ Discard \notin Fields
    /\ NoPlan # Missing
    /\ NoPlan \notin Plans
    /\ Missing \notin Plans
    /\ NoEntry \notin [columns : Cols, meta : Plans]

Requests == [t : Types, columns : Cols, mapper : Mappers, isUnsafe : BOOLEAN]

VARIABLES
    metaCache,   \* key -> entry or NoEntry
    pc,          \* where each goroutine is in buildMeta
    req,         \* req[p]: the arguments of p's call
    meta         \* meta[p]: the plan p holds, or Missing: ErrColumnNotFound

vars == <<metaCache, pc, req, meta>>

(* metaCacheKey: the type, the hash of the columns, the Unsafe flag. *)
KeyNoUnsafe(r) == [t |-> r.t, hash |-> ColumnHash[r.columns], isUnsafe |-> FALSE]
Key(r) == [t |-> r.t, hash |-> ColumnHash[r.columns], isUnsafe |-> r.isUnsafe]

Keys == {Key(r) : r \in Requests}
Entries == [columns : Cols, meta : Plans]

(* An entry serves a call with the same columns; two column lists with one *)
(* hash (no separator is hashed, so {"ab","c"} collides with {"a","bc"})   *)
(* have the same key and are told apart here.                              *)
MatchesByLength(e, r) == e # NoEntry /\ Len(e.columns) = Len(r.columns)
Matches(e, r) == e # NoEntry /\ e.columns = r.columns

(* The plan of a call: every column's field, found by name.  A column      *)
(* without a field is an error, or in Unsafe mode a discard slot.  The     *)
(* sort by offset orders the slots and does not change where they go.      *)
Plan(r) ==
    LET names == Names[r.mapper][r.t] IN
    IF ~r.isUnsafe /\ \E i \in DOMAIN r.columns : r.columns[i] \notin DOMAIN names
    THEN Missing
    ELSE [i \in DOMAIN r.columns |->
             IF r.columns[i] \in DOMAIN names THEN names[r.columns[i]] ELSE Discard]

PCs == {"idle", "load", "build", "store", "done"}

NoRequest == CHOOSE r \in Requests : TRUE

Init ==
    /\ metaCache = [k \in Keys |-> NoEntry]
    /\ pc = [p \in Procs |-> "idle"]
    /\ req = [p \in Procs |-> NoRequest]
    /\ meta = [p \in Procs |-> NoPlan]

Goto(p, l) == pc' = [pc EXCEPT ![p] = l]

Call(p, r) ==
    /\ pc[p] = "idle"
    /\ req' = [req EXCEPT ![p] = r]
    /\ Goto(p, "load")
    /\ UNCHANGED <<metaCache, meta>>

(* metaCache.Load, and the comparison of the entry's columns. *)
Load(p) ==
    LET e == metaCache[Key(req[p])] IN
    /\ pc[p] = "load"
    /\ IF Matches(e, req[p])
       THEN /\ meta' = [meta EXCEPT ![p] = e.meta]
            /\ Goto(p, "done")
       ELSE /\ Goto(p, "build")
            /\ UNCHANGED meta
    /\ UNCHANGED <<metaCache, req>>

(* The loop over the columns: an error returns before anything is cached. *)
BuildCachesFailure(p) ==
    /\ pc[p] = "build"
    /\ meta' = [meta EXCEPT ![p] = Plan(req[p])]
    /\ Goto(p, "store")
    /\ UNCHANGED <<metaCache, req>>

Build(p) ==
    /\ pc[p] = "build"
    /\ meta' = [meta EXCEPT ![p] = Plan(req[p])]
    /\ Goto(p, IF Plan(req[p]) = Missing THEN "done" ELSE "store")
    /\ UNCHANGED <<metaCache, req>>

(* metaCache.Store replaces the entry of a colliding column list. *)
Store(p) ==
    /\ pc[p] = "store"
    /\ metaCache' = [metaCache EXCEPT ![Key(req[p])] =
                        [columns |-> req[p].columns, meta |-> meta[p]]]
    /\ Goto(p, "done")
    /\ UNCHANGED <<req, meta>>

(* The scan is done with its arguments and the plan. *)
Return(p) ==
    /\ pc[p] = "done"
    /\ req' = [req EXCEPT ![p] = NoRequest]
    /\ meta' = [meta EXCEPT ![p] = NoPlan]
    /\ Goto(p, "idle")
    /\ UNCHANGED metaCache

Step(p) == Load(p) \/ Build(p) \/ Store(p) \/ Return(p)

Next == \E p \in Procs : Step(p) \/ \E r \in Requests : Call(p, r)

Spec == Init /\ [][Next]_vars
-----------------------------------------------------------------------------
TypeOK ==
    /\ metaCache \in [Keys -> Entries \cup {NoEntry}]
    /\ pc \in [Procs -> PCs]
    /\ req \in [Procs -> Requests]
    /\ meta \in [Procs -> Plans \cup {NoPlan, Missing}]

(* Whatever the other goroutines cached or replaced meanwhile, a scan gets *)
(* the plan its own columns, type, Mapper and Unsafe flag call for: each   *)
(* column goes to its own field, one without a field is reported unless    *)
(* the scan is Unsafe.                                                     *)
PlanIsForThisScan == \A p \in Procs : pc[p] = "done" => meta[p] = Plan(req[p])

(* README: "By default, sqlx-v2 returns an error for columns without a     *)
(* matching struct field": with a Mapper of its own (DB.MapperFunc), a     *)
(* scan in the default mode reports exactly the columns its names lack.    *)
DriftIsReported ==
    \A p \in Procs :
       (pc[p] = "done" /\ ~req[p].isUnsafe
          /\ \E i \in DOMAIN req[p].columns :
                req[p].columns[i] \notin DOMAIN Names[req[p].mapper][req[p].t])
       => meta[p] = Missing
=============================================================================
