---------------------------- MODULE CompileCache ----------------------------
(***************************************************************************)
(* The process-wide cache of compiled queries (internal/bind/bind.go) and  *)
(* who holds what it hands out.  compileNamedQuery returns the very slice  *)
(* of names the cache holds: bindStruct, bindArray and the map binding     *)
(* read it and let it go; CompileNamedQuery copies it for PrepareNamed,    *)
(* whose caller owns NamedStmt.Params and may write to it.  Tx.NamedStmt   *)
(* makes a statement with the Params of another.                           *)
(*                                                                         *)
(* A slice of names is a cell of the heap; what compiling gives is a       *)
(* constant (module CompileNamed).  sync.Map's Load and Store are atomic.  *)
(***************************************************************************)
EXTENDS Naturals

CONSTANTS
    Procs,        \* goroutines
    Queries, BindTypes,
    Slices,       \* slices of names: cells of the heap
    NameLists,    \* what a slice can hold after compiling
    Scribble,     \* what the owner of a NamedStmt writes over its Params
    Compiled,     \* Compiled[k]: [query, names] of the key k, or SyntaxError
    SyntaxError, NoEntry, NoResult

CompileKeys == [query : Queries, bindType : BindTypes]
Texts == {Compiled[k].query : k \in {j \in CompileKeys : Compiled[j] # SyntaxError}}
Entries == [query : Texts, names : Slices]

ASSUME CompiledAssumption ==
    \A k \in CompileKeys :
        Compiled[k] = SyntaxError \/ Compiled[k] \in [query : Texts, names : NameLists]
ASSUME NonEmptyAssumption == Queries # {} /\ BindTypes # {} /\ NameLists # {}
ASSUME DistinctAssumption ==
    /\ NoEntry \notin Entries /\ NoResult \notin Entries /\ SyntaxError \notin Entries
    /\ SyntaxError # NoResult /\ NoEntry # SyntaxError
    /\ Scribble \notin NameLists

VARIABLES
    compileCache,  \* key -> [query, names] or NoEntry
    heap,          \* heap[s]: what the slice s holds
    pc,            \* where each goroutine is
    key,           \* key[p]: the query and dialect p compiles
    prepares,      \* prepares[p]: p is in PrepareNamed, not in a binding
    res,           \* res[p]: the query and the slice p holds, or SyntaxError
    bound,         \* bound[p]: the names p bound arguments to
    wrote,         \* wrote[p]: an owner has written to the Params p holds
    family         \* family[p]: the statements p's one is bound from share it

vars == <<compileCache, heap, pc, key, prepares, res, bound, wrote, family>>

PCs == {"idle", "load", "compile", "store", "use", "done", "prepared"}

AnyKey == CHOOSE k \in CompileKeys : TRUE
AnyList == CHOOSE l \in NameLists : TRUE

Init ==
    /\ compileCache = [k \in CompileKeys |-> NoEntry]
    /\ heap = [s \in Slices |-> AnyList]
    /\ pc = [p \in Procs |-> "idle"]
    /\ key = [p \in Procs |-> AnyKey]
    /\ prepares = [p \in Procs |-> FALSE]
    /\ res = [p \in Procs |-> NoResult]
    /\ bound = [p \in Procs |-> AnyList]
    /\ wrote = [p \in Procs |-> FALSE]
    /\ family = [p \in Procs |-> p]

Goto(p, l) == pc' = [pc EXCEPT ![p] = l]

(* The cache's key: the query and the dialect. *)
KeyWithoutBindType(k) == [k EXCEPT !.bindType = AnyKey.bindType]
Key(k) == k

Fresh(s) ==
    /\ \A k \in CompileKeys : compileCache[k] # NoEntry => compileCache[k].names # s
    /\ \A p \in Procs : res[p] \in Entries => res[p].names # s

Call(p, k, b) ==
    /\ pc[p] = "idle"
    /\ key' = [key EXCEPT ![p] = k]
    /\ prepares' = [prepares EXCEPT ![p] = b]
    /\ Goto(p, "load")
    /\ UNCHANGED <<compileCache, heap, res, bound, wrote, family>>

Load(p) ==
    LET e == compileCache[Key(key[p])] IN
    /\ pc[p] = "load"
    /\ IF e # NoEntry
       THEN res' = [res EXCEPT ![p] = e] /\ Goto(p, "use")
       ELSE UNCHANGED res /\ Goto(p, "compile")
    /\ UNCHANGED <<compileCache, heap, key, prepares, bound, wrote, family>>

(* The query does not compile: nothing is cached. *)
CompileErrorCached(p) ==
    /\ pc[p] = "compile"
    /\ Compiled[key[p]] = SyntaxError
    /\ res' = [res EXCEPT ![p] = SyntaxError]
    /\ Goto(p, "store")
    /\ UNCHANGED <<compileCache, heap, key, prepares, bound, wrote, family>>

CompileError(p) ==
    /\ pc[p] = "compile"
    /\ Compiled[key[p]] = SyntaxError
    /\ res' = [res EXCEPT ![p] = SyntaxError]
    /\ Goto(p, "done")
    /\ UNCHANGED <<compileCache, heap, key, prepares, bound, wrote, family>>

Compile(p) ==
    /\ pc[p] = "compile"
    /\ Compiled[key[p]] # SyntaxError
    /\ \E s \in Slices :
          /\ Fresh(s)
          /\ heap' = [heap EXCEPT ![s] = Compiled[key[p]].names]
          /\ res' = [res EXCEPT ![p] = [query |-> Compiled[key[p]].query, names |-> s]]
    /\ Goto(p, "store")
    /\ UNCHANGED <<compileCache, key, prepares, bound, wrote, family>>

(* compileCache.Store, over the entry of another goroutine too. *)
Store(p) ==
    /\ pc[p] = "store"
    /\ compileCache' = [compileCache EXCEPT ![Key(key[p])] = res[p]]
    /\ Goto(p, "use")
    /\ UNCHANGED <<heap, key, prepares, res, bound, wrote, family>>

(* A binding reads the names and looks each of them up in its argument. *)
Bind(p) ==
    /\ pc[p] = "use" /\ ~prepares[p]
    /\ bound' = [bound EXCEPT ![p] = heap[res[p].names]]
    /\ Goto(p, "done")
    /\ UNCHANGED <<compileCache, heap, key, prepares, res, wrote, family>>

NewFamily(r) == \A q \in Procs : pc[q] = "prepared" => family[q] # r
Relatives(p) == {q \in Procs : pc[q] = "prepared" /\ family[q] = family[p]}

(* CompileNamedQuery's defensive copy becomes NamedStmt.Params. *)
CopyShares(p) ==
    /\ pc[p] = "use" /\ prepares[p]
    /\ Goto(p, "prepared")
    /\ UNCHANGED <<compileCache, heap, key, prepares, res, bound, wrote, family>>

Copy(p) ==
    /\ pc[p] = "use" /\ prepares[p]
    /\ \E s \in Slices :
          /\ Fresh(s)
          /\ heap' = [heap EXCEPT ![s] = heap[res[p].names]]
          /\ res' = [res EXCEPT ![p].names = s]
    /\ \E r \in Procs : NewFamily(r) /\ family' = [family EXCEPT ![p] = r]
    /\ Goto(p, "prepared")
    /\ UNCHANGED <<compileCache, key, prepares, bound, wrote>>

(* The owner of a NamedStmt writes to its Params, an exported field. *)
WriteParams(p) ==
    /\ pc[p] = "prepared"
    /\ heap' = [heap EXCEPT ![res[p].names] = Scribble]
    /\ wrote' = [q \in Procs |-> wrote[q] \/ q \in Relatives(p)]
    /\ UNCHANGED <<compileCache, pc, key, prepares, res, bound, family>>

(* Tx.NamedStmt: the statement of q bound in a transaction of p.  *)
NamedStmt(p, q) ==
    /\ pc[p] = "idle" /\ pc[q] = "prepared"
    /\ key' = [key EXCEPT ![p] = key[q]]
    /\ prepares' = [prepares EXCEPT ![p] = TRUE]
    /\ res' = [res EXCEPT ![p] = res[q]]
    /\ wrote' = [wrote EXCEPT ![p] = wrote[q]]
    /\ family' = [family EXCEPT ![p] = family[q]]
    /\ Goto(p, "prepared")
    /\ UNCHANGED <<compileCache, heap, bound>>

(* The binding is over, or the statement no longer used. *)
Leave(p) ==
    /\ pc[p] \in {"done", "prepared"}
    /\ key' = [key EXCEPT ![p] = AnyKey]
    /\ prepares' = [prepares EXCEPT ![p] = FALSE]
    /\ res' = [res EXCEPT ![p] = NoResult]
    /\ bound' = [bound EXCEPT ![p] = AnyList]
    /\ wrote' = [wrote EXCEPT ![p] = FALSE]
    /\ family' = [family EXCEPT ![p] = p]
    /\ Goto(p, "idle")
    /\ UNCHANGED <<compileCache, heap>>

Step(p) ==
    \/ Load(p) \/ CompileError(p) \/ Compile(p) \/ Store(p)
    \/ Bind(p) \/ Copy(p) \/ WriteParams(p) \/ Leave(p)

Next ==
    \E p \in Procs :
       \/ Step(p)
       \/ \E k \in CompileKeys, b \in BOOLEAN : Call(p, k, b)
       \/ \E q \in Procs : NamedStmt(p, q)

Spec == Init /\ [][Next]_vars
-----------------------------------------------------------------------------
TypeOK ==
    /\ compileCache \in [CompileKeys -> Entries \cup {NoEntry}]
    /\ heap \in [Slices -> NameLists \cup {Scribble}]
    /\ pc \in [Procs -> PCs]
    /\ key \in [Procs -> CompileKeys]
    /\ prepares \in [Procs -> BOOLEAN]
    /\ res \in [Procs -> Entries \cup {NoResult, SyntaxError}]
    /\ bound \in [Procs -> NameLists \cup {Scribble}]
    /\ wrote \in [Procs -> BOOLEAN]
    /\ family \in [Procs -> Procs]

(* Every binding uses the query of its own dialect and its names, whoever  *)
(* compiled them and whatever the owners of statements have done to their  *)
(* Params since; a query that does not compile never becomes one that does.*)
BoundAsCompiled ==
    \A p \in Procs : pc[p] = "done" =>
       IF Compiled[key[p]] = SyntaxError
       THEN res[p] = SyntaxError
       ELSE res[p].query = Compiled[key[p]].query /\ bound[p] = Compiled[key[p]].names

(* A prepared statement keeps its names until its own owner, or that of a  *)
(* statement bound from it or it is bound from, writes to them: no cache   *)
(* entry and no other statement shares its Params.                         *)
ParamsAreTheOwners ==
    \A p \in Procs : pc[p] = "prepared" =>
       /\ ~wrote[p] => heap[res[p].names] = Compiled[key[p]].names
       /\ \A k \in CompileKeys :
             compileCache[k] # NoEntry => compileCache[k].names # res[p].names
       /\ \A q \in Procs :
             pc[q] = "prepared" /\ res[q].names = res[p].names => q \in Relatives(p)
=============================================================================
