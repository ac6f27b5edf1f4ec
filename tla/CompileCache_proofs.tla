------------------------- MODULE CompileCache_proofs -------------------------
(***************************************************************************)
(* Proofs about CompileCache, for any number of goroutines, queries and    *)
(* dialects: bindings use the names as compiled, statements own their      *)
(* Params.                                                                 *)
(***************************************************************************)
EXTENDS CompileCache, TLAPS

(* The slice s and the query t are what compiling the key k gives. *)
AsCompiled(e, k) ==
    /\ Compiled[k] # SyntaxError
    /\ e.query = Compiled[k].query
    /\ heap[e.names] = Compiled[k].names

(* No entry of the cache is ever written to. *)
CacheInv == \A k \in CompileKeys : compileCache[k] # NoEntry => AsCompiled(compileCache[k], k)

(* The slice of a prepared statement is in no cache entry and with nobody  *)
(* but the statements it is bound from or that are bound from it.          *)
Owned(p) ==
    /\ \A k \in CompileKeys : compileCache[k] # NoEntry => compileCache[k].names # res[p].names
    /\ \A q \in Procs : res[q] \in Entries /\ res[q].names = res[p].names => q \in Relatives(p)

ProcInv(p) ==
    /\ pc[p] \in {"store", "use"} => res[p] \in Entries /\ AsCompiled(res[p], key[p])
    /\ pc[p] = "done" =>
          \/ Compiled[key[p]] = SyntaxError /\ res[p] = SyntaxError
          \/ /\ res[p] \in Entries /\ AsCompiled(res[p], key[p])
             /\ bound[p] = Compiled[key[p]].names
    /\ pc[p] = "prepared" =>
          /\ res[p] \in Entries /\ Compiled[key[p]] # SyntaxError
          /\ ~wrote[p] => AsCompiled(res[p], key[p])
          /\ Owned(p)

Inv == TypeOK /\ CacheInv /\ \A p \in Procs : ProcInv(p)

USE DEF CompileKeys
-----------------------------------------------------------------------------
(* What compiling gives is an entry's text and a list of names. *)
LEMMA CompiledType ==
    \A k \in CompileKeys : Compiled[k] # SyntaxError =>
       Compiled[k].query \in Texts /\ Compiled[k].names \in NameLists
  BY CompiledAssumption

(* The initial values of the calls' variables are of their types. *)
LEMMA AnyType == AnyKey \in CompileKeys /\ AnyList \in NameLists
<1>1. PICK q \in Queries, b \in BindTypes : TRUE
  BY NonEmptyAssumption
<1>2. [query |-> q, bindType |-> b] \in CompileKeys
  OBVIOUS
<1>3. AnyKey \in CompileKeys
  BY <1>2 DEF AnyKey
<1> QED
  BY <1>3, NonEmptyAssumption DEF AnyList

(* The invariant holds of an empty cache. *)
LEMMA InitInv == Init => Inv
  BY AnyType DEF Init, Inv, TypeOK, PCs, CacheInv, ProcInv

(* A step keeps the types. *)
LEMMA TypeStep == Inv /\ [Next]_vars => TypeOK'
<1> SUFFICES ASSUME Inv, [Next]_vars PROVE TypeOK'
  OBVIOUS
<1> USE DEF Inv, TypeOK, PCs
<1>1. CASE UNCHANGED vars
  BY <1>1 DEF vars
<1>2. ASSUME NEW p \in Procs, NEW k \in CompileKeys, NEW b \in BOOLEAN, Call(p, k, b)
      PROVE  TypeOK'
  BY <1>2 DEF Call, Goto
<1>3. ASSUME NEW p \in Procs, NEW q \in Procs, NamedStmt(p, q)
      PROVE  TypeOK'
  BY <1>3 DEF NamedStmt, Goto
<1>4. ASSUME NEW p \in Procs, Step(p)
      PROVE  TypeOK'
  <2> key[p] \in CompileKeys
    OBVIOUS
  <2>1. CASE Load(p)
    BY <2>1 DEF Load, Goto, Key
  <2>2. CASE CompileError(p)
    BY <2>2 DEF CompileError, Goto
  <2>3. CASE Compile(p)
    BY <2>3, CompiledType DEF Compile, Goto, Entries
  <2>4. CASE Store(p)
    <3>1. res[p] \in Entries
      BY <2>4 DEF Store, ProcInv
    <3> QED
      BY <2>4, <3>1 DEF Store, Goto, Key
  <2>5. CASE Bind(p)
    <3>1. res[p].names \in Slices
      BY <2>5 DEF Bind, ProcInv, Entries
    <3> QED
      BY <2>5, <3>1 DEF Bind, Goto
  <2>6. CASE Copy(p)
    <3>1. PICK s \in Slices : /\ heap' = [heap EXCEPT ![s] = heap[res[p].names]]
                              /\ res' = [res EXCEPT ![p].names = s]
      BY <2>6 DEF Copy
    <3>2. res[p] \in Entries /\ res[p].names \in Slices
      BY <2>6 DEF Copy, ProcInv, Entries
    <3>3. [res[p] EXCEPT !.names = s] \in Entries
      BY <3>2 DEF Entries
    <3>4. family' \in [Procs -> Procs]
      BY <2>6 DEF Copy
    <3>5. heap' \in [Slices -> NameLists \cup {Scribble}]
          /\ res' \in [Procs -> Entries \cup {NoResult, SyntaxError}]
      BY <3>1, <3>2, <3>3
    <3>6. pc' \in [Procs -> PCs] /\ UNCHANGED <<compileCache, key, prepares, bound, wrote>>
      BY <2>6 DEF Copy, Goto
    <3> QED
      BY <3>4, <3>5, <3>6
  <2>7. CASE WriteParams(p)
    BY <2>7 DEF WriteParams, Relatives
  <2>8. CASE Leave(p)
    BY <2>8, AnyType DEF Leave, Goto
  <2> QED
    BY <1>4, <2>1, <2>2, <2>3, <2>4, <2>5, <2>6, <2>7, <2>8 DEF Step
<1> QED
  BY <1>1, <1>2, <1>3, <1>4 DEF Next

(* What is written to a slice that q does not hold, and done by another    *)
(* goroutine, does not disturb q; a prepared q must still own its Params.  *)
LEMMA OthersKeep ==
    ASSUME Inv, NEW q \in Procs,
           pc'[q] = pc[q], key'[q] = key[q], res'[q] = res[q],
           bound'[q] = bound[q], wrote'[q] = wrote[q],
           \A s \in Slices : heap'[s] = heap[s] \/ (res[q] \in Entries => res[q].names # s),
           pc[q] = "prepared" => Owned(q)'
    PROVE  ProcInv(q)'
<1>1. ASSUME res[q] \in Entries PROVE heap'[res[q].names] = heap[res[q].names]
  BY <1>1 DEF Entries
<1>2. ASSUME res[q] \in Entries, AsCompiled(res[q], key[q]) PROVE AsCompiled(res[q], key[q])'
  BY <1>1, <1>2 DEF AsCompiled
<1> QED
  BY <1>2 DEF Inv, ProcInv

(* q owns its Params still if neither the cache nor p, who did the step,   *)
(* has come to hold them.                                                  *)
LEMMA OwnedKept ==
    ASSUME Inv, NEW p \in Procs, NEW q \in Procs, q # p, pc[q] = "prepared",
           \A r \in Procs : r # p => pc'[r] = pc[r] /\ res'[r] = res[r] /\ family'[r] = family[r],
           \A k \in CompileKeys : compileCache'[k] # NoEntry => compileCache'[k].names # res[q].names,
           res'[p] \in Entries /\ res'[p].names = res[q].names =>
              pc'[p] = "prepared" /\ family'[p] = family[q]
    PROVE  Owned(q)'
<1>1. Owned(q)
  BY DEF Inv, ProcInv
<1>2. ASSUME NEW r \in Procs, res'[r] \in Entries, res'[r].names = res'[q].names
      PROVE  r \in Relatives(q)'
  BY <1>1, <1>2 DEF Owned, Relatives
<1> QED
  BY <1>2 DEF Owned

(* The cache keeps its entries as compiled if only slices outside it are   *)
(* written to.                                                             *)
LEMMA CacheKept ==
    ASSUME Inv, UNCHANGED compileCache,
           \A s \in Slices : heap'[s] = heap[s]
              \/ \A k \in CompileKeys : compileCache[k] # NoEntry => compileCache[k].names # s
    PROVE  CacheInv'
<1> SUFFICES ASSUME NEW k \in CompileKeys, compileCache[k] # NoEntry
             PROVE  AsCompiled(compileCache[k], k)'
  BY DEF CacheInv
<1>1. compileCache[k].names \in Slices
  BY DEF Inv, TypeOK, Entries
<1>2. heap'[compileCache[k].names] = heap[compileCache[k].names]
  BY <1>1
<1> QED
  BY <1>2 DEF Inv, CacheInv, AsCompiled

(* The cache hands out what it holds as compiled: Load. *)
LEMMA LoadStep ==
    ASSUME Inv, TypeOK', NEW p \in Procs, Load(p)
    PROVE  Inv'
<1> USE DEF Load, Goto, Key
<1>0. key[p] \in CompileKeys /\ pc \in [Procs -> PCs]
      /\ res \in [Procs -> Entries \cup {NoResult, SyntaxError}]
      /\ compileCache \in [CompileKeys -> Entries \cup {NoEntry}]
  BY DEF Inv, TypeOK
<1>1. CacheInv'
  BY CacheKept
<1>2. ProcInv(p)'
  <2>1. CASE compileCache[key[p]] # NoEntry
    <3>1. compileCache[key[p]] \in Entries /\ AsCompiled(compileCache[key[p]], key[p])
      BY <1>0, <2>1 DEF Inv, CacheInv
    <3> QED
      BY <1>0, <2>1, <3>1 DEF ProcInv, AsCompiled
  <2>2. CASE compileCache[key[p]] = NoEntry
    BY <1>0, <2>2 DEF ProcInv
  <2> QED
    BY <2>1, <2>2
<1>3. ASSUME NEW q \in Procs, q # p PROVE ProcInv(q)'
  <2>1. pc[q] = "prepared" => Owned(q)'
    <3> SUFFICES ASSUME pc[q] = "prepared" PROVE Owned(q)'
      OBVIOUS
    <3>1. Owned(q)
      BY DEF Inv, ProcInv
    <3>2. res'[p] \in Entries => res'[p].names # res[q].names
      BY <1>0, <3>1, <1>3 DEF Owned, Relatives
    <3> QED
      BY <1>0, <3>1, <3>2, <1>3, OwnedKept DEF Owned
  <2> QED
    BY <1>0, <1>3, <2>1, OthersKeep
<1> QED
  BY <1>1, <1>2, <1>3 DEF Inv

(* Entering, a failure and leaving touch neither the heap nor the cache    *)
(* and give p no slice.                                                    *)
LEMMA PrivateStep ==
    ASSUME Inv, TypeOK', NEW p \in Procs, UNCHANGED <<compileCache, heap>>, ProcInv(p)',
           res'[p] \in Entries =>
              res[p] \in Entries /\ res'[p].names = res[p].names /\ pc[p] # "prepared",
           \A q \in Procs : q # p =>
              /\ pc'[q] = pc[q] /\ key'[q] = key[q] /\ res'[q] = res[q]
              /\ bound'[q] = bound[q] /\ wrote'[q] = wrote[q] /\ family'[q] = family[q]
    PROVE  Inv'
<1>1. CacheInv'
  BY CacheKept
<1>2. ASSUME NEW q \in Procs, q # p PROVE ProcInv(q)'
  <2>1. pc[q] = "prepared" => Owned(q)'
    <3> SUFFICES ASSUME pc[q] = "prepared" PROVE Owned(q)'
      OBVIOUS
    <3>1. Owned(q)
      BY DEF Inv, ProcInv
    <3> QED
      BY <1>2, <3>1, OwnedKept DEF Owned, Relatives
  <2> QED
    BY <1>2, <2>1, OthersKeep
<1> QED
  BY <1>1, <1>2 DEF Inv
(* A goroutine starts to compile a query: Call. *)
LEMMA CallStep ==
    ASSUME Inv, TypeOK', NEW p \in Procs, NEW k \in CompileKeys, NEW b \in BOOLEAN, Call(p, k, b)
    PROVE  Inv'
<1>1. ProcInv(p)'
  BY DEF Call, Goto, ProcInv, Inv, TypeOK
<1> QED
  BY <1>1, PrivateStep DEF Call, Goto, Inv, TypeOK

(* A query that does not compile: nothing is cached. *)
LEMMA CompileErrorStep ==
    ASSUME Inv, TypeOK', NEW p \in Procs, CompileError(p)
    PROVE  Inv'
<1>1. ProcInv(p)'
  BY DEF CompileError, Goto, ProcInv, Inv, TypeOK
<1>2. res'[p] \notin Entries
  BY DistinctAssumption DEF CompileError, Inv, TypeOK
<1> QED
  BY <1>1, <1>2, PrivateStep DEF CompileError, Goto, Inv, TypeOK

(* A binding reads the names. *)
LEMMA BindStep ==
    ASSUME Inv, TypeOK', NEW p \in Procs, Bind(p)
    PROVE  Inv'
<1>1. ProcInv(p)'
  BY DEF Bind, Goto, ProcInv, Inv, TypeOK, AsCompiled
<1> QED
  BY <1>1, PrivateStep DEF Bind, Goto, Inv, TypeOK

(* A call or a statement is done. *)
LEMMA LeaveStep ==
    ASSUME Inv, TypeOK', NEW p \in Procs, Leave(p)
    PROVE  Inv'
<1>1. ProcInv(p)'
  BY DEF Leave, Goto, ProcInv, Inv, TypeOK
<1>2. res'[p] \notin Entries
  BY DistinctAssumption DEF Leave, Inv, TypeOK
<1> QED
  BY <1>1, <1>2, PrivateStep DEF Leave, Goto, Inv, TypeOK

(* Compiling and copying write to a slice no one has. *)
LEMMA FreshSlice ==
    ASSUME Inv, NEW p \in Procs, NEW s \in Slices, Fresh(s), res'[p].names = s,
           \A t \in Slices : t # s => heap'[t] = heap[t],
           UNCHANGED <<compileCache, key, bound, wrote>>,
           \A q \in Procs : q # p => pc'[q] = pc[q] /\ res'[q] = res[q] /\ family'[q] = family[q]
    PROVE  CacheInv' /\ (pc'[p] = "prepared" => Owned(p)') /\ \A q \in Procs : q # p => ProcInv(q)'
<1>1. \A k \in CompileKeys : compileCache[k] # NoEntry => compileCache[k].names # s
  BY DEF Fresh
<1>2. \A q \in Procs : res[q] \in Entries => res[q].names # s
  BY DEF Fresh
<1>3. CacheInv'
  BY <1>1, CacheKept
<1>4. pc'[p] = "prepared" => Owned(p)'
  BY <1>1, <1>2 DEF Owned, Relatives
<1>5. ASSUME NEW q \in Procs, q # p PROVE ProcInv(q)'
  <2>1. pc[q] = "prepared" => Owned(q)'
    <3> SUFFICES ASSUME pc[q] = "prepared" PROVE Owned(q)'
      OBVIOUS
    <3>1. Owned(q) /\ res[q] \in Entries
      BY DEF Inv, ProcInv
    <3> QED
      BY <1>2, <1>5, <3>1, OwnedKept DEF Owned
  <2> QED
    BY <1>2, <1>5, <2>1, OthersKeep
<1> QED
  BY <1>3, <1>4, <1>5

(* Compiling writes the names to a slice of its own. *)
LEMMA CompileStep ==
    ASSUME Inv, TypeOK', NEW p \in Procs, Compile(p)
    PROVE  Inv'
<1>0. /\ heap \in [Slices -> NameLists \cup {Scribble}]
      /\ res \in [Procs -> Entries \cup {NoResult, SyntaxError}]
      /\ pc \in [Procs -> PCs]
  BY DEF Inv, TypeOK
<1>1. PICK s \in Slices :
         /\ Fresh(s)
         /\ heap' = [heap EXCEPT ![s] = Compiled[key[p]].names]
         /\ res' = [res EXCEPT ![p] = [query |-> Compiled[key[p]].query, names |-> s]]
  BY DEF Compile
<1>2. UNCHANGED <<compileCache, key, bound, wrote, family>> /\ pc' = [pc EXCEPT ![p] = "store"]
  BY DEF Compile, Goto
<1>3. key[p] \in CompileKeys /\ Compiled[key[p]] # SyntaxError
  BY DEF Compile, Inv, TypeOK
<1>4. res'[p] = [query |-> Compiled[key[p]].query, names |-> s] /\ res'[p] \in Entries
  BY <1>0, <1>1, <1>3, CompiledType DEF Entries
<1>5. CacheInv' /\ \A q \in Procs : q # p => ProcInv(q)'
  BY <1>0, <1>1, <1>2, <1>4, FreshSlice
<1>6. ProcInv(p)'
  <2>1. pc'[p] = "store" /\ key'[p] = key[p] /\ heap'[s] = Compiled[key[p]].names
    BY <1>0, <1>1, <1>2
  <2> QED
    BY <1>3, <1>4, <2>1 DEF ProcInv, AsCompiled
<1> QED
  BY <1>5, <1>6 DEF Inv

(* CompileNamedQuery's copy is the caller's alone. *)
LEMMA CopyStep ==
    ASSUME Inv, TypeOK', NEW p \in Procs, Copy(p)
    PROVE  Inv'
<1>0. /\ heap \in [Slices -> NameLists \cup {Scribble}]
      /\ res \in [Procs -> Entries \cup {NoResult, SyntaxError}]
      /\ pc \in [Procs -> PCs]
  BY DEF Inv, TypeOK
<1>1. PICK s \in Slices : /\ Fresh(s)
                          /\ heap' = [heap EXCEPT ![s] = heap[res[p].names]]
                          /\ res' = [res EXCEPT ![p].names = s]
  BY DEF Copy
<1>2. /\ UNCHANGED <<compileCache, key, bound, wrote>> /\ pc' = [pc EXCEPT ![p] = "prepared"]
      /\ \A q \in Procs : q # p => family'[q] = family[q]
  BY DEF Copy, Goto, Inv, TypeOK
<1>3. key[p] \in CompileKeys /\ res[p] \in Entries /\ AsCompiled(res[p], key[p])
  BY DEF Copy, Inv, TypeOK, ProcInv
<1>4. /\ \A q \in Procs : q # p => res'[q] = res[q]
      /\ res'[p] \in Entries /\ res'[p].names = s /\ res'[p].query = res[p].query
  BY <1>0, <1>1, <1>3 DEF Entries
<1>5. /\ CacheInv' /\ Owned(p)'
      /\ \A q \in Procs : q # p => ProcInv(q)'
  BY <1>0, <1>1, <1>2, <1>4, FreshSlice
<1>6. ProcInv(p)'
  <2>1. pc'[p] = "prepared" /\ key'[p] = key[p] /\ heap'[s] = heap[res[p].names]
    BY <1>0, <1>1, <1>2
  <2> QED
    BY <1>3, <1>4, <1>5, <2>1 DEF ProcInv, AsCompiled
<1> QED
  BY <1>5, <1>6 DEF Inv

(* Publishing an entry, over another one of the same key too. *)
LEMMA StoreStep ==
    ASSUME Inv, TypeOK', NEW p \in Procs, Store(p)
    PROVE  Inv'
<1> USE DEF Store, Goto, Key
<1>0. /\ key[p] \in CompileKeys /\ pc \in [Procs -> PCs]
      /\ compileCache \in [CompileKeys -> Entries \cup {NoEntry}]
  BY DEF Inv, TypeOK
<1>1. res[p] \in Entries /\ AsCompiled(res[p], key[p])
  BY DEF Inv, ProcInv
<1>2. CacheInv'
  <2> SUFFICES ASSUME NEW k \in CompileKeys, compileCache'[k] # NoEntry
               PROVE  AsCompiled(compileCache[k], k)'
    BY DEF CacheInv
  <2>1. CASE k = key[p]
    BY <1>0, <1>1, <2>1 DEF AsCompiled
  <2>2. CASE k # key[p]
    BY <1>0, <2>2 DEF Inv, CacheInv, AsCompiled
  <2> QED
    BY <2>1, <2>2
<1>3. ProcInv(p)'
  BY <1>0, <1>1 DEF ProcInv, AsCompiled
<1>4. ASSUME NEW q \in Procs, q # p PROVE ProcInv(q)'
  <2>1. pc[q] = "prepared" => Owned(q)'
    <3> SUFFICES ASSUME pc[q] = "prepared" PROVE Owned(q)'
      OBVIOUS
    <3>1. Owned(q)
      BY DEF Inv, ProcInv
    <3>2. res[p].names # res[q].names
      BY <1>1, <1>4, <3>1 DEF Owned, Relatives
    <3> QED
      BY <1>0, <1>4, <3>1, <3>2, OwnedKept DEF Owned
  <2> QED
    BY <1>0, <1>4, <2>1, OthersKeep
<1> QED
  BY <1>2, <1>3, <1>4 DEF Inv

(* A statement's owner writes to its Params: only those who share them by  *)
(* descent see it.                                                         *)
LEMMA WriteParamsStep ==
    ASSUME Inv, TypeOK', NEW p \in Procs, WriteParams(p)
    PROVE  Inv'
<1> USE DEF WriteParams
<1>0. heap \in [Slices -> NameLists \cup {Scribble}] /\ wrote \in [Procs -> BOOLEAN]
  BY DEF Inv, TypeOK
<1>1. Owned(p) /\ res[p] \in Entries /\ pc[p] = "prepared"
  BY DEF Inv, ProcInv
<1>2. \A s \in Slices : s # res[p].names => heap'[s] = heap[s]
  BY <1>0
<1>3. CacheInv'
  BY <1>1, <1>2, CacheKept DEF Owned
<1>4. ASSUME NEW q \in Procs PROVE Owned(q) => Owned(q)'
  BY DEF Owned, Relatives
<1>5. ASSUME NEW q \in Procs, q \in Relatives(p) PROVE ProcInv(q)'
  <2>1. pc'[q] = "prepared" /\ wrote'[q]
    BY <1>5 DEF Relatives
  <2> QED
    BY <1>4, <1>5, <2>1 DEF Inv, ProcInv
<1>6. ASSUME NEW q \in Procs, q \notin Relatives(p) PROVE ProcInv(q)'
  <2>1. \A s \in Slices : heap'[s] = heap[s] \/ (res[q] \in Entries => res[q].names # s)
    BY <1>1, <1>2, <1>6 DEF Owned
  <2>2. pc[q] = "prepared" => Owned(q)'
    BY <1>4 DEF Inv, ProcInv
  <2>3. wrote'[q] = wrote[q]
    BY <1>0, <1>6
  <2> QED
    BY <2>1, <2>2, <2>3, OthersKeep
<1> QED
  BY <1>3, <1>5, <1>6 DEF Inv

(* A statement bound in a transaction joins the family of its own. *)
LEMMA NamedStmtStep ==
    ASSUME Inv, TypeOK', NEW p \in Procs, NEW q \in Procs, NamedStmt(p, q)
    PROVE  Inv'
<1> USE DEF NamedStmt, Goto
<1>0. /\ pc \in [Procs -> PCs] /\ key \in [Procs -> CompileKeys] /\ wrote \in [Procs -> BOOLEAN]
      /\ res \in [Procs -> Entries \cup {NoResult, SyntaxError}]
      /\ family \in [Procs -> Procs] /\ p # q
  BY DEF Inv, TypeOK
<1>1. /\ Owned(q) /\ res[q] \in Entries /\ Compiled[key[q]] # SyntaxError
      /\ ~wrote[q] => AsCompiled(res[q], key[q])
  BY DEF Inv, ProcInv
<1>2. /\ pc'[p] = "prepared" /\ res'[p] = res[q] /\ family'[p] = family[q]
      /\ key'[p] = key[q] /\ wrote'[p] = wrote[q]
      /\ \A r \in Procs : r # p =>
            /\ pc'[r] = pc[r] /\ res'[r] = res[r] /\ family'[r] = family[r]
            /\ key'[r] = key[r] /\ wrote'[r] = wrote[r] /\ bound'[r] = bound[r]
  BY <1>0
<1>3. CacheInv'
  BY CacheKept
<1>4. ASSUME NEW r \in Procs, r # p PROVE ProcInv(r)'
  <2>1. pc[r] = "prepared" => Owned(r)'
    <3> SUFFICES ASSUME pc[r] = "prepared" PROVE Owned(r)'
      OBVIOUS
    <3>1. Owned(r)
      BY DEF Inv, ProcInv
    <3>2. res[q].names = res[r].names => family[q] = family[r]
      BY <1>1, <3>1 DEF Owned, Relatives
    <3> QED
      BY <1>2, <1>4, <3>1, <3>2, OwnedKept DEF Owned
  <2> QED
    BY <1>2, <1>4, <2>1, OthersKeep
<1>5. Owned(p)'
  <2>1. ASSUME NEW r \in Procs, res'[r] \in Entries, res'[r].names = res'[p].names
        PROVE  r \in Relatives(p)'
    BY <1>1, <1>2, <2>1 DEF Owned, Relatives
  <2> QED
    BY <1>1, <1>2, <2>1 DEF Owned
<1>6. ProcInv(p)'
  BY <1>1, <1>2, <1>5 DEF ProcInv, AsCompiled
<1> QED
  BY <1>3, <1>4, <1>6 DEF Inv

(* The invariant is inductive. *)
LEMMA NextInv == Inv /\ [Next]_vars => Inv'
<1> SUFFICES ASSUME Inv, [Next]_vars PROVE Inv'
  OBVIOUS
<1>1. TypeOK'
  BY TypeStep
<1>2. CASE UNCHANGED vars
  BY <1>1, <1>2 DEF vars, Inv, CacheInv, ProcInv, AsCompiled, Owned, Relatives
<1>3. ASSUME NEW p \in Procs, Step(p) PROVE Inv'
  BY <1>1, <1>3, LoadStep, CompileErrorStep, CompileStep, StoreStep, BindStep, CopyStep,
     WriteParamsStep, LeaveStep DEF Step
<1>4. ASSUME NEW p \in Procs, NEW k \in CompileKeys, NEW b \in BOOLEAN, Call(p, k, b) PROVE Inv'
  BY <1>1, <1>4, CallStep
<1>5. ASSUME NEW p \in Procs, NEW q \in Procs, NamedStmt(p, q) PROVE Inv'
  BY <1>1, <1>5, NamedStmtStep
<1> QED
  BY <1>2, <1>3, <1>4, <1>5 DEF Next

(* The invariant holds of every reachable state. *)
LEMMA SpecInv == Spec => []Inv
<1> QED
  BY InitInv, NextInv, PTL DEF Spec
-----------------------------------------------------------------------------
(* Every variable of the cache and of its users keeps its type: nothing    *)
(* but a compiled query is ever cached.                                    *)
THEOREM TypeCorrect == Spec => []TypeOK
<1>1. Inv => TypeOK
  BY DEF Inv
<1> QED
  BY <1>1, SpecInv, PTL

(* Every binding of any number of goroutines uses the text and the names   *)
(* its own query and dialect compile to, whatever owners of statements     *)
(* write to their Params.                                                  *)
THEOREM BindingsAreAsCompiled == Spec => []BoundAsCompiled
<1>1. Inv => BoundAsCompiled
  <2> SUFFICES ASSUME Inv, NEW p \in Procs, pc[p] = "done"
               PROVE  IF Compiled[key[p]] = SyntaxError
                      THEN res[p] = SyntaxError
                      ELSE res[p].query = Compiled[key[p]].query
                           /\ bound[p] = Compiled[key[p]].names
    BY DEF BoundAsCompiled
  <2> QED
    BY DEF Inv, ProcInv, AsCompiled
<1> QED
  BY <1>1, SpecInv, PTL

(* The Params of a NamedStmt are in no cache entry, nobody holds them but  *)
(* statements related by Tx.NamedStmt, and they are as compiled until the  *)
(* owner of one of these writes to them.                                               *)
THEOREM ParamsAreOwned == Spec => []ParamsAreTheOwners
<1>1. Inv => ParamsAreTheOwners
  BY DEF Inv, ProcInv, AsCompiled, Owned, ParamsAreTheOwners
<1> QED
  BY <1>1, SpecInv, PTL
=============================================================================
