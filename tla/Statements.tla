----------------------------- MODULE Statements -----------------------------
(***************************************************************************)
(* What executing named queries leaves in the database: a NamedStmt over a *)
(* slice executes element by element (named_stmt.go, ExecContext), while   *)
(* NamedExec writes the whole slice into one query (helpers.go,            *)
(* internal/bind bindArray); both run in the transaction of their handle,  *)
(* which somebody else may end between two elements.                       *)
(*                                                                         *)
(* A query executed once is atomic, and database/sql refuses to use a      *)
(* transaction that has ended.  Each execution is its own goroutine's.     *)
(***************************************************************************)
EXTENDS Handles

CONSTANTS
    Elements,     \* what a slice of arguments may hold
    Binds,        \* Binds[m][e]: by m, e has every name of the query
    MaxSlice, MaxExecs   \* bounds

ASSUME BoundAssumption == MaxSlice \in Nat /\ MaxExecs \in Nat

VARIABLES
    execs,        \* the executions, in the order they began
    table         \* <<e, i>>: element i of execution e is in the database

dbVars == <<execs, table>>
vars == <<handles, cursor, out, execs, table>>

Slices == UNION {[1..n -> Elements] : n \in 0..MaxSlice}

Init == HandlesInit /\ execs = <<>> /\ table = {}
-----------------------------------------------------------------------------
(* NamedStmt.ExecContext: an empty slice is no error and no result.  "res" *)
(* is the element whose result the caller gets, 0 for none.                *)
Exec(h, s) ==
    /\ handles[h].kind = "NamedStmt" /\ cursor = None /\ Len(execs) < MaxExecs
    /\ execs' = Append(execs, [h |-> h, whole |-> FALSE, slice |-> s, next |-> 1, res |-> 0,
                               state |-> IF s = <<>> THEN "returned" ELSE "running"])
    /\ out' = NoScan
    /\ UNCHANGED <<handles, cursor, table>>

Return(e, state, res) == execs' = [execs EXCEPT ![e].state = state, ![e].res = res]

(* BindAnyArgs misses a name in the element: the result so far, the error. *)
BindFails(e) ==
    LET x == execs[e] IN
    /\ x.state = "running" /\ ~Binds[handles[x.h].cfg.mapper][x.slice[x.next]]
    /\ Return(e, "bind", x.res)
    /\ out' = NoScan
    /\ UNCHANGED <<handles, cursor, table>>

(* The driver refuses, or the transaction has ended: no result at all.     *)
ExecFailsOnward(e) ==
    LET x == execs[e] IN
    /\ x.state = "running" /\ Binds[handles[x.h].cfg.mapper][x.slice[x.next]]
    /\ execs' = [execs EXCEPT ![e].next = @ + 1, ![e].res = 0,
                              ![e].state = IF x.next = Len(x.slice) THEN "exec" ELSE @]
    /\ out' = NoScan
    /\ UNCHANGED <<handles, cursor, table>>

ExecFails(e) ==
    LET x == execs[e] IN
    /\ x.state = "running" /\ Binds[handles[x.h].cfg.mapper][x.slice[x.next]]
    /\ Return(e, "exec", 0)
    /\ out' = NoScan
    /\ UNCHANGED <<handles, cursor, table>>

ExecElement(e) ==
    LET x == execs[e] IN
    /\ x.state = "running" /\ Binds[handles[x.h].cfg.mapper][x.slice[x.next]]
    /\ Live(x.h)
    /\ table' = table \cup {<<e, x.next>>}
    /\ execs' = [execs EXCEPT ![e].next = @ + 1, ![e].res = x.next,
                              ![e].state = IF x.next = Len(x.slice) THEN "returned" ELSE @]
    /\ out' = NoScan
    /\ UNCHANGED <<handles, cursor>>

(* NamedExec of a slice: one query, whose names defaultMapper finds in     *)
(* every element or which is not executed; an empty slice is an error.     *)
NamedExec(h, s) ==
    LET binds == s # <<>> /\ \A i \in DOMAIN s : Binds[Default][s[i]]
        Record(state, res) ==
            execs' = Append(execs, [h |-> h, whole |-> TRUE, slice |-> s,
                                    next |-> IF state = "returned" THEN Len(s) + 1 ELSE 1,
                                    res |-> res, state |-> state])
    IN
    /\ handles[h].kind \in {"DB", "Tx"} /\ cursor = None /\ Len(execs) < MaxExecs
    /\ \/ ~binds /\ Record("bind", 0) /\ UNCHANGED table
       \/ binds /\ Record("exec", 0) /\ UNCHANGED table
       \/ /\ binds /\ Live(h) /\ Record("returned", Len(s))
          /\ table' = table \cup {<<Len(execs) + 1, i>> : i \in DOMAIN s}
    /\ out' = NoScan
    /\ UNCHANGED <<handles, cursor>>

(* Commit and Rollback close the rows of the transaction.  What was not    *)
(* run in the transaction stays.                                           *)
In(t) == {e \in DOMAIN execs : handles[execs[e].h].tx = t}
End(t, state) ==
    /\ IsTx(t) /\ handles[t].state = "open"
    /\ handles' = [handles EXCEPT ![t].state = state]
    /\ cursor' = IF cursor # None /\ cursor.tx = t THEN None ELSE cursor
    /\ table' = IF state = "rolledback" THEN {r \in table : r[1] \notin In(t)} ELSE table
    /\ out' = NoScan
    /\ UNCHANGED execs

(* Bound: a behaviour that executes no longer queries. *)
Scan ==
    /\ MakeHandle \/ UseRows \/ (execs = <<>> /\ Query)
    /\ UNCHANGED dbVars
Execute ==
    \/ \E h \in Ids, s \in Slices : Exec(h, s) \/ NamedExec(h, s)
    \/ \E e \in DOMAIN execs : BindFails(e) \/ ExecFails(e) \/ ExecElement(e)
EndTx == \E t \in Ids, state \in {"committed", "rolledback"} : End(t, state)

Next == Scan \/ Execute \/ EndTx
Spec == Init /\ [][Next]_vars
-----------------------------------------------------------------------------
ExecStates == {"running", "returned", "bind", "exec"}
TypeOK ==
    /\ HandlesTypeOK
    /\ \A e \in DOMAIN execs :
          /\ execs[e].h \in Ids /\ execs[e].slice \in Slices
          /\ execs[e].next \in 1..(MaxSlice + 1) /\ execs[e].res \in 0..MaxSlice
          /\ execs[e].state \in ExecStates
    /\ table \subseteq (1..MaxExecs) \X (1..MaxSlice)

Rows(e) == {i \in 1..MaxSlice : <<e, i>> \in table}
RolledBack(e) == handles[execs[e].h].tx # 0 /\ handles[handles[execs[e].h].tx].state = "rolledback"

(* However an execution over a slice ends, what it leaves is the prefix of *)
(* the slice before the first element that failed: everything if it        *)
(* reports no error, never everything if it does, nothing or everything    *)
(* for NamedExec.  Its result is that of the last element applied, but     *)
(* none when the driver failed.                                            *)
LeavesAPrefix ==
    \A e \in DOMAIN execs :
       LET x == execs[e]
           applied == x.next - 1
       IN
       /\ ~RolledBack(e) => Rows(e) = 1..applied
       /\ x.state = "returned" => applied = Len(x.slice)
       /\ x.state # "returned" => applied < Len(x.slice) \/ x.slice = <<>>
       /\ x.whole => x.state # "running" /\ applied \in {0, Len(x.slice)}
       /\ x.res = IF x.state = "exec" THEN 0 ELSE applied

(* What a caller runs through a transaction, by its own methods or by any  *)
(* statement prepared or bound in it, the transaction decides: no element  *)
(* of it survives a rollback, whichever goroutine rolls back and whenever, *)
(* and nothing is added to a transaction after its end.                    *)
Through(e) ==
    LET h == execs[e].h IN {t \in Ids : IsTx(t) /\ (t = h \/ t = handles[h].from)}
TransactionDecides ==
    [][\A e \in DOMAIN execs' : \A t \in Through(e)' :
          /\ handles'[t].state = "rolledback" => Rows(e)' = {}
          /\ t \in Ids /\ handles[t].state = "committed" => Rows(e)' = Rows(e)]_vars
=============================================================================
