----------------------------- MODULE ScanEngine -----------------------------
(***************************************************************************)
(* The query calls of sqlx: Select and Get (selectScan, getScan and        *)
(* iterateScan in engine.go), SelectG, GetG and SelectIter (generics.go),  *)
(* and QueryRowx followed by Row.Scan or Row.StructScan (rows.go,          *)
(* helpers.go), over database/sql's Rows and a bounded connection pool.    *)
(*                                                                         *)
(* A call queries, prepares (column list, plan, scan buffer), then reads   *)
(* row after row; every way out runs the deferred putScanDest and          *)
(* rows.Close.  The body of a loop over SelectIter runs between two rows   *)
(* and may itself make a call: the outer call keeps its connection and its *)
(* buffer meanwhile.  The driver may fail at every operation, and the      *)
(* context of a query may be cancelled at any time.                        *)
(***************************************************************************)
EXTENDS ScanPool, FiniteSets

CONSTANTS
    Ops,        \* the calls in use
    MaxRows,    \* bound: rows of a result
    MaxCols,    \* bound: columns of a result
    MaxOpen,    \* DB.SetMaxOpenConns
    Nesting,    \* whether the body of a SelectIter loop makes calls
    NoCall

AllOps == {"Select", "Get", "SelectG", "GetG", "SelectIter", "RowScan", "RowStructScan"}
SingleRow == {"Get", "GetG", "RowScan", "RowStructScan"}

ASSUME OpsAssumption == Ops \subseteq AllOps /\ Ops # {} /\ Nesting \in BOOLEAN
ASSUME BoundsAssumption == MaxRows \in Nat /\ MaxCols \in Nat /\ MaxOpen \in Nat
ASSUME DistinctAssumption == NoCall \notin Calls /\ NoBuf \notin Bufs

VARIABLES
    pc,         \* where each call is
    op,         \* op[c]: which function c is a call of
    parent,     \* parent[c]: the iteration whose body made the call c
    rows,       \* rows[c]: c's sql.Rows: "none", "open" (a connection is out), "closed"
    total,      \* total[c]: rows in the result of c's query
    fetched,    \* fetched[c]: rows c's Next has moved to
    got,        \* got[c]: rows c has handed to its caller
    fault,      \* fault[c]: how reading c's Rows ended: not yet ("none"), at the last
                \* row ("eof"), before it ("read"), or Close failed ("close")
    err,        \* err[c]: the error c returns
    stopped,    \* stopped[c]: the loop over c has ended: yield returned false
    late        \* late[c]: c has called yield after that

callVars == <<op, parent, total>>
rowVars == <<rows, fetched, fault>>
vars == <<pc, op, parent, rows, total, fetched, got, fault, err, stopped, late, poolVars>>

PCs == {"idle", "query", "prepare", "next", "populate", "scan", "body",
        "put", "close", "report", "returned"}
Errors == {"nil", "query", "dest", "columns", "plan", "scan", "rows", "norows", "close"}

AnyOp == CHOOSE o \in Ops : TRUE     \* of an idle call: read by nothing

Init ==
    /\ pc = [c \in Calls |-> "idle"]
    /\ op = [c \in Calls |-> AnyOp]
    /\ parent = [c \in Calls |-> NoCall]
    /\ rows = [c \in Calls |-> "none"]
    /\ total = [c \in Calls |-> 0]
    /\ fetched = [c \in Calls |-> 0]
    /\ got = [c \in Calls |-> 0]
    /\ fault = [c \in Calls |-> "none"]
    /\ err = [c \in Calls |-> "nil"]
    /\ stopped = [c \in Calls |-> FALSE]
    /\ late = [c \in Calls |-> FALSE]
    /\ PoolInit

Goto(c, l) == pc' = [pc EXCEPT ![c] = l]
Fail(c, e) == err' = [err EXCEPT ![c] = e]

(* The deferred calls of each function, in the order they run: the scan    *)
(* loops hand back the buffer and then close the rows; StructScan on a Row *)
(* calls Row.Scan, which closes, and hands back the buffer afterwards.     *)
Exit(c) == IF op[c] = "RowStructScan" THEN "close" ELSE "put"
AfterPut(c) == IF op[c] = "RowStructScan" THEN "returned" ELSE "close"

ActiveChild(c) == \E d \in Calls : pc[d] # "idle" /\ parent[d] = c

InUse == {c \in Calls : rows[c] = "open"}

-----------------------------------------------------------------------------
(* A goroutine, or the body of a loop over a SelectIter, makes a call. *)
Start(c, o, d) ==
    /\ pc[c] = "idle" /\ rows[c] # "open"
    /\ d # NoCall => Nesting /\ pc[d] = "body" /\ ~ActiveChild(d)
    /\ Goto(c, "query")
    /\ op' = [op EXCEPT ![c] = o]
    /\ parent' = [parent EXCEPT ![c] = d]
    /\ UNCHANGED <<rows, total, fetched, got, fault, err, stopped, late, poolVars>>

(* QueryContext gets a connection of the pool and a result. *)
Query(c) ==
    /\ pc[c] = "query"
    /\ Cardinality(InUse) < MaxOpen
    /\ rows' = [rows EXCEPT ![c] = "open"]
    /\ fault' = [fault EXCEPT ![c] = "none"]
    /\ \E n \in 0..MaxRows : total' = [total EXCEPT ![c] = n]
    /\ Goto(c, "prepare")
    /\ UNCHANGED <<op, parent, fetched, got, err, stopped, late, poolVars>>

(* The query fails, or its context is done before a connection is free.    *)
(* QueryRowx keeps the error in the Row, and Row.Scan returns it.          *)
QueryFails(c) ==
    /\ pc[c] = "query"
    /\ Fail(c, "query")
    /\ Goto(c, IF op[c] = "SelectIter" THEN "report" ELSE "returned")
    /\ UNCHANGED <<callVars, rowVars, got, stopped, late, poolVars>>

(* A destination of the wrong kind.  selectScan and getScan close the rows *)
(* themselves, Row.Scan refuses RawBytes after deferring the Close;        *)
(* StructScan returns and leaves the Row as it is.                         *)
WrongDest(c) ==
    /\ pc[c] = "prepare"
    /\ op[c] \in {"Select", "Get", "RowScan", "RowStructScan"}
    /\ Fail(c, "dest")
    /\ Goto(c, IF op[c] = "RowStructScan" THEN "returned" ELSE "close")
    /\ UNCHANGED <<callVars, rowVars, got, stopped, late, poolVars>>

(* rows.Columns, which Row.Scan does not need, fails on rows the context   *)
(* has closed.                                                             *)
ColumnsFail(c) ==
    /\ pc[c] = "prepare"
    /\ op[c] # "RowScan"
    /\ rows[c] = "closed"
    /\ Fail(c, "columns")
    /\ Goto(c, IF op[c] = "RowStructScan" THEN "returned" ELSE "close")
    /\ UNCHANGED <<callVars, rowVars, got, stopped, late, poolVars>>

(* The result does not fit the type: a strict tag error, a column without  *)
(* a field, several columns for a scannable type.                          *)
PlanFails(c) ==
    /\ pc[c] = "prepare"
    /\ op[c] # "RowScan"
    /\ rows[c] = "open"
    /\ Fail(c, "plan")
    /\ Goto(c, IF op[c] = "RowStructScan" THEN "returned" ELSE "close")
    /\ UNCHANGED <<callVars, rowVars, got, stopped, late, poolVars>>

(* A scannable element type needs no buffer, Scan gets the value itself,   *)
(* and Row.Scan is given its destinations by the caller.                   *)
ScanDirectly(c) ==
    /\ pc[c] = "prepare"
    /\ rows[c] = "open" \/ op[c] = "RowScan"
    /\ op[c] # "RowStructScan"
    /\ Goto(c, "next")
    /\ UNCHANGED <<callVars, rowVars, got, err, stopped, late, poolVars>>

(* A struct: borrow a buffer.  StructScan fills it before it calls         *)
(* Row.Scan, and only there finds a column without a field.                *)
ScanStruct(c) ==
    /\ pc[c] = "prepare"
    /\ op[c] # "RowScan"
    /\ rows[c] = "open"
    /\ \E n \in 1..MaxCols : GetScanDest(c, n)
    /\ Goto(c, IF op[c] = "RowStructScan" THEN "populate" ELSE "next")
    /\ UNCHANGED <<callVars, rowVars, got, err, stopped, late>>

-----------------------------------------------------------------------------
(* populateScanDest points the slots into the destination of the row: a    *)
(* new one for each row, but for calls that read one row the caller's own. *)
Target(c) == IF op[c] \in SingleRow THEN 1 ELSE fetched[c]

PopulateOnce(c) ==
    /\ pc[c] = "populate"
    /\ IF fetched[c] <= 1 THEN PopulateScanDest(c, Target(c)) ELSE UNCHANGED poolVars
    /\ Goto(c, IF op[c] = "RowStructScan" THEN "next" ELSE "scan")
    /\ UNCHANGED <<callVars, rowVars, got, err, stopped, late>>

Populate(c) ==
    /\ pc[c] = "populate"
    /\ PopulateScanDest(c, Target(c))
    /\ Goto(c, IF op[c] = "RowStructScan" THEN "next" ELSE "scan")
    /\ UNCHANGED <<callVars, rowVars, got, err, stopped, late>>

(* StructScan on a Row meets a column without a field while it fills the   *)
(* buffer: the buffer goes back, the Row stays as it is.                   *)
PopulateFails(c) ==
    /\ pc[c] = "populate"
    /\ op[c] = "RowStructScan"
    /\ Fail(c, "plan")
    /\ Goto(c, "put")
    /\ UNCHANGED <<callVars, rowVars, got, stopped, late, poolVars>>

-----------------------------------------------------------------------------
(* rows.Next moves to a row. *)
NextRow(c) ==
    /\ pc[c] = "next"
    /\ rows[c] = "open" /\ fetched[c] < total[c]
    /\ fetched' = [fetched EXCEPT ![c] = @ + 1]
    /\ Goto(c, IF buf[c] = NoBuf \/ op[c] = "RowStructScan" THEN "scan" ELSE "populate")
    /\ UNCHANGED <<callVars, rows, fault, got, err, stopped, late, poolVars>>

(* What a call makes of the end of the rows.  The loops return rows.Err(); *)
(* GetG and Row.Scan return ErrNoRows if it is nil, getScan only later.    *)
EndErrorIgnoresErr(c) == IF op[c] \in SingleRow \ {"Get"} THEN "norows" ELSE "nil"
EndError(c) ==
    IF fault[c]' = "read" THEN "rows"
    ELSE IF op[c] \in SingleRow \ {"Get"} THEN "norows" ELSE "nil"

(* rows.Next finds the rows closed, the driver fails, or no row is left;   *)
(* it closes the rows, except before another result set.                   *)
NextEnds(c) ==
    /\ pc[c] = "next"
    /\ \/ rows[c] = "closed" /\ UNCHANGED <<rows, fault>>
       \/ /\ rows[c] = "open"
          /\ rows' = [rows EXCEPT ![c] = "closed"]
          /\ fault' = [fault EXCEPT ![c] = "read"]
       \/ /\ rows[c] = "open" /\ fetched[c] = total[c]
          /\ \E s \in {"open", "closed"} : rows' = [rows EXCEPT ![c] = s]
          /\ fault' = [fault EXCEPT ![c] = "eof"]
    /\ Fail(c, EndError(c))
    /\ Goto(c, Exit(c))
    /\ UNCHANGED <<callVars, fetched, got, stopped, late, poolVars>>

(* rows.Scan fails: a value that does not convert, or rows closed since.   *)
ScanFailsForgetsClose(c) ==
    /\ pc[c] = "scan"
    /\ Fail(c, "scan")
    /\ Goto(c, "returned")
    /\ UNCHANGED <<callVars, rowVars, got, stopped, late, poolVars>>

ScanFailsPutsToo(c) ==
    /\ pc[c] = "scan" /\ buf[c] # NoBuf
    /\ Fail(c, "scan")
    /\ Goto(c, Exit(c))
    /\ pool' = pool \cup {buf[c]}
    /\ UNCHANGED <<callVars, rowVars, got, stopped, late, slots, buf, width>>

ScanFails(c) ==
    /\ pc[c] = "scan"
    /\ Fail(c, "scan")
    /\ Goto(c, Exit(c))
    /\ UNCHANGED <<callVars, rowVars, got, stopped, late, poolVars>>

(* rows.Scan fills the destination and the row is handed over: appended to *)
(* the slice, kept as the one row, or yielded to the loop.                 *)
ScanAppendsTwice(c) ==
    /\ pc[c] = "scan"
    /\ rows[c] = "open"
    /\ got' = [got EXCEPT ![c] = @ + 2]
    /\ Goto(c, IF op[c] \in SingleRow THEN Exit(c)
               ELSE IF op[c] = "SelectIter" THEN "body" ELSE "next")
    /\ UNCHANGED <<callVars, rowVars, err, stopped, late, poolVars>>

Scan(c) ==
    /\ pc[c] = "scan"
    /\ rows[c] = "open"
    /\ got' = [got EXCEPT ![c] = @ + 1]
    /\ Goto(c, IF op[c] \in SingleRow THEN Exit(c)
               ELSE IF op[c] = "SelectIter" THEN "body" ELSE "next")
    /\ UNCHANGED <<callVars, rowVars, err, stopped, late, poolVars>>

-----------------------------------------------------------------------------
(* The body of the loop goes on to the next row ... *)
Continue(c) ==
    /\ pc[c] = "body" /\ ~ActiveChild(c)
    /\ Goto(c, "next")
    /\ UNCHANGED <<callVars, rowVars, got, err, stopped, late, poolVars>>

(* ... or leaves the loop: yield returns false, ErrStopIter becomes nil.   *)
Break(c) ==
    /\ pc[c] = "body" /\ ~ActiveChild(c)
    /\ stopped' = [stopped EXCEPT ![c] = TRUE]
    /\ Goto(c, Exit(c))
    /\ UNCHANGED <<callVars, rowVars, got, err, late, poolVars>>

(* The deferred putScanDest, if a buffer was borrowed. *)
Put(c) ==
    /\ pc[c] = "put"
    /\ IF buf[c] # NoBuf THEN PutScanDest(c) ELSE UNCHANGED poolVars
    /\ Goto(c, AfterPut(c))
    /\ UNCHANGED <<callVars, rowVars, got, err, stopped, late>>

(* The deferred rows.Close: its error is returned if there is no other.    *)
(* getScan returns ErrNoRows after that, if no row was found.              *)
AfterClose(c) ==
    CASE op[c] = "RowStructScan" -> "put"
      [] op[c] = "SelectIter" /\ err[c]' # "nil" -> "report"
      [] OTHER -> "returned"

CloseErrorDropped(e) == e
CloseError(e) == IF e = "nil" THEN "close" ELSE e

Close(c) ==
    LET found(e) == IF op[c] = "Get" /\ e = "nil" /\ got[c] = 0 THEN "norows" ELSE e IN
    /\ pc[c] = "close"
    /\ rows' = [rows EXCEPT ![c] = "closed"]
    /\ \/ /\ Fail(c, found(err[c]))
          /\ UNCHANGED fault
       \/ /\ rows[c] = "open"
          /\ fault' = [fault EXCEPT ![c] = "close"]
          /\ Fail(c, found(CloseError(err[c])))
    /\ Goto(c, AfterClose(c))
    /\ UNCHANGED <<callVars, fetched, got, stopped, late, poolVars>>

(* SelectIter yields the error of iterateScan to the loop. *)
Report(c) ==
    /\ pc[c] = "report"
    /\ late' = [late EXCEPT ![c] = stopped[c]]
    /\ Goto(c, "returned")
    /\ UNCHANGED <<callVars, rowVars, got, err, stopped, poolVars>>

(* The caller goes on with what the call returned. *)
Done(c) ==
    /\ pc[c] = "returned"
    /\ Goto(c, "idle")
    /\ op' = [op EXCEPT ![c] = AnyOp]
    /\ rows' = [rows EXCEPT ![c] = IF @ = "open" THEN "open" ELSE "none"]
    /\ parent' = [parent EXCEPT ![c] = NoCall]
    /\ total' = [total EXCEPT ![c] = 0]
    /\ fetched' = [fetched EXCEPT ![c] = 0]
    /\ got' = [got EXCEPT ![c] = 0]
    /\ fault' = [fault EXCEPT ![c] = "none"]
    /\ err' = [err EXCEPT ![c] = "nil"]
    /\ stopped' = [stopped EXCEPT ![c] = FALSE]
    /\ late' = [late EXCEPT ![c] = FALSE]
    /\ UNCHANGED poolVars

(* database/sql closes the rows of a query whose context is done, between  *)
(* any two operations on them; Rows.Err tells, unless all rows were read.  *)
Cancel(c) ==
    /\ rows[c] = "open"
    /\ rows' = [rows EXCEPT ![c] = "closed"]
    /\ fault' = [fault EXCEPT ![c] = IF @ = "none" THEN "read" ELSE @]
    /\ UNCHANGED <<pc, callVars, fetched, got, err, stopped, late, poolVars>>

CollectGarbage ==
    /\ CollectPool
    /\ UNCHANGED <<pc, callVars, rowVars, got, err, stopped, late>>

-----------------------------------------------------------------------------
(* The steps of a call from the moment it has a result. *)
Step(c) ==
    \/ WrongDest(c) \/ ColumnsFail(c) \/ PlanFails(c) \/ ScanDirectly(c) \/ ScanStruct(c)
    \/ Populate(c) \/ PopulateFails(c)
    \/ NextRow(c) \/ NextEnds(c) \/ ScanFails(c) \/ Scan(c)
    \/ Put(c) \/ Close(c) \/ Report(c) \/ Done(c)

Next ==
    \/ \E c \in Calls, o \in Ops, d \in Calls \cup {NoCall} : Start(c, o, d)
    \/ \E c \in Calls :
          Query(c) \/ QueryFails(c) \/ Step(c) \/ Continue(c) \/ Break(c) \/ Cancel(c)
    \/ CollectGarbage

Spec == Init /\ [][Next]_vars
-----------------------------------------------------------------------------
TypeOK ==
    /\ pc \in [Calls -> PCs]
    /\ op \in [Calls -> Ops]
    /\ parent \in [Calls -> Calls \cup {NoCall}]
    /\ rows \in [Calls -> {"none", "open", "closed"}]
    /\ total \in [Calls -> 0..MaxRows]
    /\ fetched \in [Calls -> 0..MaxRows]
    /\ got \in [Calls -> 0..MaxRows]
    /\ fault \in [Calls -> {"none", "eof", "read", "close"}]
    /\ err \in [Calls -> Errors]
    /\ stopped \in [Calls -> BOOLEAN]
    /\ late \in [Calls -> BOOLEAN]
    /\ pool \subseteq Bufs
    /\ slots \in [Bufs -> Seq((Calls \X Nat) \cup {Nil})]
    /\ buf \in [Calls -> Bufs \cup {NoBuf}]
    /\ width \in [Calls -> Nat]

(* No truncated result passes for a whole one: a call that collects rows   *)
(* returns nil only with every row of the result, whatever the driver, the *)
(* context or Close did meanwhile.  A loop over SelectIter that was not    *)
(* left early ends without an error only after the last row.               *)
NilMeansComplete ==
    \A c \in Calls :
       (pc[c] = "returned" /\ err[c] = "nil" /\ ~stopped[c]) =>
          /\ fault[c] # "close"
          /\ IF op[c] \in SingleRow
             THEN got[c] = 1
             ELSE got[c] = total[c] /\ fault[c] = "eof"

(* ErrNoRows is told apart from failure: it is returned only when the      *)
(* query really had no row, and a driver error is never turned into it.    *)
NoRowsMeansEmpty ==
    \A c \in Calls :
       (pc[c] = "returned" /\ err[c] = "norows") => total[c] = 0 /\ fault[c] # "read"

(* A scan buffer has one user: no two calls hold one backing array, nor is *)
(* one in the pool while a call (an iteration whose body runs, too) holds  *)
(* it.                                                                     *)
BufferHasOneUser ==
    \A c \in Calls : buf[c] # NoBuf =>
       /\ buf[c] \notin pool
       /\ \A d \in Calls \ {c} : buf[d] # buf[c]

(* When the driver writes a row, every slot of the call points into the    *)
(* destination of that row: not of an earlier row, nor of another call     *)
(* that used the buffer before or runs in the loop body.                   *)
SlotsPointToThisRow ==
    \A c \in Calls : (pc[c] = "scan" /\ buf[c] # NoBuf) =>
       \A i \in 1..width[c] : slots[buf[c]][i] = <<c, Target(c)>>

(* The pool keeps no pointer into a caller's struct. *)
PoolIsClear == \A b \in pool : \A i \in DOMAIN slots[b] : slots[b][i] = Nil

(* A call gives back what it took: when it returns, its connection is free *)
(* and its buffer is back, whichever error ended it.  Row.StructScan keeps *)
(* the connection if it fails before Row.Scan (DriftReleasesConnection).   *)
ReleasedOnReturn ==
    \A c \in Calls : pc[c] = "returned" =>
       /\ buf[c] = NoBuf
       /\ op[c] # "RowStructScan" \/ err[c] \notin {"dest", "plan"} => rows[c] # "open"

(* Schema drift costs an error, not a connection: "sqlx-v2 returns an      *)
(* error for columns without a matching struct field", and teardown        *)
(* "verifies no goroutine leaks or dangling pool references".              *)
DriftReleasesConnection ==
    \A c \in Calls : (pc[c] = "returned" /\ err[c] = "plan") => rows[c] # "open"

(* "Return ErrStopIter from yield to halt early": after the loop over a    *)
(* SelectIter is left, its yield is not called again.                      *)
StopsWhenTold == \A c \in Calls : ~late[c]
=============================================================================
