------------------------------ MODULE Handles ------------------------------
(***************************************************************************)
(* The handles of the library, DB, Conn, Tx, Stmt, NamedStmt and Rows: how *)
(* one is made from another (db.go, tx.go, conn.go, stmt.go,               *)
(* named_stmt.go) and what a scan through it makes of its Mapper, Unsafe   *)
(* and StrictTagParsing (helpers.go, rows.go).                             *)
(*                                                                         *)
(* A handle copies the configuration of the one it is made from; the       *)
(* fields are exported and may be assigned at any time.  Next to the       *)
(* configuration it has, "cfg", a handle here carries what its caller      *)
(* asked for, "asked": the configuration last assigned to it or to the     *)
(* handle it descends from.  README.md (Unsafe Mode) knows no handle that  *)
(* starts anew.  "lost" is the settings the code did start anew.  Only     *)
(* properties read the two.                                                *)
(*                                                                         *)
(* A plan is a sequence of fields (its cache is module MetaCache's), the   *)
(* caller has called Next before a scan, and what the driver may fail is   *)
(* in module ScanEngine.  A Row is the scan it allows.                     *)
(***************************************************************************)
EXTENDS Naturals, Sequences, FiniteSets

CONSTANTS
    Mappers, Default,  \* field mappers, and defaultMapper
    Configs,           \* configurations a program gives its handles
    StructTypes,
    BadTags,           \* the types with a malformed tag
    Columns,
    ColumnLists,       \* the columns of a result set
    FieldFor,          \* FieldFor[m][t][c]: a field of t, or None
    None,
    MaxHandles, MaxChanges   \* bounds: handles made, handles reconfigured

Plain == [mapper |-> Default, unsafe |-> FALSE, strict |-> FALSE]
AllConfigs == [mapper : Mappers, unsafe : BOOLEAN, strict : BOOLEAN]

ASSUME ConfigAssumption == Default \in Mappers /\ Configs \subseteq AllConfigs
ASSUME DataAssumption ==
    /\ BadTags \subseteq StructTypes /\ None \notin StructTypes
    /\ ColumnLists \subseteq Seq(Columns)
    /\ MaxHandles \in Nat \ {0} /\ MaxChanges \in Nat

VARIABLES
    handles,   \* the handles, in the order they were made
    cursor,    \* the open Rows, or None
    out        \* the last scan, or NoScan

Kinds == {"DB", "Conn", "Tx", "Stmt", "NamedStmt"}
NoScan == [route |-> "none"]
Ids == DOMAIN handles
IsTx(h) == handles[h].kind = "Tx"
(* The transaction h runs in, if any, has not ended. *)
Live(h) == handles[h].tx # 0 => handles[handles[h].tx].state = "open"

HandlesInit ==
    /\ \E c \in Configs :
          handles = <<[kind |-> "DB", from |-> 0, cfg |-> c, asked |-> {c},
                       lost |-> {}, changed |-> FALSE, tx |-> 0, state |-> "open"]>>
    /\ cursor = None
    /\ out = NoScan
-----------------------------------------------------------------------------
(* Making handles.  Bound: not while Rows are open, which they would not   *)
(* affect: Rows have copied what they need.                                *)
Make(new) ==
    /\ cursor = None /\ Len(handles) < MaxHandles
    /\ handles' = Append(handles, new)
    /\ out' = NoScan
    /\ UNCHANGED cursor

Child(h, kind) ==
    [handles[h] EXCEPT !.kind = kind, !.from = h, !.lost = {}, !.changed = FALSE]

Connx(h) == handles[h].kind = "DB" /\ Make(Child(h, "Conn"))

(* Beginx, BeginTxx: what is made from a Tx runs in it. *)
Beginx(h) ==
    /\ handles[h].kind \in {"DB", "Conn"}
    /\ Make([Child(h, "Tx") EXCEPT !.tx = Len(handles) + 1])

(* Preparex: the function of the package sees an interface, Preparer, and  *)
(* no configuration.                                                       *)
Preparex(h) ==
    /\ handles[h].kind \in {"DB", "Tx", "Conn"} /\ Live(h)
    /\ Make([Child(h, "Stmt") EXCEPT !.cfg = Plain, !.lost = {"mapper", "flags"}])

(* PrepareNamed takes the Mapper of the Stmt and the flags of its owner. *)
PrepareNamedOutside(h) ==
    /\ handles[h].kind \in {"DB", "Tx"} /\ Live(h)
    /\ Make([Child(h, "NamedStmt") EXCEPT !.cfg.mapper = Default, !.lost = {"mapper"}, !.tx = 0])
PrepareNamed(h) ==
    /\ handles[h].kind \in {"DB", "Tx"} /\ Live(h)
    /\ Make([Child(h, "NamedStmt") EXCEPT !.cfg.mapper = Default, !.lost = {"mapper"}])

(* Stmtx, NamedStmt: a statement in the transaction, with the              *)
(* configuration of the transaction.  No document says which of the two    *)
(* counts where they differ, so both are asked for.                        *)
AskedOfBoth(t, s) == handles[t].asked \cup handles[s].asked
BoundAsPrepared(t, s) ==
    [Child(t, handles[s].kind) EXCEPT !.cfg = handles[s].cfg, !.asked = AskedOfBoth(t, s)]
BoundTo(t, s) == [Child(t, handles[s].kind) EXCEPT !.asked = AskedOfBoth(t, s)]
Stmtx(t, s) ==
    /\ IsTx(t) /\ handles[s].kind \in {"Stmt", "NamedStmt"} /\ Live(t)
    /\ Make(BoundTo(t, s))

(* The exported fields: db.Unsafe = true, db.MapperFunc(f), tx.Unsafe. *)
Configure(h, c) ==
    /\ handles[h].cfg # c
    /\ Cardinality({k \in Ids : handles[k].changed}) < MaxChanges
    /\ handles' = [handles EXCEPT ![h].cfg = c, ![h].asked = {c},
                                  ![h].lost = {}, ![h].changed = TRUE]
    /\ out' = NoScan
    /\ UNCHANGED cursor
-----------------------------------------------------------------------------
(* Scans. *)
FieldsOf(m, t, columns) == [i \in DOMAIN columns |-> FieldFor[m][t][columns[i]]]
Missing(m, t, columns) == None \in {FieldFor[m][t][columns[i]] : i \in DOMAIN columns}

(* buildMeta: one field per column; a column without one is an error, or   *)
(* in Unsafe mode a value nobody gets.                                     *)
Outcome(error, fields) == [error |-> error, fields |-> fields]
BuildMeta(c, t, columns) ==
    IF ~c.unsafe /\ Missing(c.mapper, t, columns)
    THEN Outcome("missing", <<>>)
    ELSE Outcome("none", FieldsOf(c.mapper, t, columns))

(* iterateScan, and StructScan of a Row or of Rows: first the tags. *)
StrictScan(c, t, columns) ==
    IF c.strict /\ t \in BadTags THEN Outcome("strict", <<>>) ELSE BuildMeta(c, t, columns)

(* A scan through h, a handle or the Rows of one. *)
Scanned(route, t, columns, h, result) ==
    out' = [route |-> route, type |-> t, columns |-> columns, asked |-> h.asked,
            lost |-> h.lost, error |-> result.error, fields |-> result.fields,
            moved |-> FALSE]

(* Select, Get, and QueryRowx(...).StructScan of any handle. *)
Fetch(h, t, columns) ==
    /\ cursor = None /\ Live(h)
    /\ Scanned("Select", t, columns, handles[h], StrictScan(handles[h].cfg, t, columns))
    /\ UNCHANGED <<handles, cursor>>

(* Queryx, NamedQuery: Rows with the configuration of h.  Bound: one Rows  *)
(* at a time, and of the newest handle.                                    *)
Queryx(h, columns) ==
    /\ cursor = None /\ h = Len(handles) /\ Live(h)
    /\ cursor' = [cfg |-> handles[h].cfg, asked |-> handles[h].asked, lost |-> handles[h].lost,
                  tx |-> handles[h].tx, columns |-> columns, started |-> FALSE,
                  meta |-> <<>>, baseType |-> None, plannedFor |-> <<>>, moved |-> FALSE]
    /\ out' = NoScan
    /\ UNCHANGED handles

NextResultSet(columns) ==
    /\ cursor # None
    /\ cursor' = [cursor EXCEPT !.columns = columns, !.moved = cursor.started]
    /\ out' = NoScan
    /\ UNCHANGED handles

CloseRows ==
    /\ cursor # None /\ cursor' = None
    /\ out' = NoScan
    /\ UNCHANGED handles

(* StructScan, MapScan and SliceScan of the package on Rows: neither reads *)
(* nor makes the plan.  MapScan and SliceScan take every column.           *)
StructScan(t) ==
    /\ cursor # None
    /\ Scanned("StructScan", t, cursor.columns, cursor,
               StrictScan(cursor.cfg, t, cursor.columns))
    /\ UNCHANGED <<handles, cursor>>

MapScan ==
    /\ cursor # None
    /\ Scanned("MapScan", None, cursor.columns, cursor, Outcome("none", cursor.columns))
    /\ UNCHANGED <<handles, cursor>>

(* Rows.StructScan plans in its first call that succeeds in it, and keeps  *)
(* the plan; it does not look at StrictTagParsing.  Rows.Scan refuses a    *)
(* number of destinations other than that of the columns.                  *)
AnyType(t) == TRUE
SameType(t) == cursor.baseType = t
ScanInto(r) ==
    IF Len(r.meta) = Len(r.columns) THEN Outcome("none", r.meta) ELSE Outcome("count", <<>>)
PlannedScan(r, t, result) ==
    out' = [route |-> "Rows", type |-> t, columns |-> r.plannedFor, asked |-> r.asked,
            lost |-> r.lost, error |-> result.error, fields |-> result.fields, moved |-> r.moved]

PlanWithoutType(t, plan) ==
    [cursor EXCEPT !.started = TRUE, !.meta = plan.fields, !.plannedFor = cursor.columns]
Plan(t, plan) ==
    [cursor EXCEPT !.started = TRUE, !.meta = plan.fields, !.plannedFor = cursor.columns,
                   !.baseType = t]
FirstStructScan(t) ==
    LET plan == BuildMeta(cursor.cfg, t, cursor.columns) IN
    /\ cursor # None /\ ~cursor.started
    /\ IF plan.error = "none"
       THEN cursor' = Plan(t, plan) /\ PlannedScan(cursor', t, ScanInto(cursor'))
       ELSE UNCHANGED cursor /\ Scanned("Rows", t, cursor.columns, cursor, plan)
    /\ UNCHANGED handles

NextStructScan(t) ==
    /\ cursor # None /\ cursor.started
    /\ PlannedScan(cursor, t, IF SameType(t) THEN ScanInto(cursor) ELSE Outcome("type", <<>>))
    /\ UNCHANGED <<handles, cursor>>

RowsStructScan(t) == FirstStructScan(t) \/ NextStructScan(t)

MakeHandle ==
    \E h \in Ids :
       \/ Connx(h) \/ Beginx(h) \/ Preparex(h) \/ PrepareNamed(h)
       \/ \E s \in Ids : Stmtx(h, s)
       \/ \E c \in Configs : Configure(h, c)

UseRows ==
    \/ MapScan \/ CloseRows
    \/ \E t \in StructTypes : RowsStructScan(t) \/ StructScan(t)
    \/ \E columns \in ColumnLists : NextResultSet(columns)

Query ==
    \E h \in Ids, columns \in ColumnLists :
       Queryx(h, columns) \/ \E t \in StructTypes : Fetch(h, t, columns)

-----------------------------------------------------------------------------
Settings == {"mapper", "flags"}
HandleOK(x) ==
    /\ x.kind \in Kinds /\ x.cfg \in AllConfigs /\ x.asked \subseteq AllConfigs
    /\ x.lost \subseteq Settings /\ x.changed \in BOOLEAN
    /\ x.state \in {"open", "committed", "rolledback"}
    /\ x.from \in 0..Len(handles) /\ x.tx \in 0..Len(handles)

Routes == {"none", "Select", "Rows", "StructScan", "MapScan"}
HandlesTypeOK ==
    /\ Len(handles) \in 1..MaxHandles /\ \A h \in Ids : HandleOK(handles[h])
    /\ cursor # None =>
          /\ cursor.cfg \in AllConfigs /\ cursor.asked \subseteq AllConfigs
          /\ cursor.columns \in ColumnLists /\ cursor.tx \in 0..Len(handles)
          /\ cursor.started => cursor.baseType \in StructTypes
    /\ out.route \in Routes

(* Whatever handles a configuration comes through, a Conn, a Tx, a         *)
(* statement bound to a Tx, Rows, what has not lost it scans as was asked: *)
(* a column without a field is refused only outside Unsafe mode and always *)
(* there, a malformed tag in strict mode and only there, and every value   *)
(* goes to the field the caller's Mapper names.  What is lost, what Rows   *)
(* do with a malformed tag and what they do in another result set are      *)
(* against the documents: the three properties after this one.             *)
StructRoutes == {"Select", "Rows", "StructScan"}
KeepsFlags(a) ==
    LET malformed == a.strict /\ out.type \in BadTags IN
    /\ out.error = "missing" => ~a.unsafe
    /\ out.error = "strict" => malformed
    /\ malformed /\ out.route # "Rows" => out.error = "strict"
KeepsMapper(a) ==
    LET missing == Missing(a.mapper, out.type, out.columns) IN
    /\ out.error = "missing" => missing
    /\ out.error = "none" =>
          (missing => a.unsafe) /\ out.fields = FieldsOf(a.mapper, out.type, out.columns)

ConfigurationIsKept ==
    out.route \in StructRoutes /\ ~out.moved /\ "flags" \notin out.lost =>
       \E a \in out.asked : KeepsFlags(a) /\ ("mapper" \notin out.lost => KeepsMapper(a))

(* README.md, Unsafe Mode: after db.Unsafe = true, or tx.Unsafe = true,    *)
(* unmatched columns are discarded, through whatever is made from db or tx *)
(* (stmt.go, Preparex).                                                    *)
UnsafeIsInherited ==
    out.route \in StructRoutes /\ (\A a \in out.asked : a.unsafe) => out.error # "missing"

(* config_test.go: StrictTagParsing causes an error when a struct has a    *)
(* tag with invalid characters (rows.go, Rows.StructScan).                 *)
RowsCheckTags ==
    out.route = "Rows" /\ out.type \in BadTags /\ (\A a \in out.asked : a.strict) =>
       out.error = "strict"

(* README.md, Unsafe Mode: by default a column without a matching struct   *)
(* field is an error, in every result set (rows.go, Rows.StructScan).      *)
RowsReportDrift ==
    out.route = "Rows" /\ out.error = "none" /\ (\A a \in out.asked : ~a.unsafe) =>
       ~Missing(cursor.cfg.mapper, out.type, cursor.columns)

(* What the documents say of the two modes, of every scan whatever the     *)
(* handle it comes through: both the flags reach each statement made from  *)
(* a DB or a Tx (stmt.go:114), and Rows look at them for each struct and   *)
(* each result set (rows.go:132-155).                                      *)
ModesAreHonoured == UnsafeIsInherited /\ RowsCheckTags /\ RowsReportDrift

(* No value is written past its own struct: the fields a scan fills are of *)
(* the type it was given, and, unless the Rows have moved to another       *)
(* result set since they planned, one for each column they have now.       *)
FillsItsOwnStruct ==
    out.route \in {"Rows", "StructScan"} /\ out.error = "none" =>
       /\ \A i \in DOMAIN out.fields : \E m \in Mappers, c \in Columns :
             out.fields[i] \in {None, FieldFor[m][out.type][c]}
       /\ ~out.moved => out.columns = cursor.columns
=============================================================================
