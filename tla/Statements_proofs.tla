-------------------------- MODULE Statements_proofs --------------------------
(***************************************************************************)
(* Proofs about Statements and the handles it uses, for any number of      *)
(* handles, executions, mappers, types and columns.                        *)
(***************************************************************************)
EXTENDS Statements, TLAPS

States == {"open", "committed", "rolledback"}
HandleRec == [kind : Kinds, from : Nat, cfg : AllConfigs, asked : SUBSET AllConfigs,
              lost : SUBSET Settings, changed : BOOLEAN, tx : Nat, state : States]

(* A configuration is one that was asked for, up to the settings lost.     *)
Kept(c, asked, lost) ==
    "flags" \notin lost =>
       \E a \in asked : /\ c.unsafe = a.unsafe /\ c.strict = a.strict
                        /\ "mapper" \notin lost => c = a

(* A handle has kept its configuration, only what was prepared has lost    *)
(* any of it, and what is made from a transaction runs in it.              *)
WellMade(h) ==
    LET x == handles[h] IN
    /\ Kept(x.cfg, x.asked, x.lost)
    /\ x.lost # {} => x.kind \in {"Stmt", "NamedStmt"}
    /\ x.from \in 0..Len(handles)
    /\ x.tx # 0 => x.tx \in Ids /\ IsTx(x.tx)
    /\ IsTx(h) => x.tx = h
    /\ x.from # 0 /\ IsTx(x.from) => x.tx = x.from
HandlesInv ==
    /\ handles \in Seq(HandleRec) /\ Len(handles) \in 1..MaxHandles
    /\ \A h \in Ids : WellMade(h)

USE DEF Ids, IsTx
-----------------------------------------------------------------------------
LEMMA PlainType == Plain \in AllConfigs
  BY ConfigAssumption DEF Plain, AllConfigs

(* A new handle that is well made leaves the others so. *)
LEMMA MakeStep ==
    ASSUME HandlesInv, NEW new \in HandleRec, Make(new),
           Kept(new.cfg, new.asked, new.lost), new.lost # {} => new.kind \in {"Stmt", "NamedStmt"},
           new.from \in Ids,
           new.kind = "Tx" => new.tx = Len(handles) + 1,
           new.kind # "Tx" => new.tx = handles[new.from].tx,
           new.kind = "Tx" => handles[new.from].kind # "Tx"
    PROVE  HandlesInv'
<1>1. /\ handles' \in Seq(HandleRec) /\ Len(handles') = Len(handles) + 1
      /\ DOMAIN handles = 1..Len(handles) /\ DOMAIN handles' = 1..(Len(handles) + 1)
      /\ \A h \in 1..Len(handles) : handles'[h] = handles[h]
      /\ handles'[Len(handles) + 1] = new
      /\ Len(handles) \in Nat \ {0} /\ handles \in Seq(HandleRec)
  BY DEF Make, HandlesInv
<1>2. Len(handles') \in 1..MaxHandles
  BY <1>1, DataAssumption DEF Make, HandlesInv
<1>3. ASSUME NEW h \in DOMAIN handles' PROVE WellMade(h)'
  <2>1. CASE h \in 1..Len(handles)
    <3>1. WellMade(h) /\ handles'[h] = handles[h]
      BY <1>1, <2>1 DEF HandlesInv
    <3>2. \A k \in 1..Len(handles) : k \in DOMAIN handles'
      BY <1>1
    <3>3. handles[h].from \in Nat /\ handles[h].tx \in Nat
      <4>1. handles[h] \in HandleRec
        BY <1>1, <2>1
      <4> QED
        BY <4>1 DEF HandleRec
    <3> QED
      BY <1>1, <2>1, <3>1, <3>2, <3>3 DEF WellMade, Kept
  <2>2. CASE h = Len(handles) + 1
    <3>1. WellMade(new.from) /\ new.from \in 1..Len(handles) /\ new.from # h
      BY <1>1, <2>2 DEF HandlesInv
    <3>2. handles'[h] = new /\ handles'[new.from] = handles[new.from]
      BY <1>1, <2>2, <3>1
    <3>3. new.from \in 0..Len(handles') /\ new.from # 0
      BY <1>1, <3>1
    <3>4. new.tx # 0 => new.tx \in DOMAIN handles' /\ handles'[new.tx].kind = "Tx"
      BY <1>1, <2>2, <3>1, <3>2 DEF WellMade
    <3>5. handles'[new.from].kind = "Tx" => new.tx = new.from
      BY <3>1, <3>2 DEF WellMade
    <3> QED
      BY <1>1, <2>2, <3>2, <3>3, <3>4, <3>5 DEF WellMade, Kept
  <2> QED
    BY <1>1, <2>1, <2>2
<1> QED
  BY <1>1, <1>2, <1>3 DEF HandlesInv

(* A handle that changes what it has, but not what it is. *)
LEMMA ReplaceStep ==
    ASSUME HandlesInv, NEW h \in Ids, NEW new \in HandleRec, handles' = [handles EXCEPT ![h] = new],
           new.kind = handles[h].kind, new.from = handles[h].from, new.tx = handles[h].tx,
           Kept(new.cfg, new.asked, new.lost), new.lost \subseteq handles[h].lost
    PROVE  HandlesInv'
<1>1. /\ handles' \in Seq(HandleRec) /\ Len(handles') = Len(handles)
      /\ DOMAIN handles = 1..Len(handles) /\ DOMAIN handles' = DOMAIN handles
      /\ handles'[h] = new /\ \A k \in Ids : k # h => handles'[k] = handles[k]
  BY DEF HandlesInv
<1>2. \A k \in Ids : /\ handles'[k].kind = handles[k].kind /\ handles'[k].from = handles[k].from
                     /\ handles'[k].tx = handles[k].tx
  BY <1>1
<1>3. \A k \in Ids : WellMade(k) /\ handles[k] \in HandleRec
  BY DEF HandlesInv
<1>4. ASSUME NEW k \in Ids PROVE WellMade(k)'
  <2>1. handles[k].from \in 0..Len(handles)
    BY <1>3 DEF WellMade
  <2>2. Kept(handles'[k].cfg, handles'[k].asked, handles'[k].lost)
    <3>1. CASE k = h
      BY <1>1, <3>1
    <3>2. CASE k # h
      BY <1>1, <1>3, <3>2 DEF WellMade
    <3> QED
      BY <3>1, <3>2
  <2>3. handles'[k].lost # {} => handles'[k].kind \in {"Stmt", "NamedStmt"}
    BY <1>1, <1>2, <1>3 DEF WellMade
  <2>4. handles'[k].tx # 0 => handles'[k].tx \in Ids /\ handles'[handles'[k].tx].kind = "Tx"
    BY <1>2, <1>3 DEF WellMade
  <2>5. handles'[k].kind = "Tx" => handles'[k].tx = k
    BY <1>2, <1>3 DEF WellMade
  <2>6. ASSUME handles'[k].from # 0, handles'[handles'[k].from].kind = "Tx"
        PROVE  handles'[k].tx = handles'[k].from
    <3>1. handles[k].from \in Ids /\ handles'[k].from = handles[k].from
      BY <1>1, <1>2, <2>1, <2>6
    <3> QED
      BY <1>2, <1>3, <2>6, <3>1 DEF WellMade
  <2>7. handles'[k].from \in 0..Len(handles')
    BY <1>1, <1>2, <2>1
  <2> QED
    BY <1>1, <2>2, <2>3, <2>4, <2>5, <2>6, <2>7 DEF WellMade
<1> QED
  BY <1>1, <1>4 DEF HandlesInv

(* A handle made from h, before what its maker changes of it. *)
LEMMA ChildType ==
    ASSUME HandlesInv, NEW h \in Ids, NEW kind \in Kinds
    PROVE  /\ Child(h, kind) \in HandleRec /\ handles[h] \in HandleRec /\ WellMade(h)
           /\ Child(h, kind).kind = kind /\ Child(h, kind).from = h
           /\ Child(h, kind).cfg = handles[h].cfg /\ Child(h, kind).asked = handles[h].asked
           /\ Child(h, kind).lost = {} /\ Child(h, kind).tx = handles[h].tx
<1>1. handles[h] \in HandleRec /\ h \in Nat /\ WellMade(h)
  BY DEF HandlesInv
<1> QED
  BY <1>1 DEF Child, HandleRec

(* Making a handle. *)
LEMMA MakeHandleStep == HandlesInv /\ MakeHandle => HandlesInv'
<1> SUFFICES ASSUME HandlesInv, NEW h \in Ids,
                    \/ Connx(h) \/ Beginx(h) \/ Preparex(h) \/ PrepareNamed(h)
                    \/ \E s \in Ids : Stmtx(h, s)
                    \/ \E c \in Configs : Configure(h, c)
             PROVE  HandlesInv'
  BY DEF MakeHandle
<1>0. handles[h] \in HandleRec /\ WellMade(h) /\ Len(handles) \in Nat
  BY DEF HandlesInv
<1>00. handles[h].kind \in {"DB", "Tx", "Conn"} =>
          handles[h].lost = {} /\ Kept(handles[h].cfg, handles[h].asked, {})
  BY <1>0 DEF WellMade
<1>1. CASE Connx(h)
  <2> DEFINE new == Child(h, "Conn")
  <2>1. "Conn" \in Kinds
    BY DEF Kinds
  <2>2. /\ new \in HandleRec /\ new.kind = "Conn" /\ new.from = h
        /\ new.tx = handles[h].tx /\ new.lost = {}
        /\ new.cfg = handles[h].cfg /\ new.asked = handles[h].asked
    BY <2>1, ChildType
  <2>3. handles[h].kind = "DB" /\ Make(new)
    BY <1>1 DEF Connx
  <2>4. Kept(new.cfg, new.asked, new.lost)
    BY <1>00, <2>2, <2>3
  <2> HIDE DEF new
  <2> QED
    BY <2>2, <2>3, <2>4, MakeStep
<1>2. CASE Beginx(h)
  <2> DEFINE new == [Child(h, "Tx") EXCEPT !.tx = Len(handles) + 1]
  <2>1. "Tx" \in Kinds
    BY DEF Kinds
  <2>2. Child(h, "Tx") \in HandleRec /\ Child(h, "Tx").lost = {}
        /\ Child(h, "Tx").cfg = handles[h].cfg /\ Child(h, "Tx").asked = handles[h].asked
        /\ Child(h, "Tx").kind = "Tx" /\ Child(h, "Tx").from = h
    BY <2>1, ChildType
  <2>3. /\ new \in HandleRec /\ new.kind = "Tx" /\ new.tx = Len(handles) + 1 /\ new.from = h
        /\ new.cfg = handles[h].cfg /\ new.asked = handles[h].asked /\ new.lost = {}
    BY <1>0, <2>2 DEF HandleRec
  <2>4. handles[h].kind \in {"DB", "Conn"} /\ Make(new)
    BY <1>2 DEF Beginx
  <2>5. Kept(new.cfg, new.asked, new.lost)
    BY <1>00, <2>3, <2>4
  <2> HIDE DEF new
  <2> QED
    BY <2>3, <2>4, <2>5, MakeStep
<1>3. CASE Preparex(h)
  <2> DEFINE new == [Child(h, "Stmt") EXCEPT !.cfg = Plain, !.lost = {"mapper", "flags"}]
  <2>1. "Stmt" \in Kinds
    BY DEF Kinds
  <2>2. Child(h, "Stmt") \in HandleRec /\ Child(h, "Stmt").kind = "Stmt"
        /\ Child(h, "Stmt").from = h /\ Child(h, "Stmt").tx = handles[h].tx
    BY <2>1, ChildType
  <2>3. /\ new \in HandleRec /\ new.kind = "Stmt" /\ new.from = h
        /\ new.tx = handles[h].tx /\ new.lost = {"mapper", "flags"}
    BY <2>2, PlainType DEF HandleRec, Settings
  <2>4. Make(new)
    BY <1>3 DEF Preparex
  <2>5. Kept(new.cfg, new.asked, new.lost)
    BY <2>3 DEF Kept
  <2> HIDE DEF new
  <2> QED
    BY <2>3, <2>4, <2>5, MakeStep
<1>4. CASE PrepareNamed(h)
  <2> DEFINE new == [Child(h, "NamedStmt") EXCEPT !.cfg.mapper = Default, !.lost = {"mapper"}]
  <2>1. "NamedStmt" \in Kinds
    BY DEF Kinds
  <2>2. Child(h, "NamedStmt") \in HandleRec /\ Child(h, "NamedStmt").kind = "NamedStmt"
        /\ Child(h, "NamedStmt").from = h /\ Child(h, "NamedStmt").tx = handles[h].tx
        /\ Child(h, "NamedStmt").cfg = handles[h].cfg
        /\ Child(h, "NamedStmt").asked = handles[h].asked
    BY <2>1, ChildType
  <2>3. Kept(handles[h].cfg, handles[h].asked, {})
    BY <1>00, <1>4 DEF PrepareNamed
  <2>4. handles[h].cfg \in AllConfigs
    BY <1>0 DEF HandleRec
  <2>5. [handles[h].cfg EXCEPT !.mapper = Default] \in AllConfigs
    BY <2>4, ConfigAssumption DEF AllConfigs
  <2>6. /\ new \in HandleRec /\ new.kind = "NamedStmt" /\ new.from = h
        /\ new.tx = handles[h].tx /\ new.lost = {"mapper"} /\ new.asked = handles[h].asked
        /\ new.cfg = [handles[h].cfg EXCEPT !.mapper = Default]
    BY <2>2, <2>5 DEF HandleRec, Settings
  <2>7. Make(new)
    BY <1>4 DEF PrepareNamed
  <2>8. Kept(new.cfg, new.asked, new.lost)
    <3>1. new.cfg.unsafe = handles[h].cfg.unsafe /\ new.cfg.strict = handles[h].cfg.strict
      BY <2>4, <2>6 DEF AllConfigs
    <3> HIDE DEF new
    <3> QED
      BY <2>3, <2>6, <3>1 DEF Kept
  <2> HIDE DEF new
  <2> QED
    BY <2>6, <2>7, <2>8, MakeStep
<1>5. ASSUME NEW s \in Ids, Stmtx(h, s) PROVE HandlesInv'
  <2> DEFINE child == Child(h, handles[s].kind)
             asked == handles[h].asked \cup handles[s].asked
             new == [child EXCEPT !.asked = asked]
  <2>1. handles[s].kind \in Kinds
    BY <1>5 DEF Stmtx, Kinds
  <2>2. /\ child \in HandleRec /\ child.kind = handles[s].kind /\ child.from = h
        /\ child.tx = handles[h].tx /\ child.lost = {} /\ child.cfg = handles[h].cfg
    BY <2>1, ChildType
  <2>3. asked \in SUBSET AllConfigs
    <3>1. handles[s] \in HandleRec
      BY DEF HandlesInv
    <3> QED
      BY <1>0, <3>1 DEF HandleRec
  <2>4. Make(new) /\ IsTx(h) /\ handles[s].kind # "Tx"
    BY <1>5 DEF Stmtx, BoundTo, AskedOfBoth
  <2> HIDE DEF child, asked
  <2>5. /\ new \in HandleRec /\ new.kind = handles[s].kind /\ new.from = h
        /\ new.tx = handles[h].tx /\ new.lost = {} /\ new.cfg = handles[h].cfg
        /\ new.asked = asked
    BY <2>2, <2>3 DEF HandleRec
  <2> HIDE DEF new
  <2>6. Kept(new.cfg, new.asked, new.lost)
    BY <1>00, <2>4, <2>5 DEF Kept, asked
  <2> QED
    BY <2>4, <2>5, <2>6, MakeStep
<1>6. ASSUME NEW c \in Configs, Configure(h, c) PROVE HandlesInv'
  <2>1. c \in AllConfigs
    BY ConfigAssumption
  <2>2. handles' = [handles EXCEPT ![h] =
                      [@ EXCEPT !.cfg = c, !.asked = {c}, !.lost = {}, !.changed = TRUE]]
    BY <1>6 DEF Configure
  <2>3. /\ handles'[h] \in HandleRec /\ handles'[h].cfg = c /\ handles'[h].asked = {c}
        /\ handles'[h].lost = {} /\ handles'[h].kind = handles[h].kind
        /\ handles'[h].from = handles[h].from /\ handles'[h].tx = handles[h].tx
    BY <1>0, <2>1, <2>2 DEF HandleRec
  <2> QED
    BY <2>2, <2>3, ReplaceStep DEF Kept
<1> QED
  BY <1>1, <1>2, <1>3, <1>4, <1>5, <1>6

(* What making or reconfiguring a handle leaves of the others. *)
LEMMA MakeHandleKeeps ==
    ASSUME HandlesInv, MakeHandle
    PROVE  /\ UNCHANGED cursor /\ out' = NoScan /\ Len(handles') >= Len(handles)
           /\ \A h \in Ids : /\ h \in DOMAIN handles' /\ handles'[h].kind = handles[h].kind
                             /\ handles'[h].from = handles[h].from
                             /\ handles'[h].tx = handles[h].tx
                             /\ handles'[h].state = handles[h].state
<1>0. handles \in Seq(HandleRec) /\ DOMAIN handles = 1..Len(handles)
  BY DEF HandlesInv
<1>1. ASSUME NEW new, Make(new)
      PROVE  /\ UNCHANGED cursor /\ out' = NoScan /\ Len(handles') = Len(handles) + 1
             /\ \A h \in Ids : h \in DOMAIN handles' /\ handles'[h] = handles[h]
  <2>1. handles' = Append(handles, new) /\ UNCHANGED cursor /\ out' = NoScan
    BY <1>1 DEF Make
  <2>2. handles \in Seq(HandleRec \cup {new}) /\ new \in HandleRec \cup {new}
    BY <1>0
  <2> QED
    BY <1>0, <2>1, <2>2
<1>2. ASSUME NEW h \in Ids, NEW c \in Configs, Configure(h, c)
      PROVE  /\ UNCHANGED cursor /\ out' = NoScan /\ Len(handles') = Len(handles)
             /\ \A k \in Ids : /\ k \in DOMAIN handles' /\ handles'[k].kind = handles[k].kind
                               /\ handles'[k].from = handles[k].from
                               /\ handles'[k].tx = handles[k].tx
                               /\ handles'[k].state = handles[k].state
  <2>1. handles[h] \in HandleRec
    BY <1>0
  <2>2. handles' = [handles EXCEPT ![h] =
                      [@ EXCEPT !.cfg = c, !.asked = {c}, !.lost = {}, !.changed = TRUE]]
        /\ UNCHANGED cursor /\ out' = NoScan
    BY <1>2 DEF Configure
  <2>3. DOMAIN handles' = Ids /\ Len(handles') = Len(handles)
    BY <1>0, <2>2
  <2> QED
    BY <1>0, <2>1, <2>2, <2>3 DEF HandleRec
<1>3. CASE \E new : Make(new)
  BY <1>0, <1>1, <1>3
<1>4. CASE \E h \in Ids, c \in Configs : Configure(h, c)
  BY <1>0, <1>2, <1>4
<1> QED
  BY <1>3, <1>4 DEF MakeHandle, Connx, Beginx, Preparex, PrepareNamed, Stmtx

(* Ending a transaction changes its state alone. *)
LEMMA EndStep ==
    ASSUME HandlesInv, NEW t \in Ids, NEW state \in {"committed", "rolledback"}, End(t, state)
    PROVE  /\ HandlesInv' /\ DOMAIN handles' = Ids /\ Len(handles') = Len(handles)
           /\ handles'[t].state = state /\ handles'[t].kind = "Tx"
           /\ \A h \in Ids : /\ handles'[h].tx = handles[h].tx /\ handles'[h].from = handles[h].from
                             /\ handles'[h].kind = handles[h].kind
                             /\ h # t => handles'[h].state = handles[h].state
<1>0. handles \in Seq(HandleRec) /\ handles[t] \in HandleRec /\ WellMade(t)
  BY DEF HandlesInv
<1> DEFINE new == [handles[t] EXCEPT !.state = state]
<1>1. handles' = [handles EXCEPT ![t] = new]
  BY DEF End
<1>2. /\ new \in HandleRec /\ new.kind = handles[t].kind /\ new.from = handles[t].from
      /\ new.tx = handles[t].tx /\ new.cfg = handles[t].cfg /\ new.asked = handles[t].asked
      /\ new.lost = handles[t].lost /\ new.state = state
  BY <1>0 DEF HandleRec, States
<1>3. Kept(new.cfg, new.asked, new.lost)
  BY <1>0, <1>2 DEF WellMade
<1> HIDE DEF new
<1>4. HandlesInv'
  BY <1>1, <1>2, <1>3, ReplaceStep
<1> QED
  BY <1>0, <1>1, <1>2, <1>4 DEF End
-----------------------------------------------------------------------------
(* The Rows: the plan is that of the type and the columns it was made for. *)
Metas == {<<>>} \cup {FieldsOf(m, t, columns) :
                         m \in Mappers, t \in StructTypes, columns \in ColumnLists}
CursorRec == [cfg : AllConfigs, asked : SUBSET AllConfigs, lost : SUBSET Settings,
              tx : Nat, columns : ColumnLists, started : BOOLEAN, meta : Metas,
              baseType : StructTypes \cup {None}, plannedFor : ColumnLists \cup {<<>>},
              moved : BOOLEAN]
Planned ==
    /\ cursor.baseType \in StructTypes /\ cursor.plannedFor \in ColumnLists
    /\ cursor.meta = FieldsOf(cursor.cfg.mapper, cursor.baseType, cursor.plannedFor)
    /\ Missing(cursor.cfg.mapper, cursor.baseType, cursor.plannedFor) => cursor.cfg.unsafe
    /\ ~cursor.moved => cursor.plannedFor = cursor.columns
CursorInv == cursor # None =>
    /\ cursor \in CursorRec /\ cursor.tx <= Len(handles)
    /\ Kept(cursor.cfg, cursor.asked, cursor.lost)
    /\ IF cursor.started THEN Planned ELSE ~cursor.moved

OutInv == ConfigurationIsKept /\ FillsItsOwnStruct /\ out.route \in Routes

(* The same of the next state: Missing and FieldsOf read no variable. *)
LEMMA PlannedNext ==
    Planned' <=>
       /\ cursor'.baseType \in StructTypes /\ cursor'.plannedFor \in ColumnLists
       /\ cursor'.meta = FieldsOf(cursor'.cfg.mapper, cursor'.baseType, cursor'.plannedFor)
       /\ Missing(cursor'.cfg.mapper, cursor'.baseType, cursor'.plannedFor) => cursor'.cfg.unsafe
       /\ ~cursor'.moved => cursor'.plannedFor = cursor'.columns
  BY Zenon DEF Planned, Missing, FieldsOf

(* What a scan shows of the flags and of the Mapper of a configuration.    *)
ShowsFlags(o, c) ==
    /\ o.error = "missing" => ~c.unsafe
    /\ o.error = "strict" => c.strict /\ o.type \in BadTags
    /\ c.strict /\ o.type \in BadTags /\ o.route # "Rows" => o.error = "strict"
ShowsMapper(o, c) ==
    /\ o.error = "missing" => Missing(c.mapper, o.type, o.columns)
    /\ o.error = "none" => /\ Missing(c.mapper, o.type, o.columns) => c.unsafe
                           /\ o.fields = FieldsOf(c.mapper, o.type, o.columns)

LEMMA OutcomeNext ==
    ConfigurationIsKept' <=>
       (out'.route \in StructRoutes /\ ~out'.moved /\ "flags" \notin out'.lost =>
          \E a \in out'.asked :
             ShowsFlags(out', a) /\ ("mapper" \notin out'.lost => ShowsMapper(out', a)))
  BY Zenon DEF ConfigurationIsKept, KeepsFlags, KeepsMapper, ShowsFlags, ShowsMapper,
               Missing, FieldsOf, StructRoutes

(* A scan that shows the configuration it had shows one that was asked     *)
(* for, as far as it was kept.                                             *)
LEMMA ShowsWhatIsKept ==
    ASSUME NEW o, NEW c, NEW asked, NEW lost, Kept(c, asked, lost),
           ShowsFlags(o, c), ShowsMapper(o, c), "flags" \notin lost
    PROVE  \E a \in asked : ShowsFlags(o, a) /\ ("mapper" \notin lost => ShowsMapper(o, a))
<1>1. PICK a \in asked : /\ c.unsafe = a.unsafe /\ c.strict = a.strict
                         /\ "mapper" \notin lost => c = a
  BY DEF Kept
<1>2. ShowsFlags(o, a)
  BY <1>1 DEF ShowsFlags
<1> QED
  BY <1>1, <1>2

(* What a step leaves alone stays as it is. *)
LEMMA HandlesStay == HandlesInv /\ UNCHANGED handles => HandlesInv'
  BY DEF HandlesInv, WellMade, Kept

LEMMA CursorStays ==
    ASSUME CursorInv, UNCHANGED cursor, Len(handles) \in Nat, Len(handles') \in Nat,
           Len(handles') >= Len(handles)
    PROVE  CursorInv'
<1>1. Planned => Planned'
  BY PlannedNext DEF Planned
<1>2. cursor # None => cursor.tx \in Nat
  BY DEF CursorInv, CursorRec
<1> QED
  BY <1>1, <1>2 DEF CursorInv, CursorRec

LEMMA OutStays == OutInv /\ UNCHANGED <<out, cursor>> => OutInv'
<1> SUFFICES ASSUME OutInv, UNCHANGED <<out, cursor>> PROVE OutInv'
  OBVIOUS
<1>1. ConfigurationIsKept'
  <2>1. ConfigurationIsKept <=>
          (out.route \in StructRoutes /\ ~out.moved /\ "flags" \notin out.lost =>
             \E a \in out.asked :
                ShowsFlags(out, a) /\ ("mapper" \notin out.lost => ShowsMapper(out, a)))
    BY Zenon DEF ConfigurationIsKept, KeepsFlags, KeepsMapper, ShowsFlags, ShowsMapper,
                 Missing, FieldsOf, StructRoutes
  <2>2. out' = out
    OBVIOUS
  <2> QED
    BY <2>1, <2>2, OutcomeNext DEF OutInv
<1>2. FillsItsOwnStruct'
  BY DEF OutInv, FillsItsOwnStruct
<1> QED
  BY <1>1, <1>2 DEF OutInv, Routes

(* buildMeta refuses for cause, and maps every column by the Mapper. *)
LEMMA BuildMetaOutcome ==
    ASSUME NEW c, NEW t, NEW columns
    PROVE  LET r == BuildMeta(c, t, columns) IN
           /\ r.error \in {"none", "missing"}
           /\ r.error = "missing" => Missing(c.mapper, t, columns) /\ ~c.unsafe
           /\ r.error = "none" => /\ r.fields = FieldsOf(c.mapper, t, columns)
                                  /\ Missing(c.mapper, t, columns) => c.unsafe
  BY DEF BuildMeta, Outcome

LEMMA StrictScanOutcome ==
    ASSUME NEW c, NEW t, NEW columns
    PROVE  LET r == StrictScan(c, t, columns) IN
           /\ r.error = "strict" <=> (c.strict /\ t \in BadTags)
           /\ r.error # "strict" => r = BuildMeta(c, t, columns)
  BY BuildMetaOutcome DEF StrictScan, Outcome

(* The fields a Mapper finds for columns are fields of the type. *)
LEMMA FieldsAreOfType ==
    ASSUME NEW m \in Mappers, NEW t, NEW columns \in ColumnLists,
           NEW i \in DOMAIN FieldsOf(m, t, columns)
    PROVE  \E k \in Mappers, c \in Columns :
              FieldsOf(m, t, columns)[i] \in {None, FieldFor[k][t][c]}
<1>1. columns \in Seq(Columns) /\ i \in DOMAIN columns
  BY DataAssumption DEF FieldsOf
<1>2. columns[i] \in Columns /\ FieldsOf(m, t, columns)[i] = FieldFor[m][t][columns[i]]
  BY <1>1 DEF FieldsOf
<1> QED
  BY <1>2

(* What a handle carries. *)
LEMMA HandleHolds ==
    ASSUME HandlesInv, NEW h \in Ids
    PROVE  /\ Kept(handles[h].cfg, handles[h].asked, handles[h].lost)
           /\ handles[h].cfg \in AllConfigs /\ handles[h].asked \in SUBSET AllConfigs
           /\ handles[h].lost \in SUBSET Settings
           /\ handles[h].tx <= Len(handles) /\ handles[h].tx \in Nat
<1>1. handles[h] \in HandleRec /\ WellMade(h) /\ handles \in Seq(HandleRec)
  BY DEF HandlesInv
<1> QED
  BY <1>1 DEF WellMade, HandleRec

(* A scan that goes by the configuration of what it goes through. *)
LEMMA ScannedStep ==
    ASSUME NEW route \in {"Select", "StructScan", "Rows"}, NEW t \in StructTypes,
           NEW columns \in ColumnLists, NEW h, NEW r,
           h.cfg \in AllConfigs, Kept(h.cfg, h.asked, h.lost),
           Scanned(route, t, columns, h, r),
           \/ route # "Rows" /\ r = StrictScan(h.cfg, t, columns)
           \/ route = "Rows" /\ r = BuildMeta(h.cfg, t, columns) /\ r.error # "none",
           route = "StructScan" => columns = cursor'.columns
    PROVE  OutInv'
<1> PICK c \in AllConfigs : c = h.cfg
  OBVIOUS
<1>1. /\ out'.route = route /\ out'.type = t /\ out'.columns = columns /\ out'.asked = h.asked
      /\ out'.lost = h.lost /\ out'.error = r.error /\ out'.fields = r.fields
  BY DEF Scanned
<1>2. /\ route # "Rows" => (r.error = "strict" <=> (c.strict /\ t \in BadTags))
      /\ route = "Rows" => r.error # "strict"
      /\ r.error # "strict" => r = BuildMeta(c, t, columns)
  BY StrictScanOutcome, BuildMetaOutcome
<1>3. /\ r.error = "missing" => Missing(c.mapper, t, columns) /\ ~c.unsafe
      /\ r.error = "none" => /\ r.fields = FieldsOf(c.mapper, t, columns)
                             /\ Missing(c.mapper, t, columns) => c.unsafe
  BY <1>2, BuildMetaOutcome
<1>4. ShowsFlags(out', c) /\ ShowsMapper(out', c)
  BY <1>1, <1>2, <1>3 DEF ShowsFlags, ShowsMapper
<1>5. ConfigurationIsKept'
  BY <1>1, <1>4, ShowsWhatIsKept, OutcomeNext
<1>6. c.mapper \in Mappers
  BY DEF AllConfigs
<1>7. FillsItsOwnStruct'
  BY <1>1, <1>2, <1>3, <1>6, FieldsAreOfType DEF FillsItsOwnStruct
<1> QED
  BY <1>1, <1>5, <1>7 DEF OutInv, Routes

(* A scan that goes by the plan. *)
LEMMA PlannedStep ==
    ASSUME Planned', Kept(cursor'.cfg, cursor'.asked, cursor'.lost), cursor'.cfg \in AllConfigs,
           NEW t \in StructTypes, NEW r,
           PlannedScan(cursor', t, r), r.error \in {"none", "count", "type"},
           r.error = "none" => cursor'.baseType = t /\ r.fields = cursor'.meta
    PROVE  OutInv'
<1>1. /\ out'.route = "Rows" /\ out'.type = t /\ out'.columns = cursor'.plannedFor
      /\ out'.asked = cursor'.asked /\ out'.lost = cursor'.lost
      /\ out'.error = r.error /\ out'.fields = r.fields /\ out'.moved = cursor'.moved
  BY DEF PlannedScan
<1>2. ShowsFlags(out', cursor'.cfg) /\ ShowsMapper(out', cursor'.cfg)
  BY <1>1, PlannedNext DEF ShowsFlags, ShowsMapper
<1>3. cursor'.cfg.mapper \in Mappers
  BY DEF AllConfigs
<1>4. ConfigurationIsKept'
  BY <1>1, <1>2, ShowsWhatIsKept, OutcomeNext
<1>5. FillsItsOwnStruct'
  BY <1>1, <1>3, FieldsAreOfType DEF FillsItsOwnStruct, Planned
<1> QED
  BY <1>1, <1>4, <1>5 DEF OutInv, Routes

LEMMA NoScanOut == ASSUME out' = NoScan PROVE OutInv'
  BY DEF OutInv, NoScan, ConfigurationIsKept, StructRoutes, FillsItsOwnStruct, Routes

HInv == HandlesInv /\ CursorInv /\ OutInv

(* A query, and the scans that need no Rows. *)
LEMMA QueryStep == ASSUME HInv, Query PROVE HInv' /\ UNCHANGED handles
<1> PICK h \in Ids, columns \in ColumnLists :
         Queryx(h, columns) \/ \E t \in StructTypes : Fetch(h, t, columns)
  BY DEF Query
<1> USE DEF HInv
<1>0. /\ Kept(handles[h].cfg, handles[h].asked, handles[h].lost)
      /\ handles[h].cfg \in AllConfigs /\ handles[h].asked \in SUBSET AllConfigs
      /\ handles[h].lost \in SUBSET Settings
      /\ handles[h].tx <= Len(handles) /\ handles[h].tx \in Nat
  BY HandleHolds
<1>1. CASE Queryx(h, columns)
  <2>1. UNCHANGED handles /\ out' = NoScan /\ cursor' \in CursorRec
        /\ cursor'.tx = handles[h].tx /\ Kept(cursor'.cfg, cursor'.asked, cursor'.lost)
        /\ ~cursor'.started /\ ~cursor'.moved
    BY <1>0, <1>1 DEF Queryx, CursorRec, Metas
  <2>2. HandlesInv' /\ CursorInv'
    BY <1>0, <2>1 DEF HandlesInv, WellMade, Kept, CursorInv
  <2> QED
    BY <2>1, <2>2, NoScanOut
<1>2. ASSUME NEW t \in StructTypes, Fetch(h, t, columns) PROVE HInv' /\ UNCHANGED handles
  <2>1. UNCHANGED <<handles, cursor>>
    BY <1>2 DEF Fetch
  <2>2. HandlesInv' /\ CursorInv'
    BY <2>1 DEF HandlesInv, WellMade, Kept, CursorInv, Planned
  <2>3. OutInv'
    BY <1>0, <1>2, ScannedStep DEF Fetch
  <2> QED
    BY <2>1, <2>2, <2>3
<1> QED
  BY <1>1, <1>2

(* Planning in the first call of Rows.StructScan. *)
LEMMA FirstStructScanStep ==
    ASSUME HInv, NEW t \in StructTypes, FirstStructScan(t)
    PROVE  CursorInv' /\ OutInv'
<1> DEFINE plan == BuildMeta(cursor.cfg, t, cursor.columns)
<1>0. /\ cursor # None /\ cursor \in CursorRec /\ ~cursor.started /\ ~cursor.moved
      /\ cursor.tx <= Len(handles) /\ Kept(cursor.cfg, cursor.asked, cursor.lost)
      /\ UNCHANGED handles
  BY DEF FirstStructScan, HInv, CursorInv
<1>1. /\ cursor.cfg \in AllConfigs /\ cursor.columns \in ColumnLists
      /\ cursor.cfg.mapper \in Mappers
  BY <1>0 DEF CursorRec, AllConfigs
<1>2. CASE plan.error = "none"
  <2>1. /\ plan.fields = FieldsOf(cursor.cfg.mapper, t, cursor.columns)
        /\ Missing(cursor.cfg.mapper, t, cursor.columns) => cursor.cfg.unsafe
    BY <1>2, BuildMetaOutcome
  <2>2. plan.fields \in Metas
    BY <1>1, <2>1 DEF Metas
  <2>3. cursor' = [cursor EXCEPT !.started = TRUE, !.meta = plan.fields,
                                 !.plannedFor = cursor.columns, !.baseType = t]
        /\ PlannedScan(cursor', t, ScanInto(cursor'))
    BY <1>2 DEF FirstStructScan, Plan
  <2> HIDE DEF plan
  <2>4. /\ cursor' \in CursorRec /\ cursor'.started /\ cursor'.baseType = t /\ ~cursor'.moved
        /\ cursor'.meta = plan.fields /\ cursor'.plannedFor = cursor.columns
        /\ cursor'.columns = cursor.columns /\ cursor'.cfg = cursor.cfg
        /\ cursor'.asked = cursor.asked /\ cursor'.lost = cursor.lost /\ cursor'.tx = cursor.tx
    BY <1>0, <1>1, <2>2, <2>3 DEF CursorRec
  <2>5. Planned'
    BY <1>1, <2>1, <2>4, PlannedNext
  <2>6. CursorInv'
    BY <1>0, <2>4, <2>5 DEF CursorInv
  <2>7. /\ ScanInto(cursor').error \in {"none", "count", "type"}
        /\ ScanInto(cursor').error = "none" => ScanInto(cursor').fields = cursor'.meta
    BY DEF ScanInto, Outcome
  <2> QED
    BY <1>0, <1>1, <2>3, <2>4, <2>5, <2>6, <2>7, PlannedStep
<1>3. CASE plan.error # "none"
  <2>1. UNCHANGED cursor /\ Scanned("Rows", t, cursor.columns, cursor, plan)
    BY <1>3 DEF FirstStructScan
  <2>2. OutInv'
    BY <1>0, <1>1, <1>3, <2>1, ScannedStep
  <2>3. CursorInv'
    BY <1>0, <2>1 DEF CursorInv
  <2> QED
    BY <2>2, <2>3
<1> QED
  BY <1>2, <1>3

(* Whatever a program does with open Rows. *)
LEMMA UseRowsStep == ASSUME HInv, UseRows PROVE HInv' /\ UNCHANGED handles
<1> USE DEF HInv
<1>0. UNCHANGED handles
  BY DEF UseRows, MapScan, CloseRows, RowsStructScan, FirstStructScan, NextStructScan,
         StructScan, NextResultSet
<1>1. HandlesInv'
  BY <1>0 DEF HandlesInv, WellMade, Kept
<1>2. cursor # None /\ cursor \in CursorRec /\ Kept(cursor.cfg, cursor.asked, cursor.lost)
      /\ cursor.tx <= Len(handles) /\ IF cursor.started THEN Planned ELSE ~cursor.moved
  BY DEF UseRows, MapScan, CloseRows, RowsStructScan, FirstStructScan, NextStructScan,
         StructScan, NextResultSet, CursorInv
<1>3. cursor.cfg \in AllConfigs /\ cursor.columns \in ColumnLists
  BY <1>2 DEF CursorRec
<1>4. ASSUME UNCHANGED cursor PROVE CursorInv' /\ (cursor.started => Planned')
  BY <1>0, <1>2, <1>4, PlannedNext DEF CursorInv, Planned
<1>5. CASE MapScan
  <2>1. out'.route = "MapScan"
    BY <1>5 DEF MapScan, Scanned
  <2>2. OutInv'
    BY <2>1 DEF OutInv, ConfigurationIsKept, StructRoutes, FillsItsOwnStruct, Routes
  <2> QED
    BY <1>0, <1>1, <1>4, <1>5, <2>2 DEF MapScan
<1>6. CASE CloseRows
  BY <1>0, <1>1, <1>6, NoScanOut DEF CloseRows, CursorInv
<1>7. ASSUME NEW t \in StructTypes, FirstStructScan(t) PROVE HInv'
  BY <1>1, <1>7, FirstStructScanStep
<1>8. ASSUME NEW t \in StructTypes, NextStructScan(t) PROVE HInv'
  <2> DEFINE r == IF SameType(t) THEN ScanInto(cursor) ELSE Outcome("type", <<>>)
  <2>1. UNCHANGED cursor /\ cursor.started /\ PlannedScan(cursor, t, r)
    BY <1>8 DEF NextStructScan
  <2>2. /\ r.error \in {"none", "count", "type"}
        /\ r.error = "none" => cursor.baseType = t /\ r.fields = cursor.meta
    BY DEF ScanInto, Outcome, SameType
  <2> HIDE DEF r
  <2>3. PlannedScan(cursor', t, r)
    BY <2>1 DEF PlannedScan
  <2>4. OutInv'
    BY <1>2, <1>3, <1>4, <2>1, <2>2, <2>3, PlannedStep
  <2> QED
    BY <1>1, <1>4, <2>1, <2>4
<1>9. ASSUME NEW t \in StructTypes, StructScan(t) PROVE HInv'
  <2>1. OutInv'
    BY <1>2, <1>3, <1>9, ScannedStep DEF StructScan
  <2> QED
    BY <1>1, <1>4, <1>9, <2>1 DEF StructScan
<1>10. ASSUME NEW columns \in ColumnLists, NextResultSet(columns) PROVE HInv'
  <2>1. cursor' = [cursor EXCEPT !.columns = columns, !.moved = cursor.started]
    BY <1>10 DEF NextResultSet
  <2>2. /\ cursor' \in CursorRec /\ cursor'.started = cursor.started
        /\ cursor'.moved = cursor.started /\ cursor'.cfg = cursor.cfg
        /\ cursor'.asked = cursor.asked /\ cursor'.lost = cursor.lost
        /\ cursor'.tx = cursor.tx /\ cursor'.meta = cursor.meta
        /\ cursor'.baseType = cursor.baseType /\ cursor'.plannedFor = cursor.plannedFor
    BY <1>2, <2>1 DEF CursorRec
  <2>3. cursor.started => Planned'
    BY <1>2, <2>2, PlannedNext DEF Planned
  <2>4. CursorInv'
    BY <1>0, <1>2, <2>2, <2>3 DEF CursorInv
  <2> QED
    BY <1>1, <1>10, <2>4, NoScanOut DEF NextResultSet
<1> QED
  BY <1>0, <1>5, <1>6, <1>7, <1>8, <1>9, <1>10 DEF UseRows, RowsStructScan

(* Making handles does not touch Rows. *)
LEMMA MakeHandleHInv == ASSUME HInv, MakeHandle PROVE HInv'
<1>1. /\ UNCHANGED cursor /\ out' = NoScan /\ Len(handles') >= Len(handles)
      /\ Len(handles) \in Nat /\ Len(handles') \in Nat
  BY MakeHandleKeeps, MakeHandleStep DEF HInv, HandlesInv
<1>2. CursorInv'
  BY <1>1, CursorStays DEF HInv
<1> QED
  BY <1>1, <1>2, MakeHandleStep, NoScanOut DEF HInv

(* The first handle. *)
LEMMA HandlesInitInv == HandlesInit => HInv
<1> SUFFICES ASSUME HandlesInit PROVE HInv
  OBVIOUS
<1> PICK c \in Configs :
         handles = <<[kind |-> "DB", from |-> 0, cfg |-> c, asked |-> {c},
                      lost |-> {}, changed |-> FALSE, tx |-> 0, state |-> "open"]>>
  BY DEF HandlesInit
<1>1. c \in AllConfigs /\ Len(handles) = 1 /\ DOMAIN handles = {1}
  BY ConfigAssumption
<1>2. handles[1] \in HandleRec /\ handles \in Seq(HandleRec)
  BY <1>1 DEF HandleRec, Kinds, States
<1>3. HandlesInv
  BY <1>1, <1>2, DataAssumption DEF HandlesInv, WellMade, Kept
<1>4. CursorInv /\ OutInv
  BY DEF HandlesInit, CursorInv, OutInv, NoScan, ConfigurationIsKept, StructRoutes, FillsItsOwnStruct, Routes
<1> QED
  BY <1>3, <1>4 DEF HInv
-----------------------------------------------------------------------------
(* The executions: how far each has come, and what it left. *)
ExecRec == [h : Nat, whole : BOOLEAN, slice : Slices, next : Nat, res : Nat, state : ExecStates]
Applied(e) == IF RolledBack(e) THEN {} ELSE 1..(execs[e].next - 1)
ExecInv(e) ==
    LET x == execs[e] IN
    /\ x.h \in Ids /\ x.next \in 1..(Len(x.slice) + 1)
    /\ x.state = "running" => x.next <= Len(x.slice) /\ ~x.whole
    /\ x.state = "returned" => x.next = Len(x.slice) + 1
    /\ x.state \in {"bind", "exec"} => x.next <= Len(x.slice) \/ x.slice = <<>>
    /\ x.whole => x.next \in {1, Len(x.slice) + 1}
    /\ x.res = IF x.state = "exec" THEN 0 ELSE x.next - 1
    /\ Rows(e) = Applied(e)
RowOK(r) == \E d \in DOMAIN execs, i \in 1..MaxSlice : r = <<d, i>>
ExecsInv ==
    /\ execs \in Seq(ExecRec) /\ Len(execs) <= MaxExecs
    /\ \A r \in table : RowOK(r)
    /\ \A e \in DOMAIN execs : ExecInv(e)

Inv == HInv /\ ExecsInv

LEMMA SliceLen ==
    ASSUME NEW s \in Slices
    PROVE  s \in Seq(Elements) /\ Len(s) \in 0..MaxSlice /\ DOMAIN s = 1..Len(s)
           /\ (s = <<>> <=> Len(s) = 0)
<1>1. PICK n \in 0..MaxSlice : s \in [1..n -> Elements]
  BY DEF Slices
<1>2. n \in Nat
  BY BoundAssumption
<1>3. s \in Seq(Elements) /\ Len(s) = n
  BY <1>1, <1>2
<1> QED
  BY <1>1, <1>2, <1>3, BoundAssumption

(* An execution stays as it is if its transaction, the rows it left and    *)
(* the execution itself do.                                                *)
LEMMA ExecKept ==
    ASSUME NEW e \in DOMAIN execs, ExecInv(e), execs'[e] = execs[e], Rows(e)' = Rows(e),
           RolledBack(e)' = RolledBack(e), Ids \subseteq DOMAIN handles'
    PROVE  ExecInv(e)'
  BY DEF ExecInv, Applied

(* As long as the handles stay as they are, or one is made. *)
LEMMA HandlesKeepExecs ==
    ASSUME HandlesInv, ExecsInv, UNCHANGED dbVars,
           \A h \in Ids : /\ h \in DOMAIN handles' /\ handles'[h].tx = handles[h].tx
                          /\ handles'[h].state = handles[h].state
    PROVE  ExecsInv'
<1>1. ASSUME NEW e \in DOMAIN execs PROVE ExecInv(e)'
  <2>1. ExecInv(e) /\ execs[e].h \in Ids /\ WellMade(execs[e].h)
    BY DEF ExecsInv, ExecInv, HandlesInv
  <2>2. RolledBack(e)' = RolledBack(e)
    BY <2>1 DEF RolledBack, WellMade, dbVars
  <2>3. Rows(e)' = Rows(e) /\ execs'[e] = execs[e]
    BY DEF Rows, dbVars
  <2> QED
    BY <2>1, <2>2, <2>3, ExecKept
<1> QED
  BY <1>1 DEF ExecsInv, RowOK, dbVars

(* A new execution. *)
LEMMA NewExecStep ==
    ASSUME HandlesInv, ExecsInv, UNCHANGED handles, NEW x \in ExecRec,
           execs' = Append(execs, x), Len(execs) < MaxExecs,
           table' = table \cup {<<Len(execs) + 1, i>> : i \in 1..(x.next - 1)},
           x.h \in Ids, x.next \in 1..(Len(x.slice) + 1),
           x.state = "running" => x.next <= Len(x.slice) /\ ~x.whole,
           x.state = "returned" => x.next = Len(x.slice) + 1,
           x.state \in {"bind", "exec"} => x.next <= Len(x.slice) \/ x.slice = <<>>,
           x.whole => x.next \in {1, Len(x.slice) + 1},
           x.res = IF x.state = "exec" THEN 0 ELSE x.next - 1,
           x.next # 1 => Live(x.h)
    PROVE  ExecsInv'
<1>0. execs \in Seq(ExecRec) /\ Len(execs) \in Nat /\ DOMAIN execs = 1..Len(execs)
  BY DEF ExecsInv
<1>1. /\ execs' \in Seq(ExecRec) /\ Len(execs') = Len(execs) + 1 /\ execs \in Seq(ExecRec)
      /\ DOMAIN execs = 1..Len(execs) /\ DOMAIN execs' = 1..(Len(execs) + 1)
      /\ execs'[Len(execs) + 1] = x /\ \A e \in DOMAIN execs : execs'[e] = execs[e]
      /\ Len(execs) \in Nat
  BY <1>0
<1>2. Len(x.slice) \in 0..MaxSlice /\ x.next - 1 \in 0..MaxSlice
  BY SliceLen, BoundAssumption DEF ExecRec
<1>3. ASSUME NEW r \in table' PROVE RowOK(r)'
  <2>1. CASE r \in table
    BY <1>1, <2>1 DEF ExecsInv, RowOK
  <2>2. CASE r \notin table
    <3>1. PICK i \in 1..(x.next - 1) : r = <<Len(execs) + 1, i>>
      BY <2>2
    <3>2. i \in 1..MaxSlice /\ Len(execs) + 1 \in DOMAIN execs'
      BY <1>1, <1>2, <3>1, BoundAssumption
    <3> QED
      BY <3>1, <3>2 DEF RowOK
  <2> QED
    BY <2>1, <2>2
<1>4. ASSUME NEW e \in DOMAIN execs PROVE ExecInv(e)'
  <2>1. Rows(e)' = Rows(e) /\ execs'[e] = execs[e] /\ RolledBack(e)' = RolledBack(e)
    BY <1>1 DEF Rows, RolledBack
  <2> QED
    BY <2>1, ExecKept DEF ExecsInv
<1>5. ASSUME NEW e \in Nat, e = Len(execs) + 1 PROVE ExecInv(e)'
  <2>1. execs'[e] = x /\ \A i \in 1..MaxSlice : <<e, i>> \notin table
    <3>1. execs'[e] = x /\ e \notin DOMAIN execs
      <4> HIDE DEF Ids
      <4> QED
        BY <1>1, <1>5, SMT
    <3>2. \A r \in table : RowOK(r)
      BY DEF ExecsInv
    <3>3. \A i : <<e, i>> \notin table
      BY <3>1, <3>2 DEF RowOK
    <3> QED
      BY <3>1, <3>3
  <2>2. Rows(e)' = 1..(x.next - 1)
    <3>1. \A i \in 1..(x.next - 1) : i \in 1..MaxSlice
      BY <1>2, BoundAssumption
    <3> QED
      BY <1>5, <2>1, <3>1 DEF Rows
  <2>3. RolledBack(e)' => x.next = 1
    BY <2>1 DEF RolledBack, Live
  <2>4. Rows(e)' = Applied(e)'
    BY <1>2, <2>1, <2>2, <2>3 DEF Applied
  <2> QED
    BY <2>1, <2>4 DEF ExecInv
<1>6. ASSUME NEW e \in DOMAIN execs' PROVE ExecInv(e)'
  BY <1>1, <1>4, <1>5, <1>6
<1>7. Len(execs') <= MaxExecs
  BY <1>1, BoundAssumption
<1> QED
  BY <1>1, <1>3, <1>6, <1>7 DEF ExecsInv

(* A step of one execution, over the element it has come to. *)
LEMMA ExecStep ==
    ASSUME HandlesInv, ExecsInv, UNCHANGED handles, NEW e \in DOMAIN execs, NEW x \in ExecRec,
           execs' = [execs EXCEPT ![e] = x],
           x.h = execs[e].h, x.slice = execs[e].slice, x.whole = execs[e].whole,
           \/ /\ UNCHANGED table /\ x.next = execs[e].next
           \/ /\ table' = table \cup {<<e, execs[e].next>>} /\ x.next = execs[e].next + 1
              /\ ~RolledBack(e) /\ execs[e].next <= Len(execs[e].slice),
           ~x.whole, x.state = "running" => x.next <= Len(x.slice),
           x.state = "returned" => x.next = Len(x.slice) + 1,
           x.state \in {"bind", "exec"} => x.next <= Len(x.slice),
           x.res = IF x.state = "exec" THEN 0 ELSE x.next - 1
    PROVE  ExecsInv'
<1>1. /\ execs' \in Seq(ExecRec) /\ Len(execs') = Len(execs) /\ DOMAIN execs' = DOMAIN execs
      /\ execs'[e] = x /\ \A d \in DOMAIN execs : d # e => execs'[d] = execs[d]
      /\ ExecInv(e) /\ execs[e] \in ExecRec
  BY DEF ExecsInv
<1>2. Len(x.slice) \in 0..MaxSlice /\ execs[e].next \in 1..(Len(x.slice) + 1)
  BY <1>1, SliceLen DEF ExecRec, ExecInv
<1>3. ASSUME NEW r \in table' PROVE RowOK(r)'
  <2>1. CASE r \in table
    BY <1>1, <2>1 DEF ExecsInv, RowOK
  <2>2. CASE r \notin table
    <3>1. r = <<e, execs[e].next>> /\ execs[e].next <= Len(execs[e].slice)
      BY <2>2
    <3>2. execs[e].next \in 1..MaxSlice
      BY <1>2, <3>1, BoundAssumption
    <3> QED
      BY <1>1, <3>1, <3>2 DEF RowOK
  <2> QED
    BY <2>1, <2>2
<1>4. ASSUME NEW d \in DOMAIN execs, d # e PROVE ExecInv(d)'
  <2>1. Rows(d)' = Rows(d) /\ execs'[d] = execs[d] /\ RolledBack(d)' = RolledBack(d)
    BY <1>1, <1>4 DEF Rows, RolledBack
  <2> QED
    BY <2>1, ExecKept DEF ExecsInv
<1>5. ExecInv(e)'
  <2>1. RolledBack(e)' = RolledBack(e)
    BY <1>1 DEF RolledBack
  <2>2. Rows(e)' = Applied(e)'
    <3>1. CASE UNCHANGED table /\ x.next = execs[e].next
      BY <1>1, <2>1, <3>1 DEF Rows, Applied, ExecInv
    <3>2. CASE /\ table' = table \cup {<<e, execs[e].next>>} /\ x.next = execs[e].next + 1
               /\ ~RolledBack(e) /\ execs[e].next <= Len(execs[e].slice)
      <4>1. Rows(e) = 1..(execs[e].next - 1) /\ execs[e].next \in 1..MaxSlice
        BY <1>1, <1>2, <3>2, BoundAssumption DEF Applied, ExecInv
      <4>2. Rows(e)' = Rows(e) \cup {execs[e].next}
        BY <3>2, <4>1 DEF Rows
      <4>3. Rows(e)' = 1..execs[e].next
        BY <4>1, <4>2
      <4> QED
        BY <1>1, <1>2, <2>1, <3>2, <4>3 DEF Applied
    <3> QED
      BY <3>1, <3>2
  <2>3. x.h \in Ids /\ x.next \in 1..(Len(x.slice) + 1)
    BY <1>1, <1>2 DEF ExecInv
  <2> QED
    BY <1>1, <2>2, <2>3 DEF ExecInv
<1>6. ASSUME NEW d \in DOMAIN execs' PROVE ExecInv(d)'
  BY <1>1, <1>4, <1>5, <1>6
<1>7. Len(execs') <= MaxExecs
  BY <1>1 DEF ExecsInv
<1> QED
  BY <1>1, <1>3, <1>6, <1>7 DEF ExecsInv

(* Going on with one execution: what it may do next is to return an error, *)
(* or to add its element to the table.                                     *)
LEMMA OneExecStep ==
    ASSUME HandlesInv, ExecsInv, NEW e \in DOMAIN execs,
           BindFails(e) \/ ExecFails(e) \/ ExecElement(e)
    PROVE  ExecsInv' /\ UNCHANGED <<handles, cursor>> /\ out' = NoScan
<1>1. UNCHANGED <<handles, cursor>> /\ out' = NoScan /\ execs[e].state = "running"
  BY DEF BindFails, ExecFails, ExecElement
<1>2. /\ execs[e] \in ExecRec /\ ExecInv(e) /\ execs[e].next \in Nat
      /\ execs[e].next <= Len(execs[e].slice) /\ ~execs[e].whole /\ execs[e].next >= 1
      /\ Len(execs[e].slice) \in Nat
  <2>1. execs[e] \in ExecRec /\ ExecInv(e)
    BY DEF ExecsInv
  <2>2. Len(execs[e].slice) \in Nat
    BY <2>1, SliceLen, BoundAssumption DEF ExecRec
  <2> QED
    BY <1>1, <2>1, <2>2 DEF ExecInv
<1>3. CASE BindFails(e)
  <2> DEFINE x == [execs[e] EXCEPT !.state = "bind", !.res = execs[e].res]
  <2>1. execs' = [execs EXCEPT ![e] = x] /\ UNCHANGED table
    BY <1>3 DEF BindFails, Return
  <2>2. /\ x \in ExecRec /\ x.h = execs[e].h /\ x.slice = execs[e].slice /\ x.state = "bind"
        /\ x.whole = execs[e].whole /\ x.next = execs[e].next /\ x.res = execs[e].next - 1
    BY <1>1, <1>2 DEF ExecRec, ExecStates, ExecInv
  <2> HIDE DEF x
  <2> QED
    BY <1>1, <1>2, <2>1, <2>2, ExecStep
<1>4. CASE ExecFails(e)
  <2> DEFINE x == [execs[e] EXCEPT !.state = "exec", !.res = 0]
  <2>1. execs' = [execs EXCEPT ![e] = x] /\ UNCHANGED table
    BY <1>4 DEF ExecFails, Return
  <2>2. /\ x \in ExecRec /\ x.h = execs[e].h /\ x.slice = execs[e].slice /\ x.state = "exec"
        /\ x.whole = execs[e].whole /\ x.next = execs[e].next /\ x.res = 0
    BY <1>2 DEF ExecRec, ExecStates
  <2> HIDE DEF x
  <2> QED
    BY <1>1, <1>2, <2>1, <2>2, ExecStep
<1>5. CASE ExecElement(e)
  <2> DEFINE st == IF execs[e].next = Len(execs[e].slice) THEN "returned" ELSE execs[e].state
  <2> DEFINE x == [execs[e] EXCEPT !.next = execs[e].next + 1, !.res = execs[e].next, !.state = st]
  <2>3. /\ st \in {"running", "returned"}
        /\ st = "running" => execs[e].next + 1 <= Len(execs[e].slice)
        /\ st = "returned" => execs[e].next = Len(execs[e].slice)
    BY <1>1, <1>2
  <2>1. execs' = [execs EXCEPT ![e] = x] /\ table' = table \cup {<<e, execs[e].next>>}
    BY <1>5 DEF ExecElement
  <2>2. /\ x \in ExecRec /\ x.h = execs[e].h /\ x.slice = execs[e].slice /\ x.state = st
        /\ x.whole = execs[e].whole /\ x.next = execs[e].next + 1 /\ x.res = execs[e].next
    <3> HIDE DEF st
    <3>1. st \in ExecStates
      BY <2>3 DEF ExecStates
    <3>2. execs[e].next + 1 \in Nat
      BY <1>2
    <3> QED
      BY <1>2, <3>1, <3>2 DEF ExecRec
  <2>4. ~RolledBack(e)
    BY <1>5 DEF ExecElement, Live, RolledBack
  <2> HIDE DEF x, st
  <2>5. /\ x.state = "running" => x.next <= Len(x.slice)
        /\ x.state = "returned" => x.next = Len(x.slice) + 1
        /\ x.state \notin {"bind", "exec"} /\ x.res = x.next - 1
    BY <1>2, <2>2, <2>3
  <2> QED
    BY <1>1, <1>2, <2>1, <2>2, <2>4, <2>5, ExecStep
<1> QED
  BY <1>3, <1>4, <1>5

(* Beginning one, of a NamedStmt or of the whole slice in one query. *)
LEMMA BeginExecStep ==
    ASSUME HandlesInv, ExecsInv, NEW h \in Ids, NEW s \in Slices, Exec(h, s) \/ NamedExec(h, s)
    PROVE  ExecsInv' /\ UNCHANGED <<handles, cursor>> /\ out' = NoScan
<1>1. UNCHANGED <<handles, cursor>> /\ out' = NoScan /\ Len(execs) < MaxExecs
  BY DEF Exec, NamedExec
<1>2. h \in Nat /\ Len(s) \in Nat /\ DOMAIN s = 1..Len(s) /\ (s = <<>> <=> Len(s) = 0)
  BY SliceLen, BoundAssumption DEF HandlesInv
<1>3. CASE Exec(h, s)
  <2> DEFINE st == IF s = <<>> THEN "returned" ELSE "running"
  <2> DEFINE x == [h |-> h, whole |-> FALSE, slice |-> s, next |-> 1, res |-> 0, state |-> st]
  <2>1. execs' = Append(execs, x) /\ UNCHANGED table
    BY <1>3 DEF Exec
  <2>2. /\ x \in ExecRec /\ x.h = h /\ x.slice = s /\ x.state = st /\ ~x.whole
        /\ x.next = 1 /\ x.res = 0
    BY <1>2 DEF ExecRec, ExecStates
  <2>3. st \in {"running", "returned"} /\ (st = "returned" <=> Len(s) = 0)
    BY <1>2
  <2>4. table' = table \cup {<<Len(execs) + 1, i>> : i \in 1..(x.next - 1)}
    BY <2>1, <2>2
  <2> HIDE DEF x, st
  <2> QED
    BY <1>1, <1>2, <2>1, <2>2, <2>3, <2>4, NewExecStep
<1> DEFINE Whole(st, next, res) ==
       /\ execs' = Append(execs, [h |-> h, whole |-> TRUE, slice |-> s, next |-> next,
                                  res |-> res, state |-> st])
       /\ table' = table \cup {<<Len(execs) + 1, i>> : i \in 1..(next - 1)}
       /\ st \in {"bind", "exec", "returned"} /\ next \in {1, Len(s) + 1} /\ res = next - 1
       /\ IF st = "returned" THEN next = Len(s) + 1 ELSE next = 1
       /\ next # 1 => Live(h)
<1>4. ASSUME NEW st, NEW next, NEW res, Whole(st, next, res) PROVE ExecsInv'
  <2> DEFINE x == [h |-> h, whole |-> TRUE, slice |-> s, next |-> next, res |-> res, state |-> st]
  <2>1. /\ x \in ExecRec /\ x.h = h /\ x.slice = s /\ x.state = st /\ x.whole
        /\ x.next = next /\ x.res = res
    BY <1>2, <1>4 DEF ExecRec, ExecStates
  <2>2. execs' = Append(execs, x)
    BY <1>4
  <2> HIDE DEF x
  <2>3. /\ next \in Nat /\ next <= Len(s) + 1 /\ next >= 1
        /\ next = 1 => next <= Len(s) \/ s = <<>>
    BY <1>2, <1>4
  <2>4. /\ x.h \in Ids /\ x.next \in 1..(Len(x.slice) + 1)
        /\ x.state = "running" => x.next <= Len(x.slice) /\ ~x.whole
        /\ x.state = "returned" => x.next = Len(x.slice) + 1
        /\ x.state \in {"bind", "exec"} => x.next <= Len(x.slice) \/ x.slice = <<>>
        /\ x.whole => x.next \in {1, Len(x.slice) + 1}
        /\ x.res = IF x.state = "exec" THEN 0 ELSE x.next - 1
        /\ x.next # 1 => Live(x.h)
        /\ table' = table \cup {<<Len(execs) + 1, i>> : i \in 1..(x.next - 1)}
    BY <1>2, <1>4, <2>1, <2>3
  <2> QED
    BY <1>1, <2>1, <2>2, <2>4, NewExecStep
<1>5. CASE NamedExec(h, s)
  <2>1. (1..(1 - 1) = {}) /\ Len(s) + 1 - 1 = Len(s)
    BY <1>2
  <2>2. Whole("bind", 1, 0) \/ Whole("exec", 1, 0) \/ Whole("returned", Len(s) + 1, Len(s))
    BY <1>2, <1>5, <2>1 DEF NamedExec
  <2> HIDE DEF Whole
  <2> QED
    BY <1>1, <1>4, <2>2
<1> QED
  BY <1>1, <1>3, <1>5

(* A rollback takes every row of its executions, and no other. *)
LEMMA EndExecsStep ==
    ASSUME HandlesInv, ExecsInv, NEW t \in Ids, NEW state \in {"committed", "rolledback"},
           End(t, state)
    PROVE  ExecsInv'
<1>1. /\ DOMAIN handles' = Ids /\ handles'[t].state = state
      /\ \A h \in Ids : /\ handles'[h].tx = handles[h].tx
                        /\ h # t => handles'[h].state = handles[h].state
  BY EndStep
<1>2. /\ UNCHANGED execs /\ handles[t].state = "open"
      /\ table' = IF state = "rolledback" THEN {r \in table : r[1] \notin In(t)} ELSE table
  BY DEF End
<1>3. t # 0 /\ t \in Nat
  BY DEF HandlesInv
<1>4. ASSUME NEW e \in DOMAIN execs PROVE ExecInv(e)'
  <2>1. ExecInv(e) /\ execs[e].h \in Ids /\ WellMade(execs[e].h)
    BY DEF ExecsInv, ExecInv, HandlesInv
  <2>2. handles[execs[e].h].tx # 0 => handles[execs[e].h].tx \in Ids
    BY <2>1 DEF WellMade
  <2>3. CASE state = "rolledback" /\ handles[execs[e].h].tx = t
    <3>1. RolledBack(e)' /\ e \in In(t)
      BY <1>1, <1>2, <1>3, <2>1, <2>3 DEF RolledBack, In
    <3>2. Rows(e)' = {}
      BY <1>2, <2>3, <3>1 DEF Rows
    <3> QED
      BY <1>1, <1>2, <2>1, <3>1, <3>2 DEF ExecInv, Applied
  <2>4. CASE ~(state = "rolledback" /\ handles[execs[e].h].tx = t)
    <3>1. RolledBack(e)' = RolledBack(e)
      BY <1>1, <1>2, <2>1, <2>2, <2>4 DEF RolledBack
    <3>2. Rows(e)' = Rows(e)
      <4>1. state = "rolledback" => e \notin In(t)
        BY <2>4 DEF In
      <4> QED
        BY <1>2, <4>1 DEF Rows
    <3> QED
      BY <1>1, <1>2, <2>1, <3>1, <3>2, ExecKept
  <2> QED
    BY <2>3, <2>4
<1> QED
  BY <1>2, <1>4 DEF ExecsInv, RowOK

(* The Rows of a transaction close with it. *)
LEMMA EndHInv ==
    ASSUME HInv, NEW t \in Ids, NEW state \in {"committed", "rolledback"}, End(t, state)
    PROVE  HInv'
<1>1. HandlesInv' /\ Len(handles') = Len(handles)
  BY EndStep DEF HInv
<1>2. (cursor' = None \/ UNCHANGED cursor) /\ out' = NoScan
  BY DEF End
<1>3. CursorInv'
  BY <1>1, <1>2, PlannedNext DEF HInv, CursorInv, Planned
<1> QED
  BY <1>1, <1>2, <1>3, NoScanOut DEF HInv

LEMMA InitInv == Init => Inv
<1> SUFFICES ASSUME Init PROVE Inv
  OBVIOUS
<1>1. HInv /\ execs = <<>> /\ table = {}
  BY HandlesInitInv DEF Init
<1> QED
  BY <1>1, BoundAssumption DEF Inv, ExecsInv

LEMMA NextInv == Inv /\ [Next]_vars => Inv'
<1> SUFFICES ASSUME Inv, [Next]_vars PROVE Inv'
  OBVIOUS
<1>0. HInv /\ HandlesInv /\ ExecsInv /\ handles \in Seq(HandleRec)
  BY DEF Inv, HInv, HandlesInv
<1>1. CASE MakeHandle /\ UNCHANGED dbVars
  <2>1. HInv'
    BY <1>0, <1>1, MakeHandleHInv
  <2>2. \A h \in Ids : /\ h \in DOMAIN handles' /\ handles'[h].tx = handles[h].tx
                       /\ handles'[h].state = handles[h].state
    BY <1>0, <1>1, MakeHandleKeeps
  <2> QED
    BY <1>0, <1>1, <2>1, <2>2, HandlesKeepExecs DEF Inv
<1>2. CASE (UseRows \/ Query) /\ UNCHANGED dbVars
  <2>1. HInv' /\ UNCHANGED handles
    BY <1>0, <1>2, UseRowsStep, QueryStep
  <2> QED
    BY <1>0, <1>2, <2>1, HandlesKeepExecs DEF Inv
<1>3. CASE Execute
  <2>1. ExecsInv' /\ UNCHANGED <<handles, cursor>> /\ out' = NoScan
    BY <1>0, <1>3, BeginExecStep, OneExecStep DEF Execute
  <2>2. HandlesInv' /\ CursorInv'
    BY <1>0, <2>1, HandlesStay, CursorStays DEF HInv
  <2> QED
    BY <2>1, <2>2, NoScanOut DEF Inv, HInv
<1>4. CASE EndTx
  BY <1>0, <1>4, EndHInv, EndExecsStep DEF EndTx, Inv
<1>5. CASE UNCHANGED vars
  <2>1. UNCHANGED <<handles, cursor, out>> /\ UNCHANGED dbVars
    BY <1>5 DEF vars, dbVars
  <2>2. HandlesInv' /\ CursorInv'
    BY <1>0, <2>1, HandlesStay, CursorStays DEF HInv
  <2>3. OutInv'
    BY <1>0, <2>1, OutStays DEF HInv
  <2>4. ExecsInv'
    BY <1>0, <2>1, HandlesKeepExecs
  <2> QED
    BY <2>2, <2>3, <2>4 DEF Inv, HInv
<1> QED
  BY <1>1, <1>2, <1>3, <1>4, <1>5 DEF Next, Scan

(* Inv holds in every reachable state; the theorems below are its parts. *)
THEOREM Invariance == Spec => []Inv
BY InitInv, NextInv, PTL DEF Spec
-----------------------------------------------------------------------------
(* Every variable keeps its type. *)
THEOREM TypeCorrect == Spec => []TypeOK
<1>1. Inv => TypeOK
  <2> SUFFICES ASSUME Inv PROVE TypeOK
    OBVIOUS
  <2>1. HandlesTypeOK
    <3>1. ASSUME NEW h \in Ids PROVE HandleOK(handles[h])
      <4>1. WellMade(h) /\ handles[h] \in HandleRec /\ handles \in Seq(HandleRec)
        BY DEF Inv, HInv, HandlesInv
      <4>2. handles[h].tx \in 0..Len(handles)
        BY <4>1 DEF WellMade
      <4> QED
        BY <4>1, <4>2 DEF HandleOK, HandleRec, WellMade, States
    <3>2. cursor # None =>
             /\ cursor.cfg \in AllConfigs /\ cursor.asked \subseteq AllConfigs
             /\ cursor.columns \in ColumnLists /\ cursor.tx \in 0..Len(handles)
             /\ cursor.started => cursor.baseType \in StructTypes
      BY DEF Inv, HInv, CursorInv, CursorRec, Planned
    <3> QED
      BY <3>1, <3>2 DEF Inv, HInv, HandlesInv, OutInv, HandlesTypeOK
  <2>2. ASSUME NEW e \in DOMAIN execs
        PROVE  /\ execs[e].h \in Ids /\ execs[e].slice \in Slices
               /\ execs[e].next \in 1..(MaxSlice + 1) /\ execs[e].res \in 0..MaxSlice
               /\ execs[e].state \in ExecStates
    <3>1. ExecInv(e) /\ execs[e] \in ExecRec
      BY DEF Inv, ExecsInv
    <3>2. Len(execs[e].slice) \in 0..MaxSlice
      BY <3>1, SliceLen DEF ExecRec
    <3> QED
      BY <3>1, <3>2, BoundAssumption DEF ExecInv, ExecRec
  <2>3. ASSUME NEW r \in table PROVE r \in (1..MaxExecs) \X (1..MaxSlice)
    <3>1. PICK d \in DOMAIN execs, i \in 1..MaxSlice : r = <<d, i>>
      BY DEF Inv, ExecsInv, RowOK
    <3>2. d \in 1..MaxExecs
      BY BoundAssumption DEF Inv, ExecsInv
    <3> QED
      BY <3>1, <3>2
  <2> QED
    BY <2>1, <2>2, <2>3 DEF TypeOK
<1> QED
  BY <1>1, Invariance, PTL

(* What no preparing has lost of a configuration a scan through any handle *)
(* shows, whichever handles it came through (db.go, tx.go, conn.go,        *)
(* stmt.go, named_stmt.go, rows.go).                                       *)
THEOREM ConfigurationsAreKept == Spec => []ConfigurationIsKept
<1>1. Inv => ConfigurationIsKept
  BY DEF Inv, HInv, OutInv
<1> QED
  BY <1>1, Invariance, PTL

(* Rows.StructScan and StructScan fill the struct they were given.         *)
THEOREM ScansFillTheirOwn == Spec => []FillsItsOwnStruct
<1>1. Inv => FillsItsOwnStruct
  BY DEF Inv, HInv, OutInv
<1> QED
  BY <1>1, Invariance, PTL

(* What an execution leaves, and what it returns (NamedStmt.ExecContext,   *)
(* NamedExec).                                                             *)
THEOREM APrefixIsLeft == Spec => []LeavesAPrefix
<1>1. Inv => LeavesAPrefix
  <2> SUFFICES ASSUME Inv, NEW e \in DOMAIN execs
               PROVE  LET x == execs[e]
                          applied == x.next - 1
                      IN
                      /\ ~RolledBack(e) => Rows(e) = 1..applied
                      /\ x.state = "returned" => applied = Len(x.slice)
                      /\ x.state # "returned" => applied < Len(x.slice) \/ x.slice = <<>>
                      /\ x.whole => x.state # "running" /\ applied \in {0, Len(x.slice)}
                      /\ x.res = IF x.state = "exec" THEN 0 ELSE applied
    BY DEF LeavesAPrefix
  <2>1. ExecInv(e) /\ execs[e] \in ExecRec
    BY DEF Inv, ExecsInv
  <2>2. Len(execs[e].slice) \in Nat /\ execs[e].next \in Nat /\ execs[e].state \in ExecStates
    BY <2>1, SliceLen, BoundAssumption DEF ExecRec
  <2> QED
    BY <2>1, <2>2 DEF ExecInv, Applied, ExecStates
<1> QED
  BY <1>1, Invariance, PTL
-----------------------------------------------------------------------------
Decides ==
    \A e \in DOMAIN execs' : \A t \in Through(e)' :
       /\ handles'[t].state = "rolledback" => Rows(e)' = {}
       /\ t \in Ids /\ handles[t].state = "committed" => Rows(e)' = Rows(e)

(* What is executed through a transaction runs in it. *)
LEMMA ThroughIsIn ==
    ASSUME Inv', NEW e \in DOMAIN execs', NEW t \in Through(e)'
    PROVE  /\ handles'[execs'[e].h].tx = t /\ t # 0 /\ t \in DOMAIN handles'
           /\ Rows(e)' = Applied(e)'
<1>1. HandlesInv' /\ ExecInv(e)' /\ handles' \in Seq(HandleRec)
  BY DEF Inv, HInv, ExecsInv, HandlesInv
<1>2. execs'[e].h \in DOMAIN handles' /\ Rows(e)' = Applied(e)'
  BY <1>1 DEF ExecInv
<1>3. WellMade(execs[e].h)'
  BY <1>1, <1>2 DEF HandlesInv
<1>4. /\ t \in DOMAIN handles' /\ handles'[t].kind = "Tx"
      /\ t = execs'[e].h \/ t = handles'[execs'[e].h].from
  BY DEF Through
<1>5. t # 0
  BY <1>1, <1>4
<1> QED
  BY <1>2, <1>3, <1>4, <1>5 DEF WellMade

(* Only a step that uses the table changes what an execution left, and in  *)
(* a transaction that has ended no step does.                              *)
LEMMA DecidesStep == Inv /\ Inv' /\ [Next]_vars => [Decides]_vars
<1> SUFFICES ASSUME Inv, Inv', Next PROVE Decides
  OBVIOUS
<1> SUFFICES ASSUME NEW e \in DOMAIN execs', NEW t \in Through(e)'
             PROVE  /\ handles'[t].state = "rolledback" => Rows(e)' = {}
                    /\ t \in Ids /\ handles[t].state = "committed" => Rows(e)' = Rows(e)
  BY Zenon DEF Decides
<1>1. /\ handles'[execs'[e].h].tx = t /\ t # 0 /\ t \in DOMAIN handles'
      /\ Rows(e)' = Applied(e)'
  BY ThroughIsIn
<1>2. handles'[t].state = "rolledback" => Rows(e)' = {}
  BY <1>1 DEF Applied, RolledBack
<1>3. ASSUME t \in Ids, handles[t].state = "committed" PROVE Rows(e)' = Rows(e)
  <2>0. HandlesInv /\ ExecsInv
    BY DEF Inv, HInv
  <2>1. CASE UNCHANGED table
    BY <2>1 DEF Rows
  <2>2. ASSUME NEW d \in DOMAIN execs, ExecElement(d) PROVE Rows(e)' = Rows(e)
    <3>1. /\ UNCHANGED handles /\ table' = table \cup {<<d, execs[d].next>>}
          /\ Live(execs[d].h) /\ execs'[d].h = execs[d].h
      <4>1. execs[d] \in ExecRec /\ execs \in Seq(ExecRec)
        BY <2>0 DEF ExecsInv
      <4>2. \E st : execs' = [execs EXCEPT ![d] = [execs[d] EXCEPT
                      !.next = execs[d].next + 1, !.res = execs[d].next, !.state = st]]
        BY <2>2 DEF ExecElement
      <4>3. execs'[d].h = execs[d].h
        BY <4>1, <4>2 DEF ExecRec
      <4> QED
        BY <2>2, <4>3 DEF ExecElement
    <3>2. d # e
      BY <1>1, <1>3, <3>1 DEF Live
    <3> QED
      BY <3>1, <3>2 DEF Rows
  <2>3. ASSUME NEW h \in Ids, NEW s \in Slices, NamedExec(h, s), ~UNCHANGED table
        PROVE  Rows(e)' = Rows(e)
    <3>1. /\ UNCHANGED handles /\ Live(h) /\ \E x : execs' = Append(execs, x) /\ x.h = h
          /\ table' = table \cup {<<Len(execs) + 1, i>> : i \in DOMAIN s}
      BY <2>3 DEF NamedExec
    <3>2. execs'[Len(execs) + 1].h = h
      BY <2>0, <3>1 DEF ExecsInv
    <3>3. e # Len(execs) + 1
      BY <1>1, <1>3, <3>1, <3>2 DEF Live
    <3> QED
      BY <3>1, <3>3 DEF Rows
  <2>4. ASSUME NEW k \in Ids, NEW state \in {"committed", "rolledback"}, End(k, state)
        PROVE  Rows(e)' = Rows(e)
    <3>1. /\ handles[k].state = "open" /\ UNCHANGED execs
          /\ table' = IF state = "rolledback" THEN {r \in table : r[1] \notin In(k)} ELSE table
      BY <2>4 DEF End
    <3>2. execs[e].h \in Ids /\ handles'[execs[e].h].tx = handles[execs[e].h].tx
      BY <2>0, <2>4, <3>1, EndStep DEF ExecsInv, ExecInv
    <3>3. e \notin In(k)
      BY <1>1, <1>3, <3>1, <3>2 DEF In
    <3> QED
      BY <3>1, <3>3 DEF Rows
  <2> QED
    BY <2>1, <2>2, <2>3, <2>4
    DEF Next, Scan, dbVars, Execute, EndTx, Exec, BindFails, ExecFails
<1> QED
  BY <1>2, <1>3

(* The end of a transaction decides over everything executed through it,   *)
(* by its own methods or by a statement prepared or bound in it            *)
(* (tx.go, PrepareNamedContext, StmtxContext, NamedStmtContext).           *)
THEOREM TransactionsDecide == Spec => TransactionDecides
<1>1. Inv /\ Inv' /\ [Next]_vars =>
         [\A e \in DOMAIN execs' : \A t \in Through(e)' :
             /\ handles'[t].state = "rolledback" => Rows(e)' = {}
             /\ t \in Ids /\ handles[t].state = "committed" => Rows(e)' = Rows(e)]_vars
  BY DecidesStep DEF Decides
<1> QED
  BY <1>1, Invariance, PTL DEF Spec, TransactionDecides
=============================================================================
