------------------------- MODULE CompileNamed_proofs -------------------------
(***************************************************************************)
(* Proofs about CompileNamed, for queries of any length: the types, that   *)
(* the bindvars a query gets are those of its names, that every parameter  *)
(* is found with its whole name, and that the text around them survives.   *)
(***************************************************************************)
EXTENDS CompileNamed, FiniteSetTheorems, SequenceTheorems, TLAPS

(* The next number is one more than there are names. *)
CurrentVarInv ==
    currentVar = IF bindType \in Numbered THEN Len(names) + 1 ELSE 1
Inv == TypeOK /\ BindvarsMatchNames /\ CurrentVarInv

USE DEF Names, Bindvars
-----------------------------------------------------------------------------
LEMMA BytesAndBindvars ==
    /\ \A b \in Bytes : ~IsBindvar(b)
    /\ \A v \in Bindvars : IsBindvar(v)
  BY BindvarAssumption DEF IsBindvar, Bytes

LEMMA BindvarType ==
    ASSUME NEW k \in Nat, NEW n \in Names, bindType \in BindTypes
    PROVE  /\ Bindvar(k, n) \in Bindvars
           /\ bindType \in Numbered => Bindvar(k, n).number = k
           /\ bindType = "NAMED" => Bindvar(k, n).name = n
  BY DEF Bindvar, Numbered

LEMMA RestType == ASSUME NEW b \in Bytes PROVE Rest(b) \in Seq(Bytes)
  BY DEF Rest

(* at is where the bindvars of the result r for the names ns stand. *)
At(t, ns, r, at) ==
    /\ \A k, l \in DOMAIN ns : k < l => at[k] < at[l]
    /\ \A i \in DOMAIN r : IsBindvar(r[i]) <=> \E k \in DOMAIN ns : at[k] = i
    /\ \A k \in DOMAIN ns :
          /\ t \in Numbered => r[at[k]].number = k
          /\ t = "NAMED" => r[at[k]].name = ns[k]
Match(t, ns, r) == \E at \in [DOMAIN ns -> DOMAIN r] : At(t, ns, r, at)

LEMMA MatchDef ==
    /\ BindvarsMatchNames <=> Match(bindType, names, rebound)
    /\ BindvarsMatchNames' <=> Match(bindType', names', rebound')
  BY DEF BindvarsMatchNames, Match, At, IsBindvar, Bytes, Numbered

(* Text after the bindvars leaves them as they are. *)
LEMMA TextMatch ==
    ASSUME NEW t, NEW ns, NEW r \in Seq(Bytes \cup Bindvars), Match(t, ns, r),
           NEW text \in Seq(Bytes)
    PROVE  Match(t, ns, r \o text)
<1>1. PICK at \in [DOMAIN ns -> DOMAIN r] : At(t, ns, r, at)
  BY DEF Match
<1> DEFINE s == r \o text
<1>2. /\ DOMAIN r = 1..Len(r) /\ DOMAIN s = 1..(Len(r) + Len(text))
      /\ Len(r) \in Nat /\ Len(text) \in Nat
      /\ \A i \in 1..Len(r) : s[i] = r[i]
      /\ \A i \in DOMAIN s : i \notin DOMAIN r => s[i] \in Bytes
  <2>1. /\ text \in Seq(Bytes \cup Bindvars)
        /\ DOMAIN r = 1..Len(r) /\ DOMAIN text = 1..Len(text)
        /\ Len(r) \in Nat /\ Len(text) \in Nat
    OBVIOUS
  <2>2. \A i \in DOMAIN text : text[i] \in Bytes
    OBVIOUS
  <2> QED
    BY <2>1, <2>2
<1>3. \A i \in DOMAIN r : i \in DOMAIN s /\ s[i] = r[i]
  BY <1>2
<1> HIDE DEF s
<1>4. at \in [DOMAIN ns -> DOMAIN s]
  BY <1>3
<1>5. ASSUME NEW i \in DOMAIN s
      PROVE  IsBindvar(s[i]) <=> \E k \in DOMAIN ns : at[k] = i
  <2>1. CASE i \in DOMAIN r
    BY <1>1, <1>3, <2>1 DEF At
  <2>2. CASE i \notin DOMAIN r
    BY <1>2, <2>2, BytesAndBindvars
  <2> QED
    BY <2>1, <2>2
<1>6. At(t, ns, s, at)
  BY <1>1, <1>3, <1>5 DEF At
<1>7. Match(t, ns, s)
  BY <1>4, <1>6 DEF Match
<1> QED
  BY <1>7 DEF s

(* A name and its bindvar, at the end of both. *)
LEMMA NameMatch ==
    ASSUME NEW t, NEW ns \in Seq(Names), NEW r \in Seq(Bytes \cup Bindvars),
           Match(t, ns, r), NEW n \in Names, NEW v \in Bindvars,
           t \in Numbered => v.number = Len(ns) + 1,
           t = "NAMED" => v.name = n
    PROVE  Match(t, Append(ns, n), Append(r, v))
<1>1. PICK at \in [DOMAIN ns -> DOMAIN r] : At(t, ns, r, at)
  BY DEF Match
<1> DEFINE m == Len(ns) + 1
           end == Len(r) + 1
           ms == Append(ns, n)
           s == Append(r, v)
           new == [k \in 1..m |-> IF k = m THEN end ELSE at[k]]
<1>2. /\ DOMAIN ns = 1..Len(ns) /\ DOMAIN r = 1..Len(r)
      /\ Len(ns) \in Nat /\ Len(r) \in Nat
  OBVIOUS
<1>3. /\ DOMAIN ms = 1..m /\ DOMAIN s = 1..end
      /\ ms[m] = n /\ s[end] = v
      /\ \A k \in DOMAIN ns : ms[k] = ns[k]
      /\ \A i \in DOMAIN r : s[i] = r[i]
  BY <1>2
<1>4. /\ new[m] = end /\ m \in DOMAIN ms
      /\ \A k \in DOMAIN ns : k # m /\ new[k] = at[k] /\ at[k] \in DOMAIN r
      /\ \A k \in DOMAIN ms : k \in DOMAIN ns \/ k = m
      /\ \A i \in DOMAIN s : i \in DOMAIN r \/ i = end
      /\ \A i \in DOMAIN r : i < end
      /\ new \in [DOMAIN ms -> DOMAIN s]
  BY <1>2, <1>3
<1>5. /\ m \in Nat /\ end \in Nat /\ \A k \in DOMAIN ns : k < m
      /\ \A k, l \in DOMAIN ms : k < l => k \in DOMAIN ns
  BY <1>2, <1>3
<1> HIDE DEF ms, s, new, m, end
<1>6. \A k, l \in DOMAIN ms : k < l => new[k] < new[l]
  <2> SUFFICES ASSUME NEW k \in DOMAIN ms, NEW l \in DOMAIN ms, k < l
               PROVE  new[k] < new[l]
    OBVIOUS
  <2>1. k \in DOMAIN ns
    BY <1>5
  <2> QED
    BY <1>1, <1>4, <2>1 DEF At
<1>7. ASSUME NEW i \in DOMAIN s
      PROVE  IsBindvar(s[i]) <=> \E k \in DOMAIN ms : new[k] = i
  <2>1. CASE i \in DOMAIN r
    <3>1. i # end /\ s[i] = r[i]
      BY <1>2, <1>3, <1>4, <1>5, <2>1
    <3>2. \A k \in DOMAIN ns : k \in DOMAIN ms
      BY <1>2, <1>3 DEF m
    <3>3. (\E k \in DOMAIN ms : new[k] = i) <=> \E k \in DOMAIN ns : at[k] = i
      BY <1>4, <3>1, <3>2
    <3> QED
      BY <1>1, <2>1, <3>1, <3>3 DEF At
  <2>2. CASE i = end
    BY <1>3, <1>4, <2>2, BytesAndBindvars
  <2> QED
    BY <1>4, <2>1, <2>2
<1>8. ASSUME NEW k \in DOMAIN ms
      PROVE  /\ t \in Numbered => s[new[k]].number = k
             /\ t = "NAMED" => s[new[k]].name = ms[k]
  <2>1. CASE k \in DOMAIN ns
    <3>1. s[new[k]] = r[at[k]] /\ ms[k] = ns[k]
      BY <1>3, <1>4, <2>1
    <3> QED
      BY <1>1, <2>1, <3>1 DEF At
  <2>2. CASE k = m
    BY <1>3, <1>4, <2>2 DEF m
  <2> QED
    BY <1>4, <2>1, <2>2
<1>9. Match(t, ms, s)
  BY <1>4, <1>6, <1>7, <1>8 DEF At, Match
<1> QED
  BY <1>9 DEF ms, s
-----------------------------------------------------------------------------
LEMMA InitInv == Init => Inv
<1> SUFFICES ASSUME Init PROVE Inv
  OBVIOUS
<1>1. TypeOK
  <2>1. /\ <<>> \in Seq(Bytes) /\ <<>> \in Names /\ <<>> \in Seq(Names)
        /\ <<>> \in Seq(Bytes \cup Bindvars) /\ 1 \in Nat
    OBVIOUS
  <2> QED
    BY <2>1, Zenon DEF Init, TypeOK
<1>2. CurrentVarInv
  BY DEF Init, CurrentVarInv
<1>3. names = <<>> /\ rebound = <<>> /\ DOMAIN names = {} /\ DOMAIN rebound = {}
  BY DEF Init
<1>4. names \in [DOMAIN names -> DOMAIN rebound]
  BY <1>3
<1>5. BindvarsMatchNames
  BY <1>3, <1>4 DEF BindvarsMatchNames
<1> QED
  BY <1>1, <1>2, <1>5 DEF Inv

LEMMA ReadType ==
    ASSUME TypeOK, NEW b \in Bytes, NEW last \in BOOLEAN, Read(b, last)
    PROVE  bindType' \in BindTypes /\ qs' \in Seq(Bytes) /\ done' \in BOOLEAN
  BY DEF TypeOK, Read

(* The branches that add text only. *)
LEMMA TextInv ==
    ASSUME Inv, NEW text \in Seq(Bytes), rebound' = rebound \o text,
           UNCHANGED <<names, currentVar, bindType>>,
           qs' \in Seq(Bytes), done' \in BOOLEAN, inName' \in BOOLEAN,
           name' \in Names, err' \in BOOLEAN
    PROVE  Inv'
<1>1. TypeOK'
  BY DEF Inv, TypeOK
<1>2. CurrentVarInv'
  BY DEF Inv, CurrentVarInv
<1>3. BindvarsMatchNames'
  <2>1. bindType' = bindType /\ names' = names
    OBVIOUS
  <2>2. Match(bindType, names, rebound')
    BY MatchDef, TextMatch DEF Inv, TypeOK
  <2> QED
    BY <2>1, <2>2, MatchDef
<1> QED
  BY <1>1, <1>2, <1>3 DEF Inv

(* The branch that ends a name. *)
LEMMA CloseNameInv ==
    ASSUME Inv, NEW b \in Bytes, NEW last \in BOOLEAN, CloseName(b, last)
    PROVE  Inv'
<1> DEFINE whole == IF b = Alnum THEN Append(name, b) ELSE name
           v == Bindvar(currentVar, whole)
<1>1. whole \in Names /\ currentVar \in Nat /\ bindType \in BindTypes
  BY DEF Inv, TypeOK
<1>2. /\ v \in Bindvars
      /\ bindType \in Numbered => v.number = currentVar
      /\ bindType = "NAMED" => v.name = whole
  BY <1>1, BindvarType
<1> HIDE DEF whole, v
<1>3. /\ rebound' = Append(rebound, v) \o Rest(b)
      /\ names' = Append(names, whole) /\ name' = whole
      /\ currentVar' = IF bindType \in Numbered THEN currentVar + 1 ELSE currentVar
      /\ inName' = FALSE /\ err' = err /\ Read(b, last)
  BY DEF CloseName, CloseAt, whole, v
<1>4. bindType' = bindType
  BY <1>3 DEF Read
<1>5. Rest(b) \in Seq(Bytes)
  BY RestType
<1>6. TypeOK'
  <2>1. bindType' \in BindTypes /\ qs' \in Seq(Bytes) /\ done' \in BOOLEAN
    BY <1>3, ReadType DEF Inv
  <2>2. names' \in Seq(Names)
    BY <1>1, <1>3 DEF Inv, TypeOK
  <2>3. rebound' \in Seq(Bytes \cup Bindvars)
    BY <1>2, <1>3, <1>5 DEF Inv, TypeOK
  <2>4. currentVar' \in Nat
    BY <1>1, <1>3
  <2>5. inName' \in BOOLEAN /\ err' \in BOOLEAN /\ name' \in Names
    BY <1>1, <1>3, Zenon DEF Inv, TypeOK
  <2> QED
    BY <2>1, <2>2, <2>3, <2>4, <2>5, Zenon DEF TypeOK, Names, Bindvars
<1>7. CurrentVarInv'
  BY <1>1, <1>3, <1>4 DEF Inv, TypeOK, CurrentVarInv
<1>8. BindvarsMatchNames'
  <2>1. Len(names) + 1 = currentVar \/ bindType \notin Numbered
    BY DEF Inv, CurrentVarInv
  <2>2. /\ Match(bindType, names, rebound)
        /\ names \in Seq(Names) /\ rebound \in Seq(Bytes \cup Bindvars)
    BY MatchDef DEF Inv, TypeOK
  <2>3. Match(bindType, Append(names, whole), Append(rebound, v))
    BY <1>1, <1>2, <2>1, <2>2, NameMatch
  <2>4. Match(bindType, Append(names, whole), Append(rebound, v) \o Rest(b))
    <3>1. Append(rebound, v) \in Seq(Bytes \cup Bindvars)
      BY <1>2, <2>2
    <3> QED
      BY <1>5, <2>3, <3>1, TextMatch
  <2> QED
    BY <1>3, <1>4, <2>4, MatchDef
<1> QED
  BY <1>6, <1>7, <1>8 DEF Inv

LEMMA StepInv == Inv /\ [Next]_vars => Inv'
<1> SUFFICES ASSUME Inv, [Next]_vars PROVE Inv'
  OBVIOUS
<1> USE DEF Inv
<1>t. /\ TypeOK /\ name \in Names /\ inName \in BOOLEAN /\ err \in BOOLEAN
      /\ rebound \in Seq(Bytes \cup Bindvars) /\ <<>> \in Seq(Bytes) /\ <<>> \in Names
      /\ rebound \o <<>> = rebound /\ qs \in Seq(Bytes)
      /\ Colon \in Bytes /\ Equals \in Bytes
  BY DEF TypeOK, Bytes
<1>1. CASE Empty
  BY <1>1, <1>t, TextInv DEF Empty
<1>2. CASE UnexpectedColon
  <2>1. qs' \in Seq(Bytes) /\ done' \in BOOLEAN /\ bindType' = bindType
    BY <1>2, <1>t, ReadType DEF UnexpectedColon, Read
  <2> QED
    BY <1>2, <1>t, <2>1, TextInv DEF UnexpectedColon
<1>3. ASSUME NEW last \in BOOLEAN, EscapedColon(last) PROVE Inv'
  <2>1. qs' \in Seq(Bytes) /\ done' \in BOOLEAN /\ bindType' = bindType
    BY <1>3, <1>t, ReadType DEF EscapedColon, Read
  <2>2. rebound' = rebound \o <<Colon>> /\ <<Colon>> \in Seq(Bytes)
    BY <1>3, <1>t DEF EscapedColon
  <2> QED
    BY <1>3, <1>t, <2>1, <2>2, TextInv DEF EscapedColon
<1>4. ASSUME NEW last \in BOOLEAN, OpenName(last) PROVE Inv'
  <2>1. qs' \in Seq(Bytes) /\ done' \in BOOLEAN /\ bindType' = bindType
    BY <1>4, <1>t, ReadType DEF OpenName, Read
  <2> QED
    BY <1>4, <1>t, <2>1, TextInv DEF OpenName
<1>5. ASSUME NEW last \in BOOLEAN, Assign(last) PROVE Inv'
  <2>1. qs' \in Seq(Bytes) /\ done' \in BOOLEAN /\ bindType' = bindType
    BY <1>5, <1>t, ReadType DEF Assign, Read
  <2>2. <<Colon, Equals>> \in Seq(Bytes)
    BY <1>t
  <2> QED
    BY <1>5, <1>t, <2>1, <2>2, TextInv DEF Assign
<1>6. ASSUME NEW b \in Bytes, NameByte(b) PROVE Inv'
  <2>1. qs' \in Seq(Bytes) /\ done' \in BOOLEAN /\ bindType' = bindType
    BY <1>6, <1>t, ReadType DEF NameByte, Read
  <2>2. name' \in Names
    BY <1>6, <1>t DEF NameByte
  <2> QED
    BY <1>6, <1>t, <2>1, <2>2, TextInv DEF NameByte
<1>7. ASSUME NEW b \in Bytes, NEW last \in BOOLEAN, Text(b, last) PROVE Inv'
  <2>1. qs' \in Seq(Bytes) /\ done' \in BOOLEAN /\ bindType' = bindType
    BY <1>7, <1>t, ReadType DEF Text, Read
  <2>2. rebound' = rebound \o <<b>> /\ <<b>> \in Seq(Bytes)
    BY <1>7, <1>t DEF Text
  <2> QED
    BY <1>7, <1>t, <2>1, <2>2, TextInv DEF Text
<1>8. CASE UNCHANGED vars
  BY <1>8, <1>t, TextInv DEF vars, TypeOK
<1> QED
  BY <1>1, <1>2, <1>3, <1>4, <1>5, <1>6, <1>7, <1>8, CloseNameInv DEF Next

THEOREM Invariance == Spec => []Inv
<1> QED
  BY InitInv, StepInv, PTL DEF Spec

(* The parse state, the names and the result keep their types: a name has  *)
(* name bytes only, whatever byte ends it.                                 *)
THEOREM TypeCorrect == Spec => []TypeOK
<1>1. Inv => TypeOK
  BY DEF Inv
<1> QED
  BY <1>1, Invariance, PTL

(* compileNamedQuery gives a query as many bindvars as it returns names,   *)
(* in their order, numbered from 1 without a gap, or named like them.      *)
THEOREM BindvarsAreTheNames == Spec => []BindvarsMatchNames
<1>1. Inv => BindvarsMatchNames
  BY DEF Inv
<1> QED
  BY <1>1, Invariance, PTL
-----------------------------------------------------------------------------
(***************************************************************************)
(* What is read is found, and what is no name is written.                  *)
(***************************************************************************)
HIDE DEF Names, Bindvars

(* What has been read of a query that goes on: an open name, if inName;    *)
(* the names closed before; and the text and bindvars written.             *)
OpenAt(s, i) == i \in 1..Len(s) /\ Unpaired(s, i) /\ AllName(s, i, Len(s))
NoneOpen(s) == \A i \in 1..Len(s) : ~OpenAt(s, i)
Open(s, n) == \E i \in 1..Len(s) : OpenAt(s, i) /\ n = SubSeq(s, i + 1, Len(s))

Closed(s) == {i \in Starts(s) : ~OpenAt(s, i)}
NameIn(s, i, n) ==
    \E j \in i..Len(s) - 1 :
       AllName(s, i, j) /\ s[j + 1] \notin NameBytes /\ n = SubSeq(s, i + 1, j)
NamesOf(s, C, ns) ==
    /\ Len(ns) = Cardinality(C)
    /\ \A i \in C : NameIn(s, i, ns[Rank(C, i)])

PartOfName(s, p) == \E i \in Starts(s) : i < p /\ AllName(s, i, p)
Written(s) ==
    {p \in 1..Len(s) : IF s[p] = Colon THEN Unpaired(s, p) /\ ~OpenAt(s, p)
                       ELSE ~PartOfName(s, p)}
Reads(s, p, x) == IF p \in Starts(s) THEN IsBindvar(x) ELSE x = s[p]
TextOf(s, W, r) ==
    /\ Len(r) = Cardinality(W)
    /\ \A p \in W : Reads(s, p, r[Rank(W, p)])

Reading(s, ns, r) ==
    /\ ~ColonInName(s)
    /\ NamesOf(s, Closed(s), ns)
    /\ TextOf(s, Written(s), r)
ReadInv ==
    ~done => /\ ~err
             /\ IF inName THEN Open(qs, name) ELSE NoneOpen(qs)
             /\ Reading(qs, names, rebound)

IsPositions(S) == IsFiniteSet(S) /\ Cardinality(S) \in Nat /\ S \subseteq Nat

LEMMA PositionsOf ==
    ASSUME NEW n \in Nat, NEW S, S \subseteq 1..n
    PROVE  IsPositions(S)
<1>1. IsFiniteSet(1..n)
  BY FS_Interval
<1>2. IsFiniteSet(S)
  BY <1>1, FS_Subset
<1> QED
  BY <1>2, FS_CardinalityType DEF IsPositions

LEMMA RankAdd ==
    ASSUME NEW S, IsPositions(S), NEW p \in Nat, \A q \in S : q < p
    PROVE  /\ Cardinality(S \cup {p}) = Cardinality(S) + 1
           /\ Rank(S \cup {p}, p) = Cardinality(S) + 1
           /\ \A q \in S : /\ Rank(S \cup {p}, q) = Rank(S, q)
                           /\ Rank(S, q) \in 1..Cardinality(S)
<1>1. IsFiniteSet(S) /\ Cardinality(S) \in Nat /\ p \notin S /\ S \subseteq Nat
  BY DEF IsPositions
<1>2. Cardinality(S \cup {p}) = Cardinality(S) + 1
  BY <1>1, FS_AddElement
<1>3. {r \in S \cup {p} : r <= p} = S \cup {p}
  <2>1. \A r \in S \cup {p} : r <= p
    BY <1>1
  <2> QED
    BY <2>1, Zenon
<1>4. ASSUME NEW q \in S
      PROVE  Rank(S \cup {p}, q) = Rank(S, q) /\ Rank(S, q) \in 1..Cardinality(S)
  <2> DEFINE Q == {r \in S : r <= q}
  <2>1. {r \in S \cup {p} : r <= q} = Q
    BY <1>1
  <2>2. q \in Q /\ Q \subseteq S
    BY <1>1
  <2>3. IsFiniteSet(Q) /\ Cardinality(Q) \in Nat /\ Cardinality(Q) <= Cardinality(S)
    BY <1>1, <2>2, FS_Subset, FS_CardinalityType
  <2>4. Cardinality(Q) # 0
    BY <2>2, <2>3, FS_EmptySet
  <2> QED
    BY <1>1, <2>1, <2>3, <2>4 DEF Rank
<1> QED
  BY <1>2, <1>3, <1>4 DEF Rank
-----------------------------------------------------------------------------
(* A query, and the query with one byte more. *)
Grows(s, b, t) == s \in Seq(Bytes) /\ b \in Bytes /\ t = Append(s, b)

LEMMA ByteFacts ==
    /\ Colon \notin NameBytes /\ Equals \notin NameBytes /\ Other \notin NameBytes
    /\ Colon # Equals /\ NameBytes = {Alnum, Mark} /\ Alnum # Mark
    /\ Bytes = NameBytes \cup {Colon, Equals, Other}
  BY BytesAssumption DEF NameBytes, Bytes

LEMMA Grown ==
    ASSUME NEW s, NEW b, NEW t, Grows(s, b, t)
    PROVE  /\ t \in Seq(Bytes) /\ Len(s) \in Nat /\ b \in Bytes
           /\ Len(t) = Len(s) + 1 /\ t[Len(s) + 1] = b
           /\ \A k \in 1..Len(s) : t[k] = s[k] /\ s[k] \in Bytes
  BY DEF Grows

LEMMA UnpairedIsColon ==
    ASSUME NEW s, NEW i \in Nat, Unpaired(s, i)
    PROVE  i >= 1 /\ s[i] = Colon
<1> DEFINE R == {j \in 1..i : \A k \in j..i : s[k] = Colon}
<1>1. R # {}
  <2>1. Cardinality(R) % 2 = 1
    BY DEF Unpaired, ColonRun
  <2> HIDE DEF R
  <2>2. Cardinality(R) # 0
    BY <2>1
  <2> QED
    BY <2>2, FS_EmptySet
<1> QED
  BY <1>1

LEMMA RunStays ==
    ASSUME NEW s, NEW b, NEW t, Grows(s, b, t), NEW i \in Nat, i <= Len(s)
    PROVE  Unpaired(t, i) <=> Unpaired(s, i)
<1>1. {j \in 1..i : \A k \in j..i : t[k] = Colon} =
         {j \in 1..i : \A k \in j..i : s[k] = Colon}
  <2>1. \A j \in 1..i : \A k \in j..i : t[k] = s[k]
    BY Grown
  <2> QED
    BY <2>1
<1> QED
  BY <1>1 DEF Unpaired, ColonRun

LEMMA RunGrows ==
    ASSUME NEW s, NEW b, NEW t, Grows(s, b, t)
    PROVE  Unpaired(t, Len(s) + 1) <=> b = Colon /\ ~Unpaired(s, Len(s))
<1> DEFINE n == Len(s)
           R == {j \in 1..n : \A k \in j..n : s[k] = Colon}
           T == {j \in 1..n + 1 : \A k \in j..n + 1 : t[k] = Colon}
<1>1. n \in Nat /\ R \subseteq 1..n
  BY Grown
<1>2. IsFiniteSet(R) /\ Cardinality(R) \in Nat
  BY <1>1, PositionsOf DEF IsPositions
<1>3. CASE b # Colon
  BY <1>1, <1>3, Grown, UnpairedIsColon
<1>4. CASE b = Colon
  <2>1. \A k \in 1..n : t[k] = s[k]
    BY Grown
  <2>2. t[n + 1] = Colon
    BY <1>4, Grown
  <2>3. ASSUME NEW j \in 1..n
        PROVE  (\A k \in j..n + 1 : t[k] = Colon) <=> (\A k \in j..n : s[k] = Colon)
    BY <1>1, <2>1, <2>2
  <2>4. \A k \in n + 1..n + 1 : t[k] = Colon
    BY <1>1, <2>2
  <2>5. T = R \cup {n + 1}
    <3>1. \A j \in 1..n + 1 : j \in 1..n \/ j = n + 1
      BY <1>1
    <3>2. \A j \in 1..n : j \in T <=> j \in R
      BY <1>1, <2>3
    <3>3. n + 1 \in T /\ T \subseteq 1..n + 1
      BY <1>1, <2>4
    <3> QED
      BY <1>1, <3>1, <3>2, <3>3
  <2>6. Cardinality(T) = Cardinality(R) + 1
    <3>1. n + 1 \notin R
      BY <1>1
    <3> QED
      BY <1>2, <2>5, <3>1, FS_AddElement, Zenon
  <2>7. Unpaired(t, n + 1) <=> Cardinality(T) % 2 = 1
    BY DEF Unpaired, ColonRun
  <2>8. Unpaired(s, n) <=> Cardinality(R) % 2 = 1
    BY DEF Unpaired, ColonRun
  <2> HIDE DEF R, T
  <2> QED
    BY <1>2, <1>4, <2>6, <2>7, <2>8
<1> QED
  BY <1>3, <1>4
-----------------------------------------------------------------------------
(* Names, in a query and in the query with one byte more. *)
LEMMA AllNameStays ==
    ASSUME NEW s, NEW b, NEW t, Grows(s, b, t), NEW i \in Nat, NEW j \in Nat
    PROVE  /\ j <= Len(s) => (AllName(t, i, j) <=> AllName(s, i, j))
           /\ i <= Len(s) =>
                (AllName(t, i, Len(s) + 1) <=> AllName(s, i, Len(s)) /\ b \in NameBytes)
  BY Grown DEF AllName

LEMMA OpenGrows ==
    ASSUME NEW s, NEW b, NEW t, Grows(s, b, t), NEW i \in Nat
    PROVE  /\ i <= Len(s) => (OpenAt(t, i) <=> OpenAt(s, i) /\ b \in NameBytes)
           /\ i = Len(s) + 1 => (OpenAt(t, i) <=> b = Colon /\ ~Unpaired(s, Len(s)))
<1>1. CASE i <= Len(s)
  BY <1>1, Grown, RunStays, AllNameStays DEF OpenAt
<1>2. CASE i = Len(s) + 1
  <2>1. AllName(t, i, Len(t))
    BY <1>2, Grown DEF AllName
  <2> QED
    BY <1>2, <2>1, Grown, RunGrows DEF OpenAt
<1> QED
  BY <1>1, <1>2, Grown

LEMMA NoneOpens ==
    ASSUME NEW s, NEW b, NEW t, Grows(s, b, t),
           b \notin NameBytes \/ NoneOpen(s), b # Colon \/ Unpaired(s, Len(s))
    PROVE  \A j : ~OpenAt(t, j)
<1> SUFFICES ASSUME NEW j, OpenAt(t, j) PROVE FALSE
  OBVIOUS
<1>1. Len(s) \in Nat /\ j \in 1..Len(s) + 1
  BY Grown DEF OpenAt
<1>2. CASE j \in 1..Len(s)
  BY <1>1, <1>2, OpenGrows DEF NoneOpen
<1>3. CASE j = Len(s) + 1
  BY <1>1, <1>3, OpenGrows
<1> QED
  BY <1>1, <1>2, <1>3

LEMMA OpenFacts ==
    ASSUME NEW s \in Seq(Bytes), NEW i, OpenAt(s, i)
    PROVE  /\ i \in 1..Len(s) /\ Unpaired(s, i) /\ s[i] = Colon
           /\ \A k \in i + 1..Len(s) : s[k] \in NameBytes /\ s[k] # Colon /\ s[k] # Equals
           /\ i < Len(s) => i \in Starts(s)
           /\ s[Len(s)] = Colon => i = Len(s)
<1>1. i \in 1..Len(s) /\ Unpaired(s, i) /\ s[i] = Colon /\ Len(s) \in Nat /\ i \in Nat
  BY UnpairedIsColon DEF OpenAt
<1>2. \A k \in i + 1..Len(s) : s[k] \in NameBytes /\ s[k] # Colon /\ s[k] # Equals
  BY ByteFacts DEF OpenAt, AllName
<1> QED
  BY <1>1, <1>2 DEF Starts

LEMMA OneOpen ==
    ASSUME NEW s \in Seq(Bytes), NEW i, OpenAt(s, i), NEW j, OpenAt(s, j)
    PROVE  i = j
<1>1. i \in 1..Len(s) /\ j \in 1..Len(s) /\ s[i] = Colon /\ s[j] = Colon /\ Len(s) \in Nat
  BY OpenFacts
<1>2. ~(i < j) /\ ~(j < i)
  BY <1>1, OpenFacts
<1> QED
  BY <1>1, <1>2

LEMMA OpenLast ==
    ASSUME NEW s \in Seq(Bytes), Unpaired(s, Len(s))
    PROVE  OpenAt(s, Len(s))
  BY UnpairedIsColon DEF OpenAt, AllName

LEMMA StartsFacts ==
    ASSUME NEW s \in Seq(Bytes), NEW i \in Starts(s)
    PROVE  i \in 1..Len(s) /\ i < Len(s) /\ s[i] = Colon /\ Unpaired(s, i)
  BY UnpairedIsColon DEF Starts

LEMMA StartsGrow ==
    ASSUME NEW s, NEW b, NEW t, Grows(s, b, t), NEW i
    PROVE  i \in Starts(t) <=>
             \/ i \in Starts(s)
             \/ i = Len(s) /\ OpenAt(s, i) /\ b \notin {Colon, Equals}
<1>1. s \in Seq(Bytes) /\ Len(s) \in Nat /\ Len(t) - 1 = Len(s)
  BY Grown DEF Grows
<1>2. CASE i \in 1..Len(s) - 1
  <2>1. Unpaired(t, i) <=> Unpaired(s, i)
    BY <1>1, <1>2, RunStays
  <2>2. i + 1 \in 1..Len(s) /\ t[i + 1] = s[i + 1]
    BY <1>1, <1>2, Grown
  <2>3. i \in 1..Len(t) - 1 /\ i # Len(s)
    BY <1>1, <1>2
  <2> QED
    BY <1>2, <2>1, <2>2, <2>3 DEF Starts
<1>3. CASE i = Len(s)
  <2>1. t[i + 1] = b /\ (Unpaired(t, i) <=> Unpaired(s, i))
    BY <1>1, <1>3, Grown, RunStays
  <2>2. OpenAt(s, i) <=> Unpaired(s, i)
    BY <1>1, <1>3, OpenLast, OpenFacts
  <2>3. Unpaired(s, i) => i \in 1..Len(s)
    BY <1>1, <1>3, UnpairedIsColon
  <2> QED
    BY <1>1, <1>3, <2>1, <2>2, <2>3 DEF Starts
<1>4. CASE i \notin 1..Len(s) /\ i # Len(s)
  BY <1>1, <1>4 DEF Starts
<1> QED
  BY <1>1, <1>2, <1>3, <1>4

LEMMA PartStays ==
    ASSUME NEW s, NEW b, NEW t, Grows(s, b, t), NEW p \in 1..Len(s)
    PROVE  PartOfName(t, p) <=> PartOfName(s, p)
<1>1. s \in Seq(Bytes) /\ Len(s) \in Nat
  BY Grown DEF Grows
<1>2. ASSUME NEW i \in Nat, i < p
      PROVE  /\ i \in Starts(t) <=> i \in Starts(s)
             /\ AllName(t, i, p) <=> AllName(s, i, p)
  BY <1>1, <1>2, StartsGrow, AllNameStays
<1>3. \A i : i \in Starts(s) \/ i \in Starts(t) => i \in Nat
  BY DEF Starts
<1> QED
  BY <1>2, <1>3 DEF PartOfName

(* A name byte at the end is part of the name that is open. *)
LEMMA PartAtEnd ==
    ASSUME NEW s, NEW b, NEW t, Grows(s, b, t)
    PROVE  PartOfName(t, Len(s) + 1) <=> b \in NameBytes /\ \E i \in 1..Len(s) : OpenAt(s, i)
<1>1. s \in Seq(Bytes) /\ Len(s) \in Nat /\ t \in Seq(Bytes) /\ Len(t) = Len(s) + 1
  BY Grown DEF Grows
<1>2. ASSUME NEW i \in Starts(t), AllName(t, i, Len(s) + 1)
      PROVE  b \in NameBytes /\ i \in 1..Len(s) /\ OpenAt(s, i)
  <2>1. i \in 1..Len(s) /\ Unpaired(t, i)
    BY <1>1, StartsFacts
  <2>2. Unpaired(s, i) /\ AllName(s, i, Len(s)) /\ b \in NameBytes
    BY <1>1, <1>2, <2>1, RunStays, AllNameStays
  <2> QED
    BY <2>1, <2>2 DEF OpenAt
<1>3. ASSUME b \in NameBytes, NEW i \in 1..Len(s), OpenAt(s, i)
      PROVE  i \in Starts(t) /\ i < Len(s) + 1 /\ AllName(t, i, Len(s) + 1)
  <2>1. i \in Starts(t)
    BY <1>1, <1>3, OpenFacts, StartsGrow, ByteFacts
  <2>2. AllName(s, i, Len(s))
    BY <1>3 DEF OpenAt
  <2> QED
    BY <1>1, <1>3, <2>1, <2>2, AllNameStays
<1> QED
  BY <1>2, <1>3 DEF PartOfName

(* What was closed or written is before the name that is open. *)
LEMMA BeforeOpen ==
    ASSUME NEW s \in Seq(Bytes), NEW i, OpenAt(s, i)
    PROVE  /\ \A c \in Closed(s) : c < i
           /\ \A p \in Written(s) : p < i
<1>1. /\ i \in 1..Len(s) /\ Len(s) \in Nat
      /\ \A k \in i + 1..Len(s) : s[k] # Colon
  BY OpenFacts
<1>2. ASSUME NEW c \in Closed(s) PROVE c < i
  <2>1. c \in 1..Len(s) /\ s[c] = Colon /\ ~OpenAt(s, c)
    BY StartsFacts DEF Closed
  <2> QED
    BY <1>1, <2>1
<1>3. ASSUME NEW p \in Written(s) PROVE p < i
  <2>1. p \in 1..Len(s)
    BY DEF Written
  <2>2. CASE p = i
    BY <2>2, OpenFacts DEF Written
  <2>3. CASE p > i
    <3>1. i < Len(s) /\ i \in Starts(s)
      BY <1>1, <2>1, <2>3, OpenFacts
    <3>2. AllName(s, i, p)
      BY <1>1, <2>1 DEF OpenAt, AllName
    <3>3. PartOfName(s, p) /\ s[p] # Colon
      BY <1>1, <2>1, <2>3, <3>1, <3>2 DEF PartOfName
    <3> QED
      BY <3>3 DEF Written
  <2> QED
    BY <1>1, <2>1, <2>2, <2>3
<1> QED
  BY <1>2, <1>3

(* One byte more closes the open name, or not. *)
LEMMA ClosedGrows ==
    ASSUME NEW s, NEW b, NEW t, Grows(s, b, t), NEW i
    PROVE  i \in Closed(t) <=>
             \/ i \in Closed(s)
             \/ /\ OpenAt(s, i) /\ b \notin NameBytes
                /\ i = Len(s) => b \notin {Colon, Equals}
<1>1. s \in Seq(Bytes) /\ Len(s) \in Nat
  BY Grown DEF Grows
<1>2. ASSUME i \in 1..Len(s)
      PROVE  OpenAt(t, i) <=> OpenAt(s, i) /\ b \in NameBytes
  BY <1>1, <1>2, OpenGrows
<1>3. i \in Starts(t) \/ i \in Starts(s) \/ OpenAt(s, i) => i \in 1..Len(s)
  BY <1>1, StartsGrow, StartsFacts DEF OpenAt
<1>4. i \in Starts(s) => i # Len(s)
  BY <1>1, StartsFacts
<1>5. OpenAt(s, i) /\ i # Len(s) => i \in Starts(s)
  BY <1>1, OpenFacts
<1> QED
  BY <1>2, <1>3, <1>4, <1>5, StartsGrow, ByteFacts DEF Closed

LEMMA WrittenGrows ==
    ASSUME NEW s, NEW b, NEW t, Grows(s, b, t), NEW p
    PROVE  p \in Written(t) <=>
             \/ p \in Written(s)
             \/ OpenAt(s, p) /\ b \notin NameBytes
             \/ /\ p = Len(s) + 1 /\ b # Colon
                /\ b \in NameBytes => NoneOpen(s)
<1>1. s \in Seq(Bytes) /\ Len(s) \in Nat /\ Len(t) = Len(s) + 1
  BY Grown DEF Grows
<1>2. CASE p \in 1..Len(s)
  <2>1. t[p] = s[p] /\ p # Len(s) + 1 /\ p \in 1..Len(t)
    BY <1>1, <1>2, Grown
  <2>2. /\ Unpaired(t, p) <=> Unpaired(s, p)
        /\ OpenAt(t, p) <=> OpenAt(s, p) /\ b \in NameBytes
    BY <1>1, <1>2, RunStays, OpenGrows
  <2>3. OpenAt(s, p) => s[p] = Colon /\ Unpaired(s, p)
    BY <1>1, OpenFacts
  <2> QED
    BY <1>2, <2>1, <2>2, <2>3, PartStays DEF Written
<1>3. CASE p = Len(s) + 1
  <2>1. t[p] = b /\ p \in 1..Len(t) /\ p \notin 1..Len(s)
    BY <1>1, <1>3, Grown
  <2>2. OpenAt(t, p) <=> b = Colon /\ ~Unpaired(s, Len(s))
    BY <1>1, <1>3, OpenGrows
  <2>3. Unpaired(t, p) <=> b = Colon /\ ~Unpaired(s, Len(s))
    BY <1>3, RunGrows
  <2>4. PartOfName(t, p) <=> b \in NameBytes /\ ~NoneOpen(s)
    BY <1>3, PartAtEnd DEF NoneOpen
  <2>5. p \notin Written(s) /\ ~OpenAt(s, p)
    BY <2>1 DEF Written, OpenAt
  <2> QED
    BY <1>3, <2>1, <2>2, <2>3, <2>4, <2>5 DEF Written
<1>4. CASE p \notin 1..Len(s) /\ p # Len(s) + 1
  <2>1. p \notin 1..Len(t)
    BY <1>1, <1>4
  <2> QED
    BY <1>4, <2>1 DEF Written, OpenAt
<1> QED
  BY <1>2, <1>3, <1>4

LEMMA ColonGrows ==
    ASSUME NEW s, NEW b, NEW t, Grows(s, b, t), ~ColonInName(s)
    PROVE  ColonInName(t) <=> b = Colon /\ \E i \in 1..Len(s) : OpenAt(s, i) /\ i # Len(s)
<1>1. s \in Seq(Bytes) /\ Len(s) \in Nat /\ Len(t) = Len(s) + 1 /\ t[Len(s) + 1] = b
      /\ t \in Seq(Bytes)
  BY Grown DEF Grows
<1>2. ASSUME NEW i \in Starts(t), NEW j \in 1..Len(t) - 1, i < j, AllName(t, i, j), t[j + 1] = Colon
      PROVE  b = Colon /\ i \in 1..Len(s) /\ OpenAt(s, i) /\ i # Len(s)
  <2>1. i \in 1..Len(s) /\ j \in 1..Len(s) /\ i \in Starts(s) /\ AllName(s, i, j) /\ i # Len(s)
    <3>1. i \in 1..Len(s) /\ j \in 1..Len(s) /\ i # Len(s)
      BY <1>1, <1>2, StartsFacts
    <3> QED
      BY <1>1, <1>2, <3>1, StartsGrow, AllNameStays
  <2>2. j = Len(s)
    <3> SUFFICES ASSUME j # Len(s) PROVE FALSE
      OBVIOUS
    <3>1. j \in 1..Len(s) - 1 /\ j + 1 \in 1..Len(s)
      BY <1>1, <2>1
    <3>2. s[j + 1] = Colon
      BY <1>2, <3>1, Grown
    <3> QED
      BY <1>2, <2>1, <3>1, <3>2 DEF ColonInName
  <2>3. b = Colon
    BY <1>1, <1>2, <2>2
  <2>4. OpenAt(s, i)
    BY <1>1, <2>1, <2>2, StartsFacts DEF OpenAt
  <2> QED
    BY <2>1, <2>3, <2>4
<1>3. ASSUME b = Colon, NEW i \in 1..Len(s), OpenAt(s, i), i # Len(s)
      PROVE  /\ i \in Starts(t) /\ Len(s) \in 1..Len(t) - 1 /\ i < Len(s)
             /\ AllName(t, i, Len(s)) /\ t[Len(s) + 1] = Colon
  <2>1. i < Len(s) /\ i \in Starts(t) /\ Len(s) \in 1..Len(t) - 1
    BY <1>1, <1>3, OpenFacts, StartsGrow
  <2>2. AllName(t, i, Len(s))
    BY <1>1, <1>3, AllNameStays DEF OpenAt
  <2> QED
    BY <1>1, <1>3, <2>1, <2>2
<1> QED
  BY <1>2, <1>3 DEF ColonInName
-----------------------------------------------------------------------------
(* The lists of names and of text, in a query that grows. *)
LEMMA SubSeqStays ==
    ASSUME NEW s, NEW b, NEW t, Grows(s, b, t), NEW i \in Nat, NEW j \in Nat, j <= Len(s)
    PROVE  SubSeq(t, i + 1, j) = SubSeq(s, i + 1, j)
<1>1. /\ s \in Seq(Bytes) /\ <<b>> \in Seq(Bytes) /\ t = s \o <<b>> /\ Len(s) \in Nat
      /\ t \in Seq(Bytes)
  BY Grown DEF Grows
<1>2. CASE i < j
  <2>1. i + 1 \in 1..Len(s) /\ j \in 1..Len(s)
    BY <1>1, <1>2
  <2> QED
    BY <1>1, <2>1, SubSeqOfConcat1
<1>3. CASE ~(i < j)
  BY <1>3, SubSeqEmpty
<1> QED
  BY <1>2, <1>3

LEMMA SubSeqGrows ==
    ASSUME NEW s, NEW b, NEW t, Grows(s, b, t), NEW i \in 1..Len(s)
    PROVE  /\ SubSeq(t, i + 1, Len(s)) = SubSeq(s, i + 1, Len(s))
           /\ SubSeq(t, i + 1, Len(s) + 1) = Append(SubSeq(s, i + 1, Len(s)), b)
<1>1. /\ i \in Nat /\ s \in Seq(Bytes) /\ t \in Seq(Bytes) /\ Len(s) \in Nat /\ t[Len(s) + 1] = b
      /\ Len(t) = Len(s) + 1 /\ b \in Bytes
  BY Grown DEF Grows
<1>2. i + 1 \in 1..Len(t) /\ Len(t) \in i + 1..Len(t) /\ Len(t) - 1 = Len(s)
  BY <1>1
<1>3. SubSeq(t, i + 1, Len(t)) = SubSeq(t, i + 1, Len(t) - 1) \o <<t[Len(t)]>>
  BY <1>1, <1>2, SubSeqRecursiveSecond
<1>4. SubSeq(t, i + 1, Len(s)) = SubSeq(s, i + 1, Len(s))
  BY <1>1, SubSeqStays
<1>5. SubSeq(s, i + 1, Len(s)) \in Seq(Bytes)
  <2>1. \A k \in i + 1..Len(s) : s[k] \in Bytes
    BY <1>1
  <2> QED
    BY <1>1, <2>1, SubSeqProperties
<1>6. \A q \in Seq(Bytes) : q \o <<b>> = Append(q, b)
  BY <1>1
<1> QED
  BY <1>1, <1>2, <1>3, <1>4, <1>5, <1>6

LEMMA NameStays ==
    ASSUME NEW s, NEW b, NEW t, Grows(s, b, t), NEW i \in Nat, NEW n, NameIn(s, i, n)
    PROVE  NameIn(t, i, n)
<1>1. Len(s) \in Nat /\ Len(t) = Len(s) + 1
  BY Grown
<1>2. PICK j \in i..Len(s) - 1 :
         AllName(s, i, j) /\ s[j + 1] \notin NameBytes /\ n = SubSeq(s, i + 1, j)
  BY DEF NameIn
<1>3. j \in Nat /\ j <= Len(s) /\ j + 1 \in 1..Len(s) /\ j \in i..Len(t) - 1
  BY <1>1, <1>2
<1>4. AllName(t, i, j) /\ t[j + 1] = s[j + 1] /\ SubSeq(t, i + 1, j) = SubSeq(s, i + 1, j)
  BY <1>2, <1>3, AllNameStays, SubSeqStays, Grown
<1> QED
  BY <1>2, <1>3, <1>4 DEF NameIn

LEMMA NamesStay ==
    ASSUME NEW s, NEW b, NEW t, Grows(s, b, t), NEW C, C \subseteq Nat, NEW ns, NamesOf(s, C, ns)
    PROVE  NamesOf(t, C, ns)
  BY NameStays DEF NamesOf

LEMMA NamesAdd ==
    ASSUME NEW t, NEW C, IsPositions(C), NEW i \in Nat, \A c \in C : c < i,
           NEW ns \in Seq(Names), NEW n \in Names, NamesOf(t, C, ns), NameIn(t, i, n)
    PROVE  NamesOf(t, C \cup {i}, Append(ns, n))
<1>1. /\ Len(Append(ns, n)) = Len(ns) + 1 /\ Append(ns, n)[Len(ns) + 1] = n
      /\ \A k \in 1..Len(ns) : Append(ns, n)[k] = ns[k]
  OBVIOUS
<1>2. /\ Cardinality(C \cup {i}) = Cardinality(C) + 1
      /\ Rank(C \cup {i}, i) = Cardinality(C) + 1
      /\ \A c \in C : /\ Rank(C \cup {i}, c) = Rank(C, c)
                      /\ Rank(C, c) \in 1..Cardinality(C)
  BY RankAdd, Zenon
<1>3. Len(ns) = Cardinality(C) /\ \A c \in C : NameIn(t, c, ns[Rank(C, c)])
  BY DEF NamesOf
<1> QED
  BY <1>1, <1>2, <1>3, Zenon DEF NamesOf

LEMMA TextStays ==
    ASSUME NEW s, NEW b, NEW t, Grows(s, b, t), NEW W, W \subseteq 1..Len(s), NEW r,
           TextOf(s, W, r), \A p \in W : p \in Starts(t) <=> p \in Starts(s)
    PROVE  TextOf(t, W, r)
<1>1. \A p \in W : t[p] = s[p]
  BY Grown
<1> QED
  BY <1>1 DEF TextOf, Reads

LEMMA TextAdd ==
    ASSUME NEW t, NEW W, IsPositions(W), NEW p \in Nat, \A q \in W : q < p,
           NEW r \in Seq(Bytes \cup Bindvars), NEW x \in Bytes \cup Bindvars,
           TextOf(t, W, r), Reads(t, p, x)
    PROVE  TextOf(t, W \cup {p}, Append(r, x))
<1>1. /\ Len(Append(r, x)) = Len(r) + 1 /\ Append(r, x)[Len(r) + 1] = x
      /\ \A k \in 1..Len(r) : Append(r, x)[k] = r[k]
  OBVIOUS
<1>2. /\ Cardinality(W \cup {p}) = Cardinality(W) + 1
      /\ Rank(W \cup {p}, p) = Cardinality(W) + 1
      /\ \A q \in W : /\ Rank(W \cup {p}, q) = Rank(W, q)
                      /\ Rank(W, q) \in 1..Cardinality(W)
  BY RankAdd, Zenon
<1>3. Len(r) = Cardinality(W) /\ \A q \in W : Reads(t, q, r[Rank(W, q)])
  BY DEF TextOf
<1> QED
  BY <1>1, <1>2, <1>3, Zenon DEF TextOf
-----------------------------------------------------------------------------
(* Where a query stands after one byte more, by what the byte does. *)
LEMMA ReadingFacts ==
    ASSUME NEW s, NEW b, NEW t, Grows(s, b, t), NEW ns, NEW r, Reading(s, ns, r)
    PROVE  /\ IsPositions(Closed(s)) /\ IsPositions(Written(s))
           /\ Written(s) \subseteq 1..Len(s)
           /\ NamesOf(t, Closed(s), ns) /\ TextOf(t, Written(s), r)
<1>1. s \in Seq(Bytes) /\ Len(s) \in Nat
  BY Grown DEF Grows
<1>2. Closed(s) \subseteq 1..Len(s) /\ Written(s) \subseteq 1..Len(s)
  BY <1>1, StartsFacts DEF Closed, Written
<1>3. IsPositions(Closed(s)) /\ IsPositions(Written(s))
  BY <1>1, <1>2, PositionsOf
<1>4. NamesOf(t, Closed(s), ns)
  BY <1>3, NamesStay DEF Reading, IsPositions
<1>5. ASSUME NEW p \in Written(s) PROVE p \in Starts(t) <=> p \in Starts(s)
  <2>1. ~OpenAt(s, p)
    BY <1>1, OpenFacts DEF Written
  <2> QED
    BY <2>1, StartsGrow
<1>6. TextOf(t, Written(s), r)
  BY <1>2, <1>5, TextStays DEF Reading
<1> QED
  BY <1>2, <1>3, <1>4, <1>6

(* No byte is written, no name closed: a colon opens a name, or a name     *)
(* goes on.                                                                *)
LEMMA ReadsOn ==
    ASSUME NEW s, NEW b, NEW t, Grows(s, b, t), NEW ns, NEW r, Reading(s, ns, r),
           \/ b = Colon /\ NoneOpen(s)
           \/ b \in NameBytes /\ ~NoneOpen(s)
    PROVE  Reading(t, ns, r)
<1>1. s \in Seq(Bytes) /\ Len(s) \in Nat /\ \A i : OpenAt(s, i) => i \in 1..Len(s)
  BY Grown DEF Grows, OpenAt
<1>2. Closed(t) = Closed(s)
  <2>1. \A i : i \in Closed(t) <=> i \in Closed(s)
    BY <1>1, ClosedGrows DEF NoneOpen
  <2> QED
    BY <2>1
<1>3. Written(t) = Written(s)
  <2>1. \A p : p \in Written(t) <=> p \in Written(s)
    BY <1>1, WrittenGrows, ByteFacts DEF NoneOpen
  <2> QED
    BY <2>1
<1>4. ~ColonInName(t)
  BY <1>1, ColonGrows, ByteFacts DEF NoneOpen, Reading
<1> QED
  BY <1>2, <1>3, <1>4, ReadingFacts DEF Reading

(* A byte of the text. *)
LEMMA ReadsText ==
    ASSUME NEW s, NEW b, NEW t, Grows(s, b, t), NEW ns, NEW r \in Seq(Bytes \cup Bindvars),
           Reading(s, ns, r), NoneOpen(s), b # Colon
    PROVE  Reading(t, ns, Append(r, b))
<1> DEFINE n == Len(s) + 1
<1>1. /\ s \in Seq(Bytes) /\ Len(s) \in Nat /\ b \in Bytes /\ t[n] = b /\ n \in Nat
      /\ \A i : ~OpenAt(s, i)
  BY Grown DEF Grows, OpenAt, NoneOpen
<1>2. Closed(t) = Closed(s)
  <2>1. \A i : i \in Closed(t) <=> i \in Closed(s)
    BY <1>1, ClosedGrows
  <2> QED
    BY <2>1
<1>3. Written(t) = Written(s) \cup {n}
  <2>1. \A p : p \in Written(t) <=> p \in Written(s) \/ p = n
    BY <1>1, WrittenGrows
  <2> QED
    BY <2>1
<1>4. /\ IsPositions(Written(s)) /\ Written(s) \subseteq 1..Len(s)
      /\ NamesOf(t, Closed(s), ns) /\ TextOf(t, Written(s), r)
  BY ReadingFacts
<1>5. n \notin Starts(t)
  BY <1>1, StartsGrow, StartsFacts
<1>6. TextOf(t, Written(s) \cup {n}, Append(r, b))
  <2>1. Reads(t, n, b)
    BY <1>1, <1>5 DEF Reads
  <2>2. \A q \in Written(s) : q < n
    BY <1>1, <1>4
  <2>3. b \in Bytes \cup Bindvars
    BY <1>1
  <2> QED
    BY <1>1, <1>4, <2>1, <2>2, <2>3, TextAdd, Zenon
<1>7. ~ColonInName(t)
  BY ColonGrows DEF Reading
<1> QED
  BY <1>2, <1>3, <1>4, <1>6, <1>7 DEF Reading

(* The second colon of a pair. *)
LEMMA ReadsPair ==
    ASSUME NEW s, NEW b, NEW t, Grows(s, b, t), NEW ns, NEW r \in Seq(Bytes \cup Bindvars),
           Reading(s, ns, r), OpenAt(s, Len(s)), b = Colon
    PROVE  Reading(t, ns, Append(r, Colon))
<1> DEFINE i == Len(s)
<1>1. /\ s \in Seq(Bytes) /\ i \in 1..Len(s) /\ i \in Nat /\ Colon \in Bytes /\ t[i] = Colon
      /\ \A j : OpenAt(s, j) <=> j = i
  BY Grown, OpenFacts, OneOpen DEF Grows
<1>2. Closed(t) = Closed(s)
  <2>1. \A j : j \in Closed(t) <=> j \in Closed(s)
    BY <1>1, ClosedGrows
  <2> QED
    BY <2>1
<1>3. Written(t) = Written(s) \cup {i}
  <2>1. \A p : p \in Written(t) <=> p \in Written(s) \/ p = i
    BY <1>1, WrittenGrows, ByteFacts
  <2> QED
    BY <2>1
<1>4. /\ IsPositions(Written(s)) /\ NamesOf(t, Closed(s), ns) /\ TextOf(t, Written(s), r)
  BY ReadingFacts
<1>5. i \notin Starts(t)
  BY <1>1, StartsGrow, StartsFacts
<1>6. TextOf(t, Written(s) \cup {i}, Append(r, Colon))
  <2>1. Reads(t, i, Colon)
    BY <1>1, <1>5 DEF Reads
  <2>2. \A q \in Written(s) : q < i
    BY <1>1, BeforeOpen
  <2>3. Colon \in Bytes \cup Bindvars
    BY <1>1
  <2> QED
    BY <1>1, <1>4, <2>1, <2>2, <2>3, TextAdd, Zenon
<1>7. ~ColonInName(t)
  BY <1>1, ColonGrows DEF Reading
<1> QED
  BY <1>2, <1>3, <1>4, <1>6, <1>7 DEF Reading

(* What comes after an open name that is written at i: x for the name, and *)
(* the byte that ends it.                                                  *)
LEMMA ReadsEnd ==
    ASSUME NEW s, NEW b, NEW t, Grows(s, b, t), NEW ns, NEW r \in Seq(Bytes \cup Bindvars),
           Reading(s, ns, r), NEW i, OpenAt(s, i), b \notin NameBytes, b # Colon,
           NEW x \in Bytes \cup Bindvars, Reads(t, i, x)
    PROVE  TextOf(t, Written(t), Append(Append(r, x), b)) /\ ~ColonInName(t)
<1> DEFINE n == Len(s) + 1
           W == Written(s) \cup {i}
<1>1. /\ s \in Seq(Bytes) /\ Len(s) \in Nat /\ i \in 1..Len(s) /\ i \in Nat /\ n \in Nat
      /\ b \in Bytes \cup Bindvars /\ t[n] = b
      /\ \A j : OpenAt(s, j) <=> j = i
  BY Grown, OpenFacts, OneOpen DEF Grows
<1>2. Written(t) = W \cup {n}
  <2>1. \A p : p \in Written(t) <=> p \in Written(s) \/ p = i \/ p = n
    BY <1>1, WrittenGrows
  <2> QED
    BY <2>1
<1>3. /\ IsPositions(Written(s)) /\ Written(s) \subseteq 1..Len(s)
      /\ TextOf(t, Written(s), r)
  BY ReadingFacts
<1>4. TextOf(t, W, Append(r, x))
  <2>1. \A q \in Written(s) : q < i
    BY <1>1, BeforeOpen
  <2> QED
    BY <1>1, <1>3, <2>1, TextAdd, Zenon
<1>5. TextOf(t, W \cup {n}, Append(Append(r, x), b))
  <2>1. IsPositions(W)
    <3>1. W \subseteq 1..Len(s)
      BY <1>1, <1>3
    <3> QED
      BY <1>1, <3>1, PositionsOf
  <2>2. \A q \in W : q < n
    BY <1>1, <1>3
  <2>3. Reads(t, n, b)
    BY <1>1, StartsGrow, StartsFacts DEF Reads
  <2>4. Append(r, x) \in Seq(Bytes \cup Bindvars)
    OBVIOUS
  <2> HIDE DEF W, n
  <2> QED
    BY <1>1, <1>4, <2>1, <2>2, <2>3, <2>4, TextAdd, Zenon
<1>6. ~ColonInName(t)
  BY ColonGrows DEF Reading
<1> QED
  BY <1>2, <1>5, <1>6

(* ":=" *)
LEMMA ReadsAssign ==
    ASSUME NEW s, NEW b, NEW t, Grows(s, b, t), NEW ns, NEW r \in Seq(Bytes \cup Bindvars),
           Reading(s, ns, r), OpenAt(s, Len(s)), b = Equals
    PROVE  Reading(t, ns, Append(Append(r, Colon), Equals))
<1> DEFINE i == Len(s)
<1>1. /\ s \in Seq(Bytes) /\ i \in 1..Len(s) /\ t[i] = Colon /\ Colon \in Bytes \cup Bindvars
      /\ \A j : OpenAt(s, j) <=> j = i
  BY Grown, OpenFacts, OneOpen DEF Grows
<1>2. Closed(t) = Closed(s)
  <2>1. \A j : j \in Closed(t) <=> j \in Closed(s)
    BY <1>1, ClosedGrows
  <2> QED
    BY <2>1
<1>3. Reads(t, i, Colon)
  BY <1>1, StartsGrow, StartsFacts DEF Reads
<1>4. NamesOf(t, Closed(s), ns)
  BY ReadingFacts
<1>5. TextOf(t, Written(t), Append(Append(r, Colon), b)) /\ ~ColonInName(t)
  BY <1>1, <1>3, ReadsEnd, ByteFacts
<1> QED
  BY <1>2, <1>4, <1>5 DEF Reading

(* The byte after a name. *)
LEMMA ReadsName ==
    ASSUME NEW s, NEW b, NEW t, Grows(s, b, t), NEW ns \in Seq(Names),
           NEW r \in Seq(Bytes \cup Bindvars), Reading(s, ns, r),
           NEW i, OpenAt(s, i), b \notin NameBytes, b # Colon, ~(b = Equals /\ i = Len(s)),
           NEW n \in Names, n = SubSeq(s, i + 1, Len(s)), NEW v \in Bindvars
    PROVE  Reading(t, Append(ns, n), Append(Append(r, v), b))
<1>1. /\ s \in Seq(Bytes) /\ Len(s) \in Nat /\ i \in 1..Len(s) /\ i \in Nat
      /\ t[Len(s) + 1] = b /\ Len(t) = Len(s) + 1
      /\ \A j : OpenAt(s, j) <=> j = i
  BY Grown, OpenFacts, OneOpen DEF Grows
<1>2. Closed(t) = Closed(s) \cup {i}
  <2>1. \A j : j \in Closed(t) <=> j \in Closed(s) \/ j = i
    BY <1>1, ClosedGrows
  <2> QED
    BY <2>1
<1>3. i \in Starts(t)
  BY <1>2 DEF Closed
<1>4. TextOf(t, Written(t), Append(Append(r, v), b)) /\ ~ColonInName(t)
  <2>1. Reads(t, i, v)
    BY <1>3, BytesAndBindvars DEF Reads
  <2> QED
    BY <2>1, ReadsEnd
<1>5. NamesOf(t, Closed(s) \cup {i}, Append(ns, n))
  <2>1. IsPositions(Closed(s)) /\ NamesOf(t, Closed(s), ns) /\ \A c \in Closed(s) : c < i
    BY <1>1, ReadingFacts, BeforeOpen
  <2>2. NameIn(t, i, n)
    <3>1. AllName(t, i, Len(s))
      BY <1>1, AllNameStays DEF OpenAt
    <3>2. SubSeq(t, i + 1, Len(s)) = n
      BY <1>1, SubSeqGrows, Zenon
    <3>3. Len(s) \in i..Len(t) - 1
      BY <1>1
    <3> QED
      BY <1>1, <3>1, <3>2, <3>3 DEF NameIn
  <2> QED
    BY <1>1, <2>1, <2>2, NamesAdd, Zenon
<1> QED
  BY <1>2, <1>4, <1>5 DEF Reading
-----------------------------------------------------------------------------
(* Where a query stands when it ends. *)
LEMMA UpTo == ASSUME NEW k \in Nat PROVE \A p \in 1..k + 1 : p \in 1..k \/ p = k + 1
  OBVIOUS

LEMMA NameInIsNameAt ==
    ASSUME NEW s \in Seq(Bytes), NEW i \in Nat, NEW n, NameIn(s, i, n)
    PROVE  NameAt(s, i, n)
<1>1. Len(s) \in Nat
  OBVIOUS
<1>2. PICK j \in i..Len(s) - 1 :
         AllName(s, i, j) /\ s[j + 1] \notin NameBytes /\ n = SubSeq(s, i + 1, j)
  BY DEF NameIn
<1>3. j \in i..Len(s) /\ j # Len(s)
  BY <1>1, <1>2
<1>4. n = SubSeq(s, i + 1, IF EndsInMark(s, j) THEN j - 1 ELSE j)
  BY <1>2, <1>3 DEF EndsInMark
<1> QED
  BY <1>2, <1>3, <1>4 DEF NameAt

(* No name is open, or one that has no byte. *)
LEMMA EndsInText ==
    ASSUME NEW s \in Seq(Bytes), NEW ns, NEW r, Reading(s, ns, r),
           \A i : OpenAt(s, i) => i = Len(s)
    PROVE  ~ColonInName(s) /\ NamesFound(s, ns) /\ TextKept(s, r)
<1>1. Len(s) \in Nat /\ (Unpaired(s, Len(s)) => OpenAt(s, Len(s)))
  BY OpenLast
<1>2. Closed(s) = Starts(s)
  BY StartsFacts DEF Closed
<1>3. NamesFound(s, ns)
  <2>1. NamesOf(s, Starts(s), ns)
    BY <1>2 DEF Reading
  <2>2. \A i \in Starts(s) : i \in Nat
    BY DEF Starts
  <2> QED
    BY <2>1, <2>2, NameInIsNameAt DEF NamesOf, NamesFound
<1>4. ~PartOfName(s, Len(s))
  <2> SUFFICES ASSUME NEW i \in Starts(s), i < Len(s), AllName(s, i, Len(s)) PROVE FALSE
    BY DEF PartOfName
  <2>1. OpenAt(s, i) /\ i # Len(s)
    BY StartsFacts DEF OpenAt
  <2> QED
    BY <2>1
<1>5. Kept(s) = Written(s)
  <2>1. ASSUME NEW p \in 1..Len(s), s[p] = Colon
        PROVE  Unpaired(s, p) /\ p # Len(s) <=> Unpaired(s, p) /\ ~OpenAt(s, p)
    BY <1>1
  <2>2. ASSUME NEW p \in 1..Len(s)
        PROVE  OfName(s, p) <=> PartOfName(s, p)
    BY <1>4 DEF OfName, PartOfName, EndsInMark
  <2> QED
    BY <2>1, <2>2 DEF Kept, Written
<1>6. TextKept(s, r)
  BY <1>5 DEF Reading, TextOf, TextKept, Reads
<1> QED
  BY <1>3, <1>6 DEF Reading

(* A name is open, and the last byte is one of a name. *)
LEMMA EndsInName ==
    ASSUME NEW s, NEW b, NEW t, Grows(s, b, t), NEW ns \in Seq(Names),
           NEW r \in Seq(Bytes \cup Bindvars), Reading(s, ns, r),
           NEW i, OpenAt(s, i), b \in NameBytes,
           NEW n \in Names, n = SubSeq(s, i + 1, Len(s)), NEW v \in Bindvars,
           NEW whole \in Names, whole = IF b = Alnum THEN Append(n, b) ELSE n
    PROVE  /\ ~ColonInName(t)
           /\ NamesFound(t, Append(ns, whole))
           /\ TextKept(t, Append(r, v) \o Rest(b))
<1> DEFINE m == Len(s) + 1
           C == Closed(s) \cup {i}
           W == Written(s) \cup {i}
<1>1. /\ s \in Seq(Bytes) /\ t \in Seq(Bytes) /\ Len(s) \in Nat /\ b \in Bytes
      /\ i \in 1..Len(s) /\ i \in Nat /\ t[m] = b /\ Len(t) = m /\ m \in Nat
      /\ \A j : OpenAt(s, j) <=> j = i
  BY Grown, OpenFacts, OneOpen DEF Grows
<1>2. b # Colon /\ b # Equals /\ (b = Alnum \/ b = Mark) /\ Alnum # Mark
  BY ByteFacts
<1>3. ~ColonInName(t)
  BY <1>2, ColonGrows DEF Reading
<1>4. Starts(t) = C
  <2>1. \A j : j \in Starts(t) <=> j \in Starts(s) \/ (j = Len(s) /\ j = i)
    BY <1>1, <1>2, StartsGrow
  <2>2. i # Len(s) => i \in Starts(s)
    BY <1>1, OpenFacts
  <2>3. \A j : j \in Closed(s) <=> j \in Starts(s) /\ j # i
    BY <1>1 DEF Closed
  <2>4. \A j : j \in Starts(t) <=> j \in C
    BY <2>1, <2>2, <2>3
  <2> QED
    BY <2>4
<1>5. /\ IsPositions(Closed(s)) /\ \A c \in Closed(s) : c < i
      /\ IsPositions(Written(s)) /\ \A p \in Written(s) : p < i
      /\ Written(s) \subseteq 1..Len(s)
      /\ NamesOf(t, Closed(s), ns) /\ TextOf(t, Written(s), r)
  BY <1>1, ReadingFacts, BeforeOpen
<1>6. AllName(t, i, m)
  BY <1>1, AllNameStays DEF OpenAt
<1>7. NameAt(t, i, whole)
  <2>1. EndsInMark(t, m) <=> b = Mark
    BY <1>1 DEF EndsInMark
  <2>2. SubSeq(t, i + 1, Len(s)) = n /\ SubSeq(t, i + 1, m) = Append(n, b)
    BY <1>1, SubSeqGrows, Zenon
  <2>4. m - 1 = Len(s) /\ m \in i..Len(t) /\ ~(m < Len(t))
    BY <1>1
  <2>5. whole = SubSeq(t, i + 1, IF EndsInMark(t, m) THEN m - 1 ELSE m)
    BY <1>2, <2>1, <2>2, <2>4
  <2> QED
    BY <1>6, <2>4, <2>5 DEF NameAt
<1>8. NamesFound(t, Append(ns, whole))
  <2>1. /\ Len(Append(ns, whole)) = Len(ns) + 1 /\ Append(ns, whole)[Len(ns) + 1] = whole
        /\ \A k \in 1..Len(ns) : Append(ns, whole)[k] = ns[k]
    OBVIOUS
  <2>2. /\ Cardinality(C) = Cardinality(Closed(s)) + 1
        /\ Rank(C, i) = Cardinality(Closed(s)) + 1
        /\ \A c \in Closed(s) : /\ Rank(C, c) = Rank(Closed(s), c)
                                /\ Rank(Closed(s), c) \in 1..Cardinality(Closed(s))
    BY <1>1, <1>5, RankAdd, Zenon
  <2>3. /\ Len(ns) = Cardinality(Closed(s))
        /\ \A c \in Closed(s) : NameIn(t, c, ns[Rank(Closed(s), c)])
    BY <1>5 DEF NamesOf
  <2>4. \A c \in Closed(s) : NameAt(t, c, ns[Rank(Closed(s), c)])
    BY <1>1, <1>5, <2>3, NameInIsNameAt DEF IsPositions
  <2> HIDE DEF C
  <2>5. \A c \in C : c \in Closed(s) \/ c = i
    BY DEF C
  <2> QED
    BY <1>4, <1>7, <2>1, <2>2, <2>3, <2>4, <2>5, Zenon DEF NamesFound
<1>9. TextOf(t, W, Append(r, v))
  <2>1. Reads(t, i, v)
    BY <1>4, BytesAndBindvars DEF Reads
  <2>2. v \in Bytes \cup Bindvars
    OBVIOUS
  <2> QED
    BY <1>1, <1>5, <2>1, <2>2, TextAdd, Zenon
<1>10. Kept(t) = IF b = Mark THEN W \cup {m} ELSE W
  <2>1. ASSUME NEW p \in 1..Len(s) PROVE p \in Kept(t) <=> p \in W
    <3>1. t[p] = s[p] /\ p # m /\ p \in 1..Len(t)
      BY <1>1, Grown
    <3>2. CASE s[p] = Colon
      <4>1. Unpaired(t, p) <=> Unpaired(s, p)
        BY <1>1, RunStays
      <4>2. Unpaired(s, i) /\ s[i] = Colon
        BY <1>1, OpenFacts
      <4> QED
        BY <1>1, <3>1, <3>2, <4>1, <4>2 DEF Kept, Written
    <3>3. CASE s[p] # Colon
      <4>1. OfName(t, p) <=> PartOfName(s, p)
        <5>1. OfName(t, p) <=> PartOfName(t, p)
          BY <1>1, <3>1 DEF OfName, PartOfName, EndsInMark
        <5> QED
          BY <5>1, PartStays
      <4>2. p # i
        BY <1>1, <3>3, OpenFacts
      <4> QED
        BY <1>1, <3>1, <3>3, <4>1, <4>2 DEF Kept, Written
    <3> QED
      BY <3>2, <3>3
  <2>2. m \in Kept(t) <=> b = Mark
    <3>1. PartOfName(t, m)
      BY <1>1, PartAtEnd
    <3>2. EndsInMark(t, m) <=> b = Mark
      BY <1>1 DEF EndsInMark
    <3>3. OfName(t, m) <=> b # Mark
      BY <3>1, <3>2 DEF OfName, PartOfName
    <3>4. m \in 1..Len(t)
      BY <1>1
    <3> QED
      BY <1>1, <1>2, <3>3, <3>4 DEF Kept
  <2>3. /\ \A p \in Kept(t) : p \in 1..Len(s) \/ p = m
        /\ \A p \in W : p \in 1..Len(s)
        /\ m \notin 1..Len(s)
    <3>1. \A p \in 1..Len(t) : p \in 1..Len(s) \/ p = m
      BY <1>1, UpTo, Zenon
    <3>2. Kept(t) \subseteq 1..Len(t)
      BY DEF Kept
    <3>3. m \notin 1..Len(s)
      BY <1>1
    <3> QED
      BY <1>1, <1>5, <3>1, <3>2, <3>3
  <2> HIDE DEF W, m
  <2>4. \A p : p \in Kept(t) <=> p \in W \/ (p = m /\ b = Mark)
    BY <2>1, <2>2, <2>3
  <2> QED
    BY <2>4
<1>11. TextOf(t, Kept(t), Append(r, v) \o Rest(b))
  <2>1. Append(r, v) \in Seq(Bytes \cup Bindvars)
    OBVIOUS
  <2>2. CASE b = Mark
    <3>1. Append(r, v) \o Rest(b) = Append(Append(r, v), b)
      <4>1. Rest(b) = <<b>> /\ b \in Bytes \cup Bindvars
        BY <1>1, <1>2, <2>2 DEF Rest
      <4>2. \A q \in Seq(Bytes \cup Bindvars) : q \o <<b>> = Append(q, b)
        BY <4>1
      <4> QED
        BY <2>1, <4>1, <4>2
    <3>2. IsPositions(W)
      <4>1. W \subseteq 1..Len(s)
        BY <1>1, <1>5
      <4> QED
        BY <1>1, <4>1, PositionsOf
    <3>3. \A q \in W : q < m
      BY <1>1, <1>5
    <3>4. Reads(t, m, b)
      BY <1>1, StartsFacts DEF Reads
    <3>5. b \in Bytes \cup Bindvars
      BY <1>1
    <3> HIDE DEF W, m
    <3>6. TextOf(t, W \cup {m}, Append(Append(r, v), b))
      BY <1>1, <1>9, <2>1, <3>2, <3>3, <3>4, <3>5, TextAdd, Zenon
    <3> QED
      BY <1>10, <2>2, <3>1, <3>6
  <2>3. CASE b = Alnum
    <3>1. Append(r, v) \o Rest(b) = Append(r, v)
      BY <2>1, <2>3 DEF Rest
    <3> QED
      BY <1>2, <1>9, <1>10, <2>3, <3>1
  <2> QED
    BY <1>2, <2>2, <2>3
<1> QED
  BY <1>3, <1>8, <1>11 DEF TextOf, TextKept, Reads
-----------------------------------------------------------------------------
WholeInv == ReadInv /\ NamesAreWhole /\ TextSurvives

LEMMA BindvarFits ==
    ASSUME TypeOK, NEW n \in Names
    PROVE  Bindvar(currentVar, n) \in Bindvars
  BY BindvarType DEF TypeOK, Bindvars

LEMMA TypeFacts ==
    ASSUME TypeOK
    PROVE  /\ qs \in Seq(Bytes) /\ name \in Names /\ names \in Seq(Names)
           /\ rebound \in Seq(Bytes \cup Bindvars)
  BY DEF TypeOK

LEMMA ReadGrows ==
    ASSUME TypeOK, NEW b \in Bytes, NEW last \in BOOLEAN, Read(b, last)
    PROVE  Grows(qs, b, qs') /\ qs' \in Seq(Bytes) /\ ~done /\ done' = last
           /\ Len(qs) \in Nat /\ Len(qs') = Len(qs) + 1
<1>1. Grows(qs, b, qs') /\ ~done /\ done' = last
  BY DEF TypeOK, Read, Grows
<1> QED
  BY <1>1, Grown

(* A step that finds no colon in a name, and no name byte at the end.      *)
LEMMA GoesOn ==
    ASSUME qs' \in Seq(Bytes), err' = FALSE,
           IF inName' THEN Open(qs', name') ELSE NoneOpen(qs'),
           Reading(qs', names', rebound'),
           done' => \A i : OpenAt(qs', i) => i = Len(qs')
    PROVE  WholeInv'
<1>1. ReadInv'
  BY DEF ReadInv
<1>2. done' => ~ColonInName(qs') /\ NamesFound(qs', names') /\ TextKept(qs', rebound')
  BY EndsInText
<1> QED
  BY <1>1, <1>2 DEF WholeInv, NamesAreWhole, TextSurvives

LEMMA NameIsEmpty ==
    ASSUME NEW s \in Seq(Bytes), NEW i, OpenAt(s, i), NEW n, n = SubSeq(s, i + 1, Len(s))
    PROVE  n = <<>> <=> i = Len(s)
<1>1. Len(s) \in Nat /\ i \in 1..Len(s)
  BY DEF OpenAt
<1>2. CASE i = Len(s)
  BY <1>1, <1>2, SubSeqEmpty
<1>3. CASE i # Len(s)
  <2>1. \A k \in i + 1..Len(s) : s[k] \in Bytes
    BY <1>1
  <2>2. Len(n) = Len(s) - i
    BY <1>1, <1>3, <2>1, SubSeqProperties
  <2>3. Len(n) # Len(<<>>)
    BY <1>1, <1>3, <2>2
  <2> QED
    BY <1>3, <2>3, Zenon
<1> QED
  BY <1>2, <1>3

LEMMA WholeInit == Init => WholeInv
<1> SUFFICES ASSUME Init PROVE WholeInv
  OBVIOUS
<1>1. /\ qs = <<>> /\ names = <<>> /\ rebound = <<>> /\ ~done /\ ~err /\ ~inName
      /\ Len(qs) = 0 /\ Len(names) = 0 /\ Len(rebound) = 0
  BY DEF Init
<1>2. Starts(qs) = {} /\ Written(qs) = {}
  BY <1>1 DEF Starts, Written
<1>3. Closed(qs) = {} /\ Cardinality({}) = 0
  BY <1>2, FS_EmptySet DEF Closed
<1>4. Reading(qs, names, rebound)
  BY <1>1, <1>2, <1>3 DEF Reading, ColonInName, NamesOf, TextOf
<1>5. NoneOpen(qs)
  BY <1>1 DEF NoneOpen
<1> QED
  BY <1>1, <1>4, <1>5 DEF WholeInv, ReadInv, NamesAreWhole, TextSurvives

LEMMA CloseNameWhole ==
    ASSUME TypeOK, WholeInv, NEW b \in Bytes, NEW last \in BOOLEAN, CloseName(b, last)
    PROVE  WholeInv'
<1> DEFINE whole == IF b = Alnum THEN Append(name, b) ELSE name
           v == Bindvar(currentVar, whole)
<1>1. /\ Read(b, last) /\ inName /\ b # Colon /\ ~(b = Equals /\ name = <<>>)
      /\ b \in NameBytes => last
      /\ inName' = FALSE /\ name' = whole /\ names' = Append(names, whole)
      /\ rebound' = Append(rebound, v) \o Rest(b) /\ err' = err
  BY DEF CloseName, CloseAt, NameBytes
<1>2. /\ Grows(qs, b, qs') /\ qs' \in Seq(Bytes) /\ ~done /\ done' = last
      /\ Len(qs) \in Nat /\ Len(qs') = Len(qs) + 1
  BY <1>1, ReadGrows
<1>3. /\ qs \in Seq(Bytes) /\ name \in Names /\ names \in Seq(Names)
      /\ rebound \in Seq(Bytes \cup Bindvars)
  BY TypeFacts
<1>4. whole \in Names
  BY <1>3 DEF Names
<1>5. v \in Bindvars
  BY <1>4, BindvarFits
<1>6. Reading(qs, names, rebound) /\ Open(qs, name) /\ err = FALSE
  BY <1>1, <1>2 DEF WholeInv, ReadInv, TypeOK
<1>7. PICK i \in 1..Len(qs) : OpenAt(qs, i) /\ name = SubSeq(qs, i + 1, Len(qs))
  BY <1>6 DEF Open
<1>8. CASE b \in NameBytes
  <2>1. /\ ~ColonInName(qs')
        /\ NamesFound(qs', Append(names, whole))
        /\ TextKept(qs', Append(rebound, v) \o Rest(b))
    BY <1>2, <1>3, <1>4, <1>5, <1>6, <1>7, <1>8, EndsInName
  <2>2. done'
    BY <1>1, <1>2, <1>8
  <2> HIDE DEF whole, v
  <2> QED
    BY <1>1, <1>6, <2>1, <2>2 DEF WholeInv, ReadInv, NamesAreWhole, TextSurvives
<1>9. CASE b \notin NameBytes
  <2>1. whole = name /\ Rest(b) = <<b>>
    BY <1>9 DEF Rest, NameBytes
  <2>2. ~(b = Equals /\ i = Len(qs))
    BY <1>1, <1>3, <1>7, NameIsEmpty
  <2> HIDE DEF v
  <2>3. Reading(qs', Append(names, name), Append(Append(rebound, v), b))
    BY <1>1, <1>2, <1>3, <1>5, <1>6, <1>7, <1>9, <2>2, ReadsName
  <2>4. rebound' = Append(Append(rebound, v), b) /\ names' = Append(names, name)
    <3>1. b \in Bytes \cup Bindvars /\ Append(rebound, v) \in Seq(Bytes \cup Bindvars)
      BY <1>3, <1>5
    <3>2. \A q \in Seq(Bytes \cup Bindvars) : q \o <<b>> = Append(q, b)
      BY <3>1
    <3> QED
      BY <1>1, <2>1, <3>1, <3>2
  <2>5. \A j : ~OpenAt(qs', j)
    BY <1>1, <1>2, <1>9, NoneOpens
  <2> QED
    BY <1>1, <1>2, <1>6, <2>3, <2>4, <2>5, GoesOn DEF NoneOpen
<1> QED
  BY <1>8, <1>9

LEMMA WholeStep == TypeOK /\ WholeInv /\ [Next]_vars => WholeInv'
<1> SUFFICES ASSUME TypeOK, WholeInv, [Next]_vars PROVE WholeInv'
  OBVIOUS
<1>t. /\ qs \in Seq(Bytes) /\ name \in Names /\ names \in Seq(Names)
      /\ rebound \in Seq(Bytes \cup Bindvars) /\ Len(qs) \in Nat
      /\ Colon \in Bytes /\ Equals \in Bytes
  BY TypeFacts DEF Bytes
<1>r. ~done => Reading(qs, names, rebound) /\ err = FALSE
  BY DEF WholeInv, ReadInv, TypeOK
<1>o. ~done /\ inName =>
         \E i \in 1..Len(qs) : OpenAt(qs, i) /\ name = SubSeq(qs, i + 1, Len(qs))
  BY DEF WholeInv, ReadInv, Open
<1>n. ~done /\ ~inName => NoneOpen(qs) /\ ~Unpaired(qs, Len(qs))
  <2> SUFFICES ASSUME ~done, ~inName PROVE NoneOpen(qs) /\ ~Unpaired(qs, Len(qs))
    OBVIOUS
  <2>1. NoneOpen(qs)
    BY DEF WholeInv, ReadInv
  <2>2. ~OpenAt(qs, Len(qs))
    BY <2>1 DEF NoneOpen, OpenAt
  <2> QED
    BY <1>t, <2>1, <2>2, OpenLast
<1>1. CASE Empty
  <2>1. /\ qs' = <<>> /\ qs' = qs /\ names' = names /\ rebound' = rebound /\ err' = err
        /\ inName' = inName /\ name' = name /\ ~done /\ Len(qs) = 0
    BY <1>1 DEF Empty
  <2>2. \A i : ~OpenAt(qs, i)
    BY <2>1 DEF OpenAt
  <2>3. ~inName
    BY <1>o, <2>1, <2>2
  <2> QED
    BY <1>t, <1>r, <1>n, <2>1, <2>2, <2>3, GoesOn
<1>2. CASE UnexpectedColon
  <2>1. /\ Grows(qs, Colon, qs') /\ ~done /\ done' = TRUE
    BY <1>2, <1>t, ReadGrows DEF UnexpectedColon
  <2>2. inName /\ qs[Len(qs)] # Colon /\ err' = TRUE
    BY <1>2 DEF UnexpectedColon
  <2>3. PICK i \in 1..Len(qs) : OpenAt(qs, i)
    BY <1>o, <2>1, <2>2
  <2>4. i # Len(qs)
    BY <1>t, <2>2, <2>3, OpenFacts
  <2>5. ColonInName(qs')
    BY <1>r, <2>1, <2>3, <2>4, ColonGrows DEF Reading
  <2> QED
    BY <2>1, <2>2, <2>5 DEF WholeInv, ReadInv, NamesAreWhole, TextSurvives
<1>3. ASSUME NEW last \in BOOLEAN, EscapedColon(last) PROVE WholeInv'
  <2>1. /\ Grows(qs, Colon, qs') /\ qs' \in Seq(Bytes) /\ ~done
        /\ Len(qs') = Len(qs) + 1
    BY <1>3, <1>t, ReadGrows DEF EscapedColon
  <2>2. /\ inName /\ qs[Len(qs)] = Colon /\ rebound' = Append(rebound, Colon)
        /\ inName' = FALSE /\ names' = names /\ err' = err
    BY <1>3 DEF EscapedColon
  <2>3. OpenAt(qs, Len(qs))
    BY <1>t, <1>o, <2>1, <2>2, OpenFacts
  <2>4. Reading(qs', names', rebound')
    BY <1>t, <1>r, <2>1, <2>2, <2>3, ReadsPair
  <2>5. Unpaired(qs, Len(qs))
    BY <2>3 DEF OpenAt
  <2>6. \A j : ~OpenAt(qs', j)
    BY <1>t, <2>1, <2>5, NoneOpens, ByteFacts
  <2> QED
    BY <1>r, <2>1, <2>2, <2>4, <2>6, GoesOn DEF NoneOpen
<1>4. ASSUME NEW last \in BOOLEAN, OpenName(last) PROVE WholeInv'
  <2>1. /\ Grows(qs, Colon, qs') /\ qs' \in Seq(Bytes) /\ ~done
        /\ Len(qs') = Len(qs) + 1
    BY <1>4, <1>t, ReadGrows DEF OpenName
  <2>2. /\ ~inName /\ inName' = TRUE /\ name' = <<>>
        /\ names' = names /\ rebound' = rebound /\ err' = err
    BY <1>4 DEF OpenName
  <2>3. Reading(qs', names', rebound')
    BY <1>r, <1>n, <2>1, <2>2, ReadsOn
  <2>4. OpenAt(qs', Len(qs'))
    BY <1>t, <1>n, <2>1, <2>2, OpenGrows
  <2>5. \A j : OpenAt(qs', j) => j = Len(qs')
    BY <2>1, <2>4, OneOpen
  <2>6. Open(qs', name')
    <3>1. SubSeq(qs', Len(qs') + 1, Len(qs')) = <<>>
      BY <1>t, <2>1, SubSeqEmpty
    <3>2. Len(qs') \in 1..Len(qs')
      BY <1>t, <2>1
    <3> QED
      BY <2>2, <2>4, <3>1, <3>2 DEF Open
  <2> QED
    BY <1>r, <2>1, <2>2, <2>3, <2>5, <2>6, GoesOn
<1>5. ASSUME NEW last \in BOOLEAN, Assign(last) PROVE WholeInv'
  <2>1. /\ Grows(qs, Equals, qs') /\ qs' \in Seq(Bytes) /\ ~done
        /\ Len(qs') = Len(qs) + 1
    BY <1>5, <1>t, ReadGrows DEF Assign
  <2>2. /\ inName /\ name = <<>> /\ rebound' = rebound \o <<Colon, Equals>>
        /\ inName' = FALSE /\ names' = names /\ err' = err
    BY <1>5 DEF Assign
  <2>3. OpenAt(qs, Len(qs))
    BY <1>t, <1>o, <2>1, <2>2, NameIsEmpty
  <2>4. rebound' = Append(Append(rebound, Colon), Equals)
    BY <1>t, <2>2
  <2>5. Reading(qs', names', rebound')
    BY <1>t, <1>r, <2>1, <2>2, <2>3, <2>4, ReadsAssign
  <2>6. \A j : ~OpenAt(qs', j)
    BY <1>t, <2>1, NoneOpens, ByteFacts
  <2> QED
    BY <1>r, <2>1, <2>2, <2>5, <2>6, GoesOn DEF NoneOpen
<1>6. ASSUME NEW b \in Bytes, NameByte(b) PROVE WholeInv'
  <2>1. /\ Grows(qs, b, qs') /\ qs' \in Seq(Bytes) /\ ~done /\ done' = FALSE
        /\ Len(qs') = Len(qs) + 1
    BY <1>6, <1>t, ReadGrows DEF NameByte
  <2>2. /\ inName /\ b \in NameBytes /\ name' = Append(name, b) /\ inName' = inName
        /\ names' = names /\ rebound' = rebound /\ err' = err
    BY <1>6 DEF NameByte, NameBytes
  <2>3. PICK i \in 1..Len(qs) : OpenAt(qs, i) /\ name = SubSeq(qs, i + 1, Len(qs))
    BY <1>o, <2>1, <2>2
  <2>4. Reading(qs', names', rebound')
    BY <1>r, <2>1, <2>2, <2>3, ReadsOn DEF NoneOpen
  <2>5. Open(qs', name')
    <3>1. OpenAt(qs', i) /\ i \in 1..Len(qs')
      BY <1>t, <2>1, <2>2, <2>3, OpenGrows
    <3>2. name' = SubSeq(qs', i + 1, Len(qs) + 1)
      BY <2>1, <2>2, <2>3, SubSeqGrows, Zenon
    <3> QED
      BY <2>1, <3>1, <3>2 DEF Open
  <2> QED
    BY <1>r, <2>1, <2>2, <2>4, <2>5, GoesOn
<1>7. ASSUME NEW b \in Bytes, NEW last \in BOOLEAN, Text(b, last) PROVE WholeInv'
  <2>1. /\ Grows(qs, b, qs') /\ qs' \in Seq(Bytes) /\ ~done
        /\ Len(qs') = Len(qs) + 1
    BY <1>7, <1>t, ReadGrows DEF Text
  <2>2. /\ ~inName /\ b # Colon /\ rebound' = Append(rebound, b) /\ inName' = inName
        /\ names' = names /\ err' = err
    BY <1>7 DEF Text
  <2>3. Reading(qs', names', rebound')
    BY <1>t, <1>r, <1>n, <2>1, <2>2, ReadsText
  <2>4. \A j : ~OpenAt(qs', j)
    BY <1>t, <1>n, <2>1, <2>2, NoneOpens
  <2> QED
    BY <1>r, <2>1, <2>2, <2>3, <2>4, GoesOn DEF NoneOpen
<1>8. CASE UNCHANGED vars
  BY <1>8 DEF vars, WholeInv, ReadInv, NamesAreWhole, TextSurvives
<1> QED
  BY <1>1, <1>2, <1>3, <1>4, <1>5, <1>6, <1>7, <1>8, CloseNameWhole DEF Next

THEOREM WholeInvariance == Spec => []WholeInv
<1> QED
  BY WholeInit, WholeStep, TypeCorrect, PTL DEF Spec

(* compileNamedQuery finds every parameter of a query, with its whole      *)
(* name, and refuses a query exactly if a name runs into a colon.          *)
THEOREM NamesFoundWhole == Spec => []NamesAreWhole
<1>1. WholeInv => NamesAreWhole
  BY DEF WholeInv
<1> QED
  BY <1>1, WholeInvariance, PTL

(* The compiled query is the query with a bindvar for every parameter: no  *)
(* byte of the text is lost, doubled or moved.                             *)
THEOREM TextIsKept == Spec => []TextSurvives
<1>1. WholeInv => TextSurvives
  BY DEF WholeInv
<1> QED
  BY <1>1, WholeInvariance, PTL
=============================================================================
