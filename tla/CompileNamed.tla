---------------------------- MODULE CompileNamed ----------------------------
(***************************************************************************)
(* compileNamedQuery (internal/bind/bind.go), one byte at a time: a query  *)
(* with :name parameters becomes the query the driver takes, with bindvars *)
(* of its dialect, and the list of names to bind.                          *)
(*                                                                         *)
(* The bytes of a query arrive one after the other, any byte may be the    *)
(* last; a step is one iteration of the loop, an action one branch of it.  *)
(* The bytes a branch cannot tell apart are one: Alnum is a letter or a    *)
(* digit, Mark is '_' or '.', Other is any byte the loop does not name.    *)
(***************************************************************************)
EXTENDS Naturals, Sequences, FiniteSets

CONSTANTS
    Alnum, Mark, Colon, Equals, Other,
    MaxLen          \* bound: bytes of a query

Bytes == {Alnum, Mark, Colon, Equals, Other}
BindTypes == {"QUESTION", "DOLLAR", "NAMED", "AT"}     \* UNKNOWN is QUESTION

ASSUME BytesAssumption ==
    /\ Alnum \notin {Mark, Colon, Equals, Other}
    /\ Mark \notin {Colon, Equals, Other}
    /\ Colon \notin {Equals, Other}
    /\ Equals # Other
ASSUME BindvarAssumption ==        \* a bindvar is no byte
    \A b \in Bytes : b \notin [number : Nat, name : Seq({Alnum, Mark})]
ASSUME MaxLenAssumption == MaxLen \in Nat

VARIABLES
    bindType,
    qs,          \* the bytes read
    done,        \* the last byte has been read, or an error returned
    inName,
    name,        \* the name being read
    names,       \* the names read
    rebound,     \* the result: bytes and bindvars
    currentVar,  \* the number of the next bindvar
    err          \* "unexpected `:` while reading named param"

vars == <<bindType, qs, done, inName, name, names, rebound, currentVar, err>>

Init ==
    /\ bindType \in BindTypes
    /\ qs = <<>>
    /\ done = FALSE
    /\ inName = FALSE
    /\ name = <<>>
    /\ names = <<>>
    /\ rebound = <<>>
    /\ currentVar = 1
    /\ err = FALSE

(* The k-th bindvar of the result, for the name n: "?", "$k", "@pk" or     *)
(* ":n"; what the dialect does not write is 0 or <<>>.                     *)
Numbered == {"DOLLAR", "AT"}
BindvarFromZero(k, n) ==
    [number |-> IF bindType \in Numbered THEN k - 1 ELSE 0,
     name   |-> IF bindType = "NAMED" THEN n ELSE <<>>]
Bindvar(k, n) ==
    [number |-> IF bindType \in Numbered THEN k ELSE 0,
     name   |-> IF bindType = "NAMED" THEN n ELSE <<>>]

Read(b, last) ==
    /\ ~done /\ Len(qs) < MaxLen
    /\ qs' = Append(qs, b)
    /\ done' = last
    /\ UNCHANGED bindType

(* "::" is an escaped colon. *)
EscapedColon(last) ==
    /\ Read(Colon, last)
    /\ inName /\ qs[Len(qs)] = Colon
    /\ rebound' = Append(rebound, Colon)
    /\ inName' = FALSE
    /\ UNCHANGED <<name, names, currentVar, err>>

(* A colon inside a name. *)
UnexpectedColon ==
    /\ Read(Colon, TRUE)
    /\ inName /\ qs[Len(qs)] # Colon
    /\ err' = TRUE
    /\ UNCHANGED <<inName, name, names, rebound, currentVar>>

OpenName(last) ==
    /\ Read(Colon, last)
    /\ ~inName
    /\ inName' = TRUE
    /\ name' = <<>>
    /\ UNCHANGED <<names, rebound, currentVar, err>>

(* ":=" is an assignment and no parameter. *)
Assign(last) ==
    /\ Read(Equals, last)
    /\ inName /\ name = <<>>
    /\ rebound' = rebound \o <<Colon, Equals>>
    /\ inName' = FALSE
    /\ UNCHANGED <<name, names, currentVar, err>>

NameByte(b) ==
    /\ Read(b, FALSE)
    /\ inName /\ b \in {Alnum, Mark}
    /\ name' = Append(name, b)
    /\ UNCHANGED <<inName, names, rebound, currentVar, err>>

(* The byte after a name, or the last byte: a letter or digit that ends    *)
(* the query belongs to the name, any other byte to the text.              *)
CloseAt(b, last, whole, rest) ==
    /\ Read(b, last)
    /\ inName /\ b # Colon
    /\ ~(b = Equals /\ name = <<>>)
    /\ b \in {Alnum, Mark} => last
    /\ inName' = FALSE
    /\ name' = whole
    /\ names' = Append(names, whole)
    /\ rebound' = Append(rebound, Bindvar(currentVar, whole)) \o rest
    /\ currentVar' = IF bindType \in Numbered THEN currentVar + 1 ELSE currentVar
    /\ UNCHANGED err

Rest(b) == IF b = Alnum THEN <<>> ELSE <<b>>

CloseNameDropsLast(b, last) == CloseAt(b, last, name, Rest(b))
CloseNameDropsRest(b, last) ==
    CloseAt(b, last, IF b = Alnum THEN Append(name, b) ELSE name, IF last THEN <<>> ELSE <<b>>)
CloseNameTakesRest(b, last) == CloseAt(b, last, Append(name, b), Rest(b))
CloseName(b, last) ==
    CloseAt(b, last, IF b = Alnum THEN Append(name, b) ELSE name, Rest(b))

Text(b, last) ==
    /\ Read(b, last)
    /\ ~inName /\ b # Colon
    /\ rebound' = Append(rebound, b)
    /\ UNCHANGED <<inName, name, names, currentVar, err>>

(* The empty query: the loop has nothing to do. *)
Empty ==
    /\ ~done /\ qs = <<>>
    /\ done' = TRUE
    /\ UNCHANGED <<bindType, qs, inName, name, names, rebound, currentVar, err>>

Next ==
    \/ Empty \/ UnexpectedColon
    \/ \E last \in BOOLEAN : EscapedColon(last) \/ OpenName(last) \/ Assign(last)
    \/ \E b \in Bytes : NameByte(b)
    \/ \E b \in Bytes, last \in BOOLEAN : CloseName(b, last) \/ Text(b, last)

Spec == Init /\ [][Next]_vars
-----------------------------------------------------------------------------
Names == Seq({Alnum, Mark})
Bindvars == [number : Nat, name : Names]

TypeOK ==
    /\ bindType \in BindTypes
    /\ qs \in Seq(Bytes)
    /\ done \in BOOLEAN
    /\ inName \in BOOLEAN
    /\ name \in Names
    /\ names \in Seq(Names)
    /\ rebound \in Seq(Bytes \cup Bindvars)
    /\ currentVar \in Nat
    /\ err \in BOOLEAN

(* The bindvars of the result are those of its names, in order: as many,   *)
(* numbered 1, 2, ... or named like them ("at" is where they stand).  The  *)
(* arguments are bound by position in names, so one off and every argument *)
(* goes to the wrong parameter.                                            *)
IsBindvar(x) == x \notin Bytes

BindvarsMatchNames ==
    \E at \in [DOMAIN names -> DOMAIN rebound] :
       /\ \A k, l \in DOMAIN names : k < l => at[k] < at[l]
       /\ \A i \in DOMAIN rebound :
             IsBindvar(rebound[i]) <=> \E k \in DOMAIN names : at[k] = i
       /\ \A k \in DOMAIN names :
             /\ bindType \in Numbered => rebound[at[k]].number = k
             /\ bindType = "NAMED" => rebound[at[k]].name = names[k]

(* The parameters of a query s, by position: a parameter starts at a colon *)
(* that is not the second of a pair, nor before one, nor of ":=", and its  *)
(* name is all the name bytes that follow; a '_' or '.' that ends the      *)
(* query is not taken for a part of it.                                    *)
NameBytes == {Alnum, Mark}
ColonRun(s, i) == Cardinality({j \in 1..i : \A k \in j..i : s[k] = Colon})
Unpaired(s, i) == ColonRun(s, i) % 2 = 1

Starts(s) == {i \in 1..Len(s) - 1 : Unpaired(s, i) /\ s[i + 1] \notin {Colon, Equals}}

AllName(s, i, j) == \A k \in i + 1..j : s[k] \in NameBytes
EndsInMark(s, j) == j = Len(s) /\ s[j] = Mark
NameAt(s, i, n) ==
    \E j \in i..Len(s) :
       /\ AllName(s, i, j)
       /\ j < Len(s) => s[j + 1] \notin NameBytes
       /\ n = SubSeq(s, i + 1, IF EndsInMark(s, j) THEN j - 1 ELSE j)

ColonInName(s) ==
    \E i \in Starts(s), j \in 1..Len(s) - 1 : i < j /\ AllName(s, i, j) /\ s[j + 1] = Colon

(* The place of p in a set of positions. *)
Rank(S, p) == Cardinality({q \in S : q <= p})

(* Every parameter is found, with its whole name, wherever it stands: at   *)
(* the end of the query, next to "::" or ":=", after another.  A query is  *)
(* refused exactly if a name runs into a colon.                            *)
NamesFound(s, ns) ==
    /\ Len(ns) = Cardinality(Starts(s))
    /\ \A i \in Starts(s) : NameAt(s, i, ns[Rank(Starts(s), i)])
NamesAreWhole ==
    done => /\ err <=> ColonInName(qs)
            /\ ~err => NamesFound(qs, names)

(* The text around the parameters survives, in order and place: the result *)
(* is the query with a bindvar where a parameter starts, no byte of its    *)
(* name, and "::" read as ":"; only a colon that ends the query is lost.   *)
OfName(s, p) ==
    ~EndsInMark(s, p) /\ \E i \in Starts(s) : i < p /\ AllName(s, i, p)
Kept(s) ==
    {p \in 1..Len(s) : IF s[p] = Colon THEN Unpaired(s, p) /\ p # Len(s) ELSE ~OfName(s, p)}
TextKept(s, r) ==
    /\ Len(r) = Cardinality(Kept(s))
    /\ \A p \in Kept(s) : LET x == r[Rank(Kept(s), p)] IN
          IF p \in Starts(s) THEN IsBindvar(x) ELSE x = s[p]
TextSurvives == done /\ ~err => TextKept(qs, rebound)
=============================================================================
