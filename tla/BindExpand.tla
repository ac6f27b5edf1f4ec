----------------------------- MODULE BindExpand -----------------------------
(***************************************************************************)
(* Queries that grow with their arguments (internal/bind/bind.go): In      *)
(* writes a bindvar for every element of a slice argument, bindArray       *)
(* repeats the group of values of a compiled query for every element of    *)
(* the array and has Rebind number the bindvars.                           *)
(*                                                                         *)
(* A query is a sequence of tokens: Q is a '?', Other any run of text      *)
(* without '?' and parentheses.  An element <<k, e>> of newArgs is element *)
(* e of argument k, <<k, 0>> is an argument that is no slice; for          *)
(* bindArray <<k, e>> is the value of name e in element k.  The indexes    *)
(* start at 1, the code's at 0.                                            *)
(***************************************************************************)
EXTENDS Naturals, FiniteSets, SequencesExt

CONSTANTS
    Q, Open, Close, Other, Comma,     \* tokens
    Scalar,      \* In: an argument that is passed as it is
    Pointer,     \* In: a pointer to a slice
    Failing,     \* In: a driver.Valuer whose Value fails
    Whole,       \* bindArray: an element with all the names of the query
    Lacking,     \* bindArray: an element that lacks the first of them
    NilPointer,  \* bindArray: an element that is a nil pointer
    MaxLen,      \* bound: tokens of a query
    MaxArgs,     \* bound: arguments of In, elements of the array
    MaxSlice     \* bound: elements of a slice passed to In

ASSUME BoundsAssumption == {MaxLen, MaxArgs, MaxSlice} \subseteq Nat
ASSUME TokenAssumption ==          \* '?' and $1 are told from text
    /\ Q \notin {Open, Close, Other, Comma}
    /\ \A t \in {Q, Open, Close, Other, Comma} : t \notin [number : Nat]
ASSUME ArgumentAssumption ==
    /\ Scalar \notin {Pointer, Failing} /\ Pointer # Failing
    /\ \A a \in {Scalar, Pointer, Failing} : a \notin Nat
    /\ Whole # Lacking /\ NilPointer \notin {Whole, Lacking}

Lengths == 0..MaxSlice
InArgs == {Scalar, Pointer, Failing} \cup Lengths
Elements == {Whole, Lacking, NilPointer}

VARIABLES
    op,        \* "in": In(query, args), "array": bindArray of args
    query,     \* as it was passed; for bindArray as it was compiled, if it was
    args,
    pointed,   \* bindArray: it is given a pointer to the array
    compiles,  \* bindArray: the named query has no error in it
    numbers,   \* the dialect has numbered bindvars: $1 or @p1
    pc,
    rest,      \* what is left of the query to read
    offset,    \* In: how much of rest has been read, but not written
    arg,       \* how many arguments, elements or bindvars have been read
    out,       \* the query written so far
    newArgs,   \* the arguments to pass to the driver
    err

vars == <<op, query, args, pointed, compiles, numbers, pc, rest, offset, arg, out, newArgs, err>>
input == <<op, query, args, pointed, compiles, numbers>>

Init ==
    /\ \/ /\ op = "in" /\ pc = "measure"
          /\ query \in BoundedSeq({Q, Other}, MaxLen)
          /\ args \in BoundedSeq(InArgs, MaxArgs)
          /\ pointed = FALSE /\ compiles = TRUE /\ numbers = FALSE
       \/ /\ op = "array" /\ pc = "rows"
          /\ query \in BoundedSeq({Q, Open, Close, Other}, MaxLen)
          /\ args \in BoundedSeq(Elements, MaxArgs)
          /\ pointed \in BOOLEAN /\ compiles \in BOOLEAN /\ numbers \in BOOLEAN
          /\ pointed \/ ~compiles => query = <<>>
    /\ rest = query
    /\ offset = 0
    /\ arg = 0
    /\ out = <<>>
    /\ newArgs = <<>>
    /\ err = "none"

Fail(e) ==
    /\ err' = e
    /\ out' = <<>> /\ newArgs' = <<>>
    /\ pc' = "done"
    /\ UNCHANGED <<input, rest, offset, arg>>

(* The next '?' of rest after n tokens; 0 if there is none. *)
IndexQ(n) ==
    IF \E i \in n + 1..Len(rest) : rest[i] = Q
    THEN CHOOSE i \in n + 1..Len(rest) : /\ rest[i] = Q
                                         /\ \A j \in n + 1..i - 1 : rest[j] # Q
    ELSE 0

(* Where a sequence has one of some tokens, and how often. *)
Where(s, T) == {i \in DOMAIN s : s[i] \in T}
Count(s, T) == Cardinality(Where(s, T))
CountQ(s) == Count(s, {Q})
-----------------------------------------------------------------------------
(* In.  The first loop takes the length of every argument. *)
Measure ==
    /\ pc = "measure" /\ arg < Len(args)
    /\ args[arg + 1] = Scalar \/ args[arg + 1] \in 1..MaxSlice
    /\ arg' = arg + 1
    /\ UNCHANGED <<input, pc, rest, offset, out, newArgs, err>>

ValuerFails ==
    /\ pc = "measure" /\ arg < Len(args)
    /\ args[arg + 1] = Failing
    /\ Fail("valuer")

(* asSliceForIn takes the pointer for a slice, its Len panics. *)
PointerPanics ==
    /\ pc = "measure" /\ arg < Len(args)
    /\ args[arg + 1] = Pointer
    /\ Fail("panic")

EmptySliceIsScalar ==
    /\ pc = "measure" /\ arg < Len(args)
    /\ args[arg + 1] = 0
    /\ arg' = arg + 1
    /\ UNCHANGED <<input, pc, rest, offset, out, newArgs, err>>
EmptySlice ==
    /\ pc = "measure" /\ arg < Len(args)
    /\ args[arg + 1] = 0
    /\ Fail("empty")

AnySlices == \E k \in DOMAIN args : args[k] \in Lengths

(* Without a slice the query and the arguments are not looked at. *)
NothingToExpand ==
    /\ pc = "measure" /\ arg = Len(args)
    /\ ~AnySlices
    /\ out' = query
    /\ newArgs' = [k \in DOMAIN args |-> <<k, 0>>]
    /\ pc' = "done"
    /\ UNCHANGED <<input, rest, offset, arg, err>>

StartExpanding ==
    /\ pc = "measure" /\ arg = Len(args)
    /\ AnySlices
    /\ arg' = 0
    /\ pc' = "expand"
    /\ UNCHANGED <<input, rest, offset, out, newArgs, err>>

(* The second loop: one bindvar of the query after the other. *)
TooManyBindvars ==
    /\ pc = "expand" /\ IndexQ(offset) # 0
    /\ arg >= Len(args)
    /\ Fail("too many bindvars")

KeepScalar ==
    /\ pc = "expand" /\ IndexQ(offset) # 0
    /\ arg < Len(args) /\ args[arg + 1] = Scalar
    /\ arg' = arg + 1
    /\ offset' = IndexQ(offset)
    /\ newArgs' = Append(newArgs, <<arg + 1, 0>>)
    /\ UNCHANGED <<input, pc, rest, out, err>>

ExpandTo(newOffset) ==
    LET i == IndexQ(offset)
        n == args[arg + 1]
    IN
    /\ pc = "expand" /\ i # 0
    /\ arg < Len(args) /\ n \in 1..MaxSlice
    /\ arg' = arg + 1
    /\ out' = out \o SubSeq(rest, 1, i) \o FlattenSeq([e \in 1..n - 1 |-> <<Comma, Q>>])
    /\ newArgs' = newArgs \o [e \in 1..n |-> <<arg + 1, e>>]
    /\ rest' = SubSeq(rest, i + 1, Len(rest))
    /\ offset' = newOffset
    /\ UNCHANGED <<input, pc, err>>

ExpandSliceKeepsOffset == ExpandTo(offset)
ExpandSlice == ExpandTo(0)

TooFewBindvars ==
    /\ pc = "expand" /\ IndexQ(offset) = 0
    /\ arg < Len(args)
    /\ Fail("too few bindvars")

ReturnIn ==
    /\ pc = "expand" /\ IndexQ(offset) = 0
    /\ arg >= Len(args)
    /\ out' = out \o rest
    /\ pc' = "done"
    /\ UNCHANGED <<input, rest, offset, arg, newArgs, err>>
-----------------------------------------------------------------------------
(* bindArray.  bindNamedMapper looks through a pointer to find an array or *)
(* a slice, bindArray does not.                                            *)
NotAnArray ==
    /\ pc = "rows" /\ pointed
    /\ Fail("not an array")

EmptyArray ==
    /\ pc = "rows" /\ ~pointed
    /\ args = <<>>
    /\ Fail("empty")

(* compileNamedQuery: an error, or a name per '?'. *)
CompileFails ==
    /\ pc = "rows" /\ ~pointed /\ args # <<>>
    /\ ~compiles
    /\ Fail("syntax")

NoNames ==
    /\ pc = "rows" /\ ~pointed /\ args # <<>> /\ compiles
    /\ CountQ(query) = 0
    /\ Fail("no names")

(* The loop over the elements: what was refused above does not reach it. *)
InLoop == pc = "rows" /\ ~pointed /\ compiles /\ CountQ(query) > 0
ReadsOn == InLoop /\ arg < Len(args)

Row(k) == [e \in 1..CountQ(query) |-> <<k, e>>]

ReadElementAlone ==
    /\ ReadsOn /\ args[arg + 1] = Whole
    /\ newArgs' = Row(arg + 1)
    /\ arg' = arg + 1
    /\ UNCHANGED <<input, pc, rest, offset, out, err>>
ReadElement ==
    /\ ReadsOn /\ args[arg + 1] = Whole
    /\ newArgs' = newArgs \o Row(arg + 1)
    /\ arg' = arg + 1
    /\ UNCHANGED <<input, pc, rest, offset, out, err>>

NameMissing ==
    /\ ReadsOn /\ args[arg + 1] = Lacking
    /\ Fail("missing name")

(* What a nil pointer points to has no Type. *)
NilPanics ==
    /\ ReadsOn /\ args[arg + 1] = NilPointer
    /\ Fail("panic")

(* The parentheses of the group: the last '(' before the first bindvar and *)
(* the first ')' after the last one; 0 if there is none.                   *)
Qs == Where(query, {Q})
FirstQ == CHOOSE i \in Qs : \A j \in Qs : i <= j
LastQ == CHOOSE i \in Qs : \A j \in Qs : i >= j

FirstOpenP == SelectInSeq(query, LAMBDA t : t = Open)
OpenP == SelectLastInSeq(SubSeq(query, 1, FirstQ), LAMBDA t : t = Open)
CloseP ==
    LET c == SelectInSeq(SubSeq(query, LastQ, Len(query)), LAMBDA t : t = Close)
    IN IF c = 0 THEN 0 ELSE LastQ + c - 1

AllRead == InLoop /\ arg > 0 /\ arg = Len(args)

NoParentheses ==
    /\ AllRead
    /\ OpenP = 0 \/ CloseP = 0
    /\ Fail("no parentheses")

RepeatGroup ==
    LET group == SubSeq(query, OpenP, CloseP) IN
    /\ AllRead /\ OpenP # 0 /\ CloseP # 0
    /\ rest' = SubSeq(query, 1, OpenP - 1)
               \o FlattenSeq([k \in DOMAIN args |-> IF k = 1 THEN group ELSE <<Comma>> \o group])
               \o SubSeq(query, CloseP + 1, Len(query))
    /\ arg' = 0
    /\ pc' = "rebind"
    /\ UNCHANGED <<input, offset, out, newArgs, err>>

(* Rebind. *)
Numbered(k) == [number |-> k]

RebindAt(number) ==
    LET i == IndexQ(0) IN
    /\ pc = "rebind" /\ numbers /\ i # 0
    /\ out' = out \o SubSeq(rest, 1, i - 1) \o <<Numbered(number)>>
    /\ rest' = SubSeq(rest, i + 1, Len(rest))
    /\ arg' = arg + 1
    /\ UNCHANGED <<input, pc, offset, newArgs, err>>

RebindNextFromZero == RebindAt(arg)
RebindNext == RebindAt(arg + 1)

RebindEnd ==
    /\ pc = "rebind" /\ (~numbers \/ IndexQ(0) = 0)
    /\ out' = out \o rest
    /\ pc' = "done"
    /\ UNCHANGED <<input, rest, offset, arg, newArgs, err>>

Next ==
    \/ Measure \/ ValuerFails \/ PointerPanics \/ EmptySlice
    \/ NothingToExpand \/ StartExpanding
    \/ TooManyBindvars \/ KeepScalar \/ ExpandSlice \/ TooFewBindvars \/ ReturnIn
    \/ NotAnArray \/ EmptyArray \/ CompileFails \/ NoNames
    \/ ReadElement \/ NameMissing \/ NilPanics
    \/ NoParentheses \/ RepeatGroup
    \/ RebindNext \/ RebindEnd

Spec == Init /\ [][Next]_vars
-----------------------------------------------------------------------------
Tokens == {Q, Open, Close, Other, Comma}
Bindvars == {Q} \cup [number : Nat \ {0}]
Errors == {"none", "valuer", "panic", "empty", "too many bindvars", "too few bindvars",
           "not an array", "syntax", "no names", "missing name", "no parentheses"}

TypeOK ==
    /\ op \in {"in", "array"}
    /\ query \in Seq(Tokens)
    /\ args \in Seq(InArgs) \cup Seq(Elements)
    /\ pointed \in BOOLEAN /\ compiles \in BOOLEAN /\ numbers \in BOOLEAN
    /\ pc \in {"measure", "expand", "rows", "rebind", "done"}
    /\ rest \in Seq(Tokens)
    /\ offset \in 0..Len(rest)
    /\ arg \in Nat
    /\ out \in Seq(Tokens \cup Bindvars)
    /\ newArgs \in Seq((1..Len(args)) \X Nat)
    /\ err \in Errors

Returned(o) == op = o /\ pc = "done" /\ err = "none"

(* The result of In is the query with the k-th '?' written as often as the *)
(* k-th argument has elements, and the elements in the order of the        *)
(* bindvars: scalars between the slices neither lost nor moved.            *)
Nth(s, i) == CountQ(SubSeq(s, 1, i))
Width(xs, k) == IF k \in DOMAIN xs /\ xs[k] \in Lengths THEN xs[k] ELSE 1

Marks(n) == [j \in 1..2 * n - 1 |-> IF j % 2 = 1 THEN Q ELSE Comma]
Expanded(s, xs) ==
    [i \in DOMAIN s |-> IF s[i] # Q THEN <<s[i]>> ELSE Marks(Width(xs, Nth(s, i)))]
Passed(xs) ==
    [k \in DOMAIN xs |-> IF xs[k] = Scalar THEN <<<<k, 0>>>> ELSE [e \in 1..xs[k] |-> <<k, e>>]]

InExpandsInPlace ==
    Returned("in") /\ AnySlices =>
       /\ out = FlattenSeq(Expanded(query, args))
       /\ newArgs = FlattenSeq(Passed(args))

(* The bindvars of an expanded query are as many as its arguments and      *)
(* numbered in their order, whatever the lengths.                          *)
Bound == Where(out, Bindvars)

BindvarsMatchArgs ==
    (Returned("in") /\ AnySlices) \/ Returned("array") =>
       /\ Cardinality(Bound) = Len(newArgs)
       /\ \A i \in Bound :
             out[i] = IF numbers THEN Numbered(Cardinality({j \in Bound : j <= i})) ELSE Q

(* bindArray repeats one group of values per element, and only it: not the *)
(* column list before it, not a clause after it.  The group is the only    *)
(* pair of parentheses around all the bindvars, with none inside: nested   *)
(* parentheses cut it short.                                               *)
IsValueGroup(s, a, b) ==
    /\ a < b /\ s[a] = Open /\ s[b] = Close
    /\ Where(s, {Q}) \subseteq a..b
    /\ \A i \in a + 1..b - 1 : s[i] \notin {Open, Close}

Unnumbered(r) == [i \in DOMAIN r |-> IF r[i] \in Bindvars THEN Q ELSE r[i]]

(* r is s with the group from a to b, n times. *)
HasGroups(r, s, a, b, n) ==
    LET width == b - a + 2      \* the group and a comma
        more == (n - 1) * width
    IN /\ Len(r) = Len(s) + more
       /\ \A i \in 1..a - 1 : r[i] = s[i]
       /\ \A k \in 0..n - 1, j \in 0..b - a : r[a + k * width + j] = s[a + j]
       /\ \A k \in 1..n - 1 : r[a + k * width - 1] = Comma
       /\ \A i \in b + 1..Len(s) : r[i + more] = s[i]

GroupPerElement ==
    Returned("array") =>
       \A a, b \in DOMAIN query :
          IsValueGroup(query, a, b) => HasGroups(Unnumbered(out), query, a, b, Len(args))

(* A call is refused for the first thing that is wrong with it, in the     *)
(* order in which the code looks, and for nothing else; without a slice In *)
(* refuses nothing.                                                        *)
FirstBad == SelectInSeq(args, LAMBDA a : a \in {Pointer, Failing, 0})

InVerdict ==
    IF FirstBad # 0
    THEN CASE args[FirstBad] = Failing -> "valuer"
           [] args[FirstBad] = Pointer -> "panic"
           [] OTHER -> "empty"
    ELSE IF ~AnySlices \/ CountQ(query) = Len(args) THEN "none"
    ELSE IF CountQ(query) > Len(args) THEN "too many bindvars" ELSE "too few bindvars"

Enclosed ==
    /\ \E i \in DOMAIN query : query[i] = Open /\ \A q \in Qs : i < q
    /\ \E i \in DOMAIN query : query[i] = Close /\ \A q \in Qs : i > q

FirstBadElement == SelectInSeq(args, LAMBDA a : a # Whole)

ArrayVerdict ==
    IF pointed THEN "not an array"
    ELSE IF args = <<>> THEN "empty"
    ELSE IF ~compiles THEN "syntax"
    ELSE IF Qs = {} THEN "no names"
    ELSE IF FirstBadElement # 0
         THEN IF args[FirstBadElement] = Lacking THEN "missing name" ELSE "panic"
    ELSE IF Enclosed THEN "none" ELSE "no parentheses"

RefusedForCause ==
    pc = "done" => err = IF op = "in" THEN InVerdict ELSE ArrayVerdict
=============================================================================
