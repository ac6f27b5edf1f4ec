------------------------- MODULE BindExpand_proofs -------------------------
(***************************************************************************)
(* Proofs about BindExpand, for queries, argument lists and slices of any  *)
(* length: the types, what In and bindArray write and pass on, and what    *)
(* they refuse.                                                            *)
(***************************************************************************)
EXTENDS BindExpand, FiniteSetTheorems, SequenceTheorems, TLAPS

(* What the first i tokens of a query s become, and what is passed for the *)
(* first k arguments.                                                      *)
Grown(s, xs, i) == FlattenSeq(SubSeq(Expanded(s, xs), 1, i))
PassedUpTo(xs, k) == FlattenSeq(SubSeq(Passed(xs), 1, k))

(* How much of the query has been written, and read. *)
Written == Len(query) - Len(rest)
ReadUpTo == Written + offset

(* o is what has been written of the first w tokens of s, r are read. *)
Reading(s, xs, w, r, o) ==
    /\ w \in Nat /\ r \in w..Len(s) /\ o \in Seq(Tokens)
    /\ o \o SubSeq(s, w + 1, r) = Grown(s, xs, r)

Sound(xs, n) == \A k \in 1..n : xs[k] \notin {Pointer, Failing, 0}

OpInv ==
    /\ op = "in" => /\ args \in Seq(InArgs) /\ ~numbers
                    /\ pc \in {"measure", "expand", "done"}
    /\ op = "array" => args \in Seq(Elements) /\ pc \in {"rows", "rebind", "done"}
    /\ pc # "done" => err = "none"

MeasureInv ==
    pc = "measure" =>
       /\ rest = query /\ offset = 0 /\ out = <<>> /\ newArgs = <<>>
       /\ arg <= Len(args) /\ Sound(args, arg)

ExpandInv ==
    pc = "expand" =>
       /\ AnySlices /\ Sound(args, Len(args))
       /\ rest = SubSeq(query, Written + 1, Len(query))
       /\ Reading(query, args, Written, ReadUpTo, out)
       /\ arg <= Len(args) /\ arg = Nth(query, ReadUpTo)
       /\ newArgs = PassedUpTo(args, arg)
       /\ CountQ(Grown(query, args, ReadUpTo)) = Len(newArgs)

RowsInv ==
    pc = "rows" =>
       /\ rest = query /\ offset = 0 /\ out = <<>>
       /\ arg <= Len(args) /\ \A k \in 1..arg : args[k] = Whole
       /\ Len(newArgs) = arg * CountQ(query)

(* The bindvars in r are numbered from 1 in their order. *)
IsNumbered(r) ==
    LET B == Where(r, Bindvars) IN
    \A i \in B : r[i] = Numbered(Cardinality({j \in B : j <= i}))

RebindInv ==
    pc = "rebind" =>
       /\ offset = 0 /\ ArrayVerdict = "none"
       /\ \A a, b \in DOMAIN query :
             IsValueGroup(query, a, b) =>
                HasGroups(Unnumbered(out) \o rest, query, a, b, Len(args))
       /\ Count(out, Bindvars) + CountQ(rest) = Len(newArgs)
       /\ IF numbers THEN arg = Count(out, Bindvars) /\ IsNumbered(out) ELSE out = <<>>

Inv ==
    /\ TypeOK /\ OpInv /\ MeasureInv /\ ExpandInv /\ RowsInv /\ RebindInv
    /\ InExpandsInPlace /\ BindvarsMatchArgs /\ GroupPerElement /\ RefusedForCause
-----------------------------------------------------------------------------
(* Induction over the natural numbers, for sets. *)
LEMMA Least ==
    ASSUME NEW T \in SUBSET Nat, NEW n \in T
    PROVE  \E m \in T : \A k \in T : m <= k
<1> DEFINE R == {ss \in Nat \X Nat : ss[1] < ss[2]}
<1>1. IsWellFoundedOn(R, Nat)
  BY NatLessThanWellFounded DEF OpToRel
<1>2. \E x \in T : \A y \in T : <<y, x>> \notin R
  <2> HIDE DEF R
  <2> QED
    BY <1>1, WFMin
<1>3. PICK m \in T : \A k \in T : <<k, m>> \notin R
  BY <1>2
<1>4. ASSUME NEW k \in T, k < m
      PROVE  FALSE
  <2>1. <<k, m>> \in R
    BY <1>4
  <2> QED
    BY <1>3, <2>1
<1>5. \A k \in T : m <= k
  BY <1>4
<1> QED
  BY <1>5

LEMMA Induction ==
    ASSUME NEW T, 0 \in T, \A n \in Nat : n \in T => n + 1 \in T
    PROVE  \A n \in Nat : n \in T
<1> SUFFICES ASSUME NEW n \in Nat, n \notin T
             PROVE  FALSE
  OBVIOUS
<1>1. PICK m \in Nat \ T : \A k \in Nat \ T : m <= k
  BY Least
<1>2. m # 0 /\ m - 1 \in Nat /\ m - 1 \in T
  BY <1>1
<1> QED
  BY <1>1, <1>2

LEMMA Greatest ==
    ASSUME NEW n \in Nat, NEW T \in SUBSET (1..n), T # {}
    PROVE  \E m \in T : \A k \in T : m >= k
<1> DEFINE U == {n - t : t \in T}
<1>1. U \in SUBSET Nat
  OBVIOUS
<1>e. U # {}
  OBVIOUS
<1>2. PICK u \in U : \A v \in U : u <= v
  BY <1>1, <1>e, Least
<1>3. PICK m \in T : u = n - m
  BY <1>2
<1>4. ASSUME NEW k \in T
      PROVE  m >= k
  BY <1>2, <1>3, n - k \in U
<1> QED
  BY <1>4

(* The first and the last place where a sequence has a token. *)
LEMMA FirstPlace ==
    ASSUME NEW n \in Nat, NEW T \in SUBSET (1..n), T # {}
    PROVE  Min(T) \in T /\ \A k \in T : Min(T) <= k
<1>1. T \in SUBSET Nat
  OBVIOUS
<1>2. PICK m \in T : \A k \in T : m <= k
  BY <1>1, Least
<1> QED
  BY <1>2 DEF Min

LEMMA LastPlace ==
    ASSUME NEW n \in Nat, NEW T \in SUBSET (1..n), T # {}
    PROVE  Max(T) \in T /\ \A k \in T : Max(T) >= k
<1>1. \E m \in T : \A k \in T : m >= k
  BY Greatest
<1> QED
  BY <1>1 DEF Max
-----------------------------------------------------------------------------
(* Counting tokens. *)
LEMMA CountType ==
    ASSUME NEW S, NEW s \in Seq(S), NEW T
    PROVE  /\ IsFiniteSet(Where(s, T)) /\ Where(s, T) \subseteq 1..Len(s)
           /\ Count(s, T) \in Nat
           /\ Count(s, T) = 0 <=> \A i \in DOMAIN s : s[i] \notin T
<1>1. Where(s, T) \subseteq 1..Len(s)
  BY DEF Where
<1>2. IsFiniteSet(Where(s, T))
  BY <1>1, FS_Interval, FS_Subset
<1>3. Count(s, T) \in Nat /\ (Count(s, T) = 0 <=> Where(s, T) = {})
  BY <1>2, FS_CardinalityType, FS_EmptySet DEF Count
<1> QED
  BY <1>1, <1>2, <1>3 DEF Where

LEMMA CountConcat ==
    ASSUME NEW S, NEW s \in Seq(S), NEW t \in Seq(S), NEW T
    PROVE  Count(s \o t, T) = Count(s, T) + Count(t, T)
<1> DEFINE A == Where(s, T)
           B == Where(t, T)
           C == {Len(s) + j : j \in B}
<1>1. IsFiniteSet(A) /\ A \subseteq 1..Len(s) /\ IsFiniteSet(B) /\ B \subseteq 1..Len(t)
  BY CountType
<1>2. Cardinality(A) \in Nat /\ Cardinality(B) \in Nat
  BY <1>1, FS_CardinalityType
<1>3. IsFiniteSet(C) /\ Cardinality(C) = Cardinality(B)
  <2> DEFINE f == [j \in B |-> Len(s) + j]
  <2>1. f \in Bijection(B, C)
    BY <1>1 DEF Bijection, Injection, Surjection, IsInjective
  <2>2. ExistsBijection(B, C)
    BY <2>1 DEF ExistsBijection
  <2> QED
    BY <1>1, <2>2, FS_Bijection
<1>4. Where(s \o t, T) = A \cup C
  <2>1. \A i : i \in Where(s \o t, T) <=> i \in A \/ i \in C
    <3> TAKE i
    <3>1. DOMAIN (s \o t) = 1..Len(s) + Len(t)
      OBVIOUS
    <3>2. CASE i \in 1..Len(s)
      BY <3>1, <3>2, <1>1 DEF Where
    <3>3. CASE i \in Len(s) + 1..Len(s) + Len(t)
      <4>1. (s \o t)[i] = t[i - Len(s)] /\ i - Len(s) \in DOMAIN t
        BY <3>3
      <4>2. i \in C <=> i - Len(s) \in B
        BY <3>3, <1>1
      <4> QED
        BY <3>1, <3>3, <4>1, <4>2, <1>1 DEF Where
    <3>4. CASE i \notin 1..Len(s) + Len(t)
      BY <3>1, <3>4, <1>1 DEF Where
    <3> QED
      BY <3>2, <3>3, <3>4
  <2> QED
    BY <2>1
<1>5. A \cap C = {}
  BY <1>1
<1>6. Cardinality(A \cup C) = Cardinality(A) + Cardinality(C) - Cardinality(A \cap C)
  BY <1>1, <1>3, FS_Union
<1>7. Cardinality(A \cap C) = 0
  BY <1>5, FS_EmptySet
<1> HIDE DEF A, B, C
<1>8. Cardinality(Where(s \o t, T)) = Cardinality(A) + Cardinality(B)
  BY <1>2, <1>3, <1>4, <1>6, <1>7
<1> QED
  BY <1>8 DEF Count, A, B

LEMMA CountTokens ==
    ASSUME NEW s \in Seq(Tokens), NEW t \in Seq(Tokens), NEW T
    PROVE  Count(s \o t, T) = Count(s, T) + Count(t, T)
  BY CountConcat

LEMMA CountOne ==
    ASSUME NEW x, NEW T
    PROVE  /\ Count(<<>>, T) = 0
           /\ Count(<<x>>, T) = IF x \in T THEN 1 ELSE 0
<1>1. Where(<<>>, T) = {} /\ Where(<<x>>, T) = IF x \in T THEN {1} ELSE {}
  BY DEF Where
<1> QED
  BY <1>1, FS_EmptySet, FS_Singleton DEF Count

LEMMA CountQs ==
    /\ \A S : \A s \in Seq(S) : /\ CountQ(s) \in Nat
                                /\ CountQ(s) = 0 <=> \A i \in DOMAIN s : s[i] # Q
    /\ \A s, t \in Seq(Tokens) : CountQ(s \o t) = CountQ(s) + CountQ(t)
    /\ CountQ(<<>>) = 0
    /\ \A x : CountQ(<<x>>) = IF x = Q THEN 1 ELSE 0
<1>1. ASSUME NEW S, NEW s \in Seq(S)
      PROVE  CountQ(s) \in Nat /\ (CountQ(s) = 0 <=> \A i \in DOMAIN s : s[i] # Q)
  <2> DEFINE T == {Q}
  <2>1. \A x : x \in T <=> x = Q
    OBVIOUS
  <2>2. CountQ(s) = Count(s, T)
    BY DEF CountQ
  <2> HIDE DEF T
  <2> QED
    BY <2>1, <2>2, CountType
<1>2. ASSUME NEW s \in Seq(Tokens), NEW t \in Seq(Tokens)
      PROVE  CountQ(s \o t) = CountQ(s) + CountQ(t)
  BY CountTokens, Zenon DEF CountQ
<1>3. CountQ(<<>>) = 0
  BY CountOne, Zenon DEF CountQ
<1>4. ASSUME NEW x
      PROVE  CountQ(<<x>>) = IF x = Q THEN 1 ELSE 0
  <2> DEFINE T == {Q}
  <2>1. x \in T <=> x = Q
    OBVIOUS
  <2>2. \A s : CountQ(s) = Count(s, T)
    BY DEF CountQ
  <2> HIDE DEF T
  <2> QED
    BY <2>1, <2>2, CountOne
<1> QED
  BY <1>1, <1>2, <1>3, <1>4
-----------------------------------------------------------------------------
(* FlattenSeq, step by step: g[i] is what the first i sequences become. *)
Joins(S, s, n, g) ==
    /\ g \in [0..n -> Seq(S)] /\ g[0] = <<>>
    /\ \A i \in 1..n : g[i] = g[i - 1] \o s[i]

LEMMA JoinsExists ==
    ASSUME NEW S, NEW s \in Seq(Seq(S))
    PROVE  \A n \in 0..Len(s) : \E g : Joins(S, s, n, g)
<1> DEFINE T == {n \in Nat : n <= Len(s) => \E g : Joins(S, s, n, g)}
<1>1. 0 \in T
  <2>1. Joins(S, s, 0, [i \in 0..0 |-> <<>>])
    BY DEF Joins
  <2> QED
    BY <2>1
<1>2. ASSUME NEW n \in Nat, n \in T
      PROVE  n + 1 \in T
  <2> SUFFICES ASSUME n + 1 <= Len(s)
               PROVE  \E g : Joins(S, s, n + 1, g)
    OBVIOUS
  <2>1. PICK g : Joins(S, s, n, g)
    BY <1>2
  <2> DEFINE h == [i \in 0..n + 1 |-> IF i = n + 1 THEN g[n] \o s[n + 1] ELSE g[i]]
  <2>2. g \in [0..n -> Seq(S)] /\ g[0] = <<>> /\ s[n + 1] \in Seq(S)
    <3>1. n + 1 \in DOMAIN s
      OBVIOUS
    <3>2. s[n + 1] \in Seq(S)
      BY <3>1
    <3> QED
      BY <2>1, <3>2 DEF Joins
  <2>3. g[n] \o s[n + 1] \in Seq(S)
    BY <2>2, ConcatProperties
  <2>4. h \in [0..n + 1 -> Seq(S)] /\ h[0] = <<>>
    BY <2>2, <2>3
  <2>5. ASSUME NEW i \in 1..n + 1
        PROVE  h[i] = h[i - 1] \o s[i]
    <3>1. CASE i = n + 1
      <4>1. i - 1 = n
        BY <3>1
      <4>2. n \in 0..n + 1 /\ n # n + 1 /\ n + 1 \in 0..n + 1
        OBVIOUS
      <4>3. h[n] = g[n] /\ h[n + 1] = g[n] \o s[n + 1]
        BY <4>2
      <4> HIDE DEF h
      <4> QED
        BY <3>1, <4>1, <4>3
    <3>2. CASE i # n + 1
      <4>1. i \in 1..n /\ i - 1 \in 0..n
        BY <3>2
      <4>2. h[i] = g[i] /\ h[i - 1] = g[i - 1]
        BY <4>1
      <4> QED
        BY <4>1, <4>2, <2>1 DEF Joins
    <3> QED
      BY <3>1, <3>2
  <2>6. Joins(S, s, n + 1, h)
    BY <2>4, <2>5 DEF Joins
  <2> QED
    BY <2>6
<1>3. \A n \in Nat : n \in T
  <2> HIDE DEF T
  <2> QED
    BY <1>1, <1>2, Induction
<1> QED
  BY <1>3

LEMMA JoinsAll ==
    ASSUME NEW S, NEW s \in Seq(Seq(S))
    PROVE  \E g : Joins(S, s, Len(s), g)
<1>1. Len(s) \in 0..Len(s)
  OBVIOUS
<1> QED
  BY <1>1, JoinsExists

LEMMA JoinsSame ==
    ASSUME NEW S, NEW s \in Seq(Seq(S)), NEW t \in Seq(Seq(S)), NEW n \in Nat,
           NEW g, NEW h, Joins(S, s, n, g), Joins(S, t, n + 1, h),
           \A i \in 1..n : s[i] = t[i]
    PROVE  g[n] = h[n]
<1> DEFINE T == {k \in Nat : k <= n => g[k] = h[k]}
<1>1. 0 \in T
  BY DEF Joins
<1>2. ASSUME NEW k \in Nat, k \in T
      PROVE  k + 1 \in T
  <2> SUFFICES ASSUME k + 1 <= n
               PROVE  g[k + 1] = h[k + 1]
    OBVIOUS
  <2>1. g[k] = h[k] /\ s[k + 1] = t[k + 1] /\ k + 1 \in 1..n /\ k + 1 \in 1..n + 1
    BY <1>2
  <2>2. g[k + 1] = g[(k + 1) - 1] \o s[k + 1] /\ h[k + 1] = h[(k + 1) - 1] \o t[k + 1]
    BY <2>1 DEF Joins
  <2>3. (k + 1) - 1 = k
    OBVIOUS
  <2> QED
    BY <2>1, <2>2, <2>3
<1>3. \A k \in Nat : k \in T
  <2> HIDE DEF T
  <2> QED
    BY <1>1, <1>2, Induction
<1> QED
  BY <1>3

LEMMA FlattenJoins ==
    ASSUME NEW S, NEW s \in Seq(Seq(S)), NEW g, Joins(S, s, Len(s), g)
    PROVE  FlattenSeq(s) = g[Len(s)]
<1>1. CASE Len(s) = 0
  <2>1. s = <<>>
    BY <1>1
  <2> QED
    BY <1>1, <2>1 DEF FlattenSeq, Joins
<1>2. CASE Len(s) # 0
  <2> DEFINE F(f) == [i \in 1..Len(s) |-> IF i = 1 THEN s[i] ELSE f[i - 1] \o s[i]]
             e == [i \in 1..Len(s) |-> g[i]]
             f == CHOOSE f : f = F(f)
  <2>1. g[1] = s[1]
    <3>1. g[0] = <<>> /\ \A i \in 1..Len(s) : g[i] = g[i - 1] \o s[i]
      BY DEF Joins
    <3>2. s[1] \in Seq(S) /\ 1 \in 1..Len(s) /\ 1 - 1 = 0
      BY <1>2
    <3>3. g[1] = g[1 - 1] \o s[1]
      BY <3>1, <3>2
    <3>4. g[1] = <<>> \o s[1]
      BY <3>1, <3>2, <3>3
    <3> QED
      BY <3>2, <3>4, ConcatEmptySeq
  <2>2. \A i \in 1..Len(s) : e[i] = IF i = 1 THEN s[i] ELSE e[i - 1] \o s[i]
    <3> SUFFICES ASSUME NEW i \in 1..Len(s), i # 1
                 PROVE  e[i] = e[i - 1] \o s[i]
      BY <2>1
    <3>1. e[i] = g[i] /\ e[i - 1] = g[i - 1]
      OBVIOUS
    <3>2. g[i] = g[i - 1] \o s[i]
      BY DEF Joins
    <3> QED
      BY <3>1, <3>2
  <2>3. e = F(e)
    BY <2>2
  <2>4. f = F(f)
    BY <2>3
  <2> DEFINE h == [i \in 0..Len(s) |-> IF i = 0 THEN <<>> ELSE f[i]]
             T == {k \in Nat : k <= Len(s) => h[k] = g[k]}
  <2>5. FlattenSeq(s) = f[Len(s)]
    BY <1>2 DEF FlattenSeq
  <2>6. \A i \in 1..Len(s) : f[i] = IF i = 1 THEN s[i] ELSE f[i - 1] \o s[i]
    <3> HIDE DEF f
    <3> QED
      BY <2>4
  <2> HIDE DEF f
  <2>7. 0 \in T
    BY DEF Joins
  <2>8. ASSUME NEW k \in Nat, k \in T
        PROVE  k + 1 \in T
    <3> SUFFICES ASSUME k + 1 <= Len(s)
                 PROVE  h[k + 1] = g[k + 1]
      OBVIOUS
    <3>1. k + 1 \in 1..Len(s) /\ h[k + 1] = f[k + 1]
      OBVIOUS
    <3>2. CASE k = 0
      BY <3>1, <3>2, <2>1, <2>6
    <3>3. CASE k # 0
      <4>1. f[k + 1] = f[(k + 1) - 1] \o s[k + 1]
        <5>1. k + 1 # 1
          BY <3>3
        <5> QED
          BY <3>1, <5>1, <2>6
      <4>2. g[k + 1] = g[(k + 1) - 1] \o s[k + 1]
        BY <3>1 DEF Joins
      <4>3. h[k] = g[k] /\ h[k] = f[k]
        BY <2>8, <3>3
      <4>4. (k + 1) - 1 = k
        OBVIOUS
      <4> HIDE DEF h
      <4> QED
        BY <3>1, <4>1, <4>2, <4>3, <4>4
    <3> QED
      BY <3>2, <3>3
  <2>9. \A k \in Nat : k \in T
    <3> HIDE DEF T
    <3> QED
      BY <2>7, <2>8, Induction
  <2>10. Len(s) \in T
    BY <2>9
  <2>11. h[Len(s)] = g[Len(s)]
    BY <2>10
  <2>12. h[Len(s)] = f[Len(s)]
    BY <1>2
  <2> QED
    BY <2>5, <2>11, <2>12
<1> QED
  BY <1>1, <1>2

LEMMA FlattenType ==
    ASSUME NEW S, NEW s \in Seq(Seq(S))
    PROVE  FlattenSeq(s) \in Seq(S)
<1>1. PICK g : Joins(S, s, Len(s), g)
  BY JoinsAll
<1>2. g[Len(s)] \in Seq(S)
  BY <1>1 DEF Joins
<1> QED
  BY <1>1, <1>2, FlattenJoins

(* One sequence more. *)
Extends(t, s, x) ==
    Len(t) = Len(s) + 1 /\ t[Len(t)] = x /\ \A i \in 1..Len(s) : t[i] = s[i]

LEMMA FlattenNext ==
    ASSUME NEW S, NEW s \in Seq(Seq(S)), NEW x \in Seq(S), NEW t \in Seq(Seq(S)),
           Extends(t, s, x)
    PROVE  FlattenSeq(t) = FlattenSeq(s) \o x
<1>e. Len(t) = Len(s) + 1 /\ t[Len(t)] = x /\ \A i \in 1..Len(s) : t[i] = s[i]
  BY DEF Extends
<1>1. PICK g : Joins(S, s, Len(s), g)
  BY JoinsAll
<1>2. PICK h : Joins(S, t, Len(t), h)
  BY JoinsAll
<1>3. FlattenSeq(s) = g[Len(s)] /\ FlattenSeq(t) = h[Len(t)]
  BY <1>1, <1>2, FlattenJoins
<1> DEFINE n == Len(s)
<1>n. n \in Nat /\ Len(t) = n + 1 /\ Len(t) - 1 = n /\ Len(t) \in 1..Len(t)
  BY <1>e
<1>4. h[Len(t)] = h[Len(t) - 1] \o t[Len(t)]
  BY <1>2, <1>n DEF Joins
<1>5. g[n] = h[n]
  <2>1. Joins(S, s, n, g) /\ Joins(S, t, n + 1, h)
    BY <1>1, <1>2, <1>n
  <2>2. \A i \in 1..n : s[i] = t[i]
    BY <1>e
  <2> HIDE DEF n
  <2> QED
    BY <1>n, <2>1, <2>2, JoinsSame, SMTT(30)
<1> QED
  BY <1>3, <1>4, <1>5, <1>n, <1>e
-----------------------------------------------------------------------------
(* The tokens, the bindvars a slice gets, and what a query grows to. *)
LEMMA TokensAndBindvars ==
    /\ Q \in Tokens /\ Comma \in Tokens /\ Q # Comma /\ Open # Q /\ Close # Q
    /\ \A t \in Tokens : t \in Bindvars <=> t = Q
    /\ \A k \in Nat \ {0} : /\ Numbered(k) \in Bindvars
                            /\ Numbered(k) \notin Tokens
<1>1. \A t \in Tokens : t \notin [number : Nat \ {0}]
  BY TokenAssumption DEF Tokens
<1> QED
  BY <1>1, TokenAssumption DEF Tokens, Bindvars, Numbered

LEMMA OneMark == Marks(1) = <<Q>>
  BY DEF Marks

LEMMA MarksBuilt ==
    ASSUME NEW n \in Nat
    PROVE  /\ Marks(n + 1) \in Seq(Tokens)
           /\ CountQ(Marks(n + 1)) = n + 1
           /\ <<Q>> \o FlattenSeq([e \in 1..n |-> <<Comma, Q>>]) = Marks(n + 1)
<1> DEFINE More(k) == [e \in 1..k |-> <<Comma, Q>>]
           T == {k \in Nat : /\ CountQ(Marks(k + 1)) = k + 1
                             /\ <<Q>> \o FlattenSeq(More(k)) = Marks(k + 1)}
<1>q. Q \in Tokens /\ Comma \in Tokens /\ Q # Comma
  BY TokensAndBindvars
<1>m. \A k \in Nat : Marks(k + 1) \in Seq(Tokens) /\ Len(Marks(k + 1)) = 2 * k + 1
  BY <1>q DEF Marks
<1>f. \A k \in Nat : More(k) \in Seq(Seq(Tokens)) /\ FlattenSeq(More(k)) \in Seq(Tokens)
  <2>1. \A k \in Nat : More(k) \in Seq(Seq(Tokens))
    BY <1>q
  <2> QED
    BY <2>1, FlattenType
<1>1. 0 \in T
  <2>1. FlattenSeq(More(0)) = <<>>
    BY DEF FlattenSeq
  <2>2. <<Q>> \o <<>> = <<Q>>
    BY <1>q
  <2>3. Marks(0 + 1) = <<Q>>
    BY OneMark
  <2> QED
    BY <2>1, <2>2, <2>3, CountQs, 0 + 1 = 1
<1>2. ASSUME NEW k \in Nat, k \in T
      PROVE  k + 1 \in T
  <2>1. FlattenSeq(More(k + 1)) = FlattenSeq(More(k)) \o <<Comma, Q>>
    <3>1. /\ Len(More(k + 1)) = Len(More(k)) + 1
          /\ \A i \in 1..Len(More(k)) : More(k + 1)[i] = More(k)[i]
          /\ More(k + 1)[Len(More(k + 1))] = <<Comma, Q>>
          /\ <<Comma, Q>> \in Seq(Tokens)
      BY <1>q
    <3>2. More(k) \in Seq(Seq(Tokens)) /\ More(k + 1) \in Seq(Seq(Tokens))
      <4>1. k + 1 \in Nat
        OBVIOUS
      <4> HIDE DEF More
      <4> QED
        BY <4>1, <1>f
    <3> HIDE DEF More
    <3> DEFINE s == More(k)
               t == More(k + 1)
               x == <<Comma, Q>>
    <3>3. Extends(t, s, x) /\ s \in Seq(Seq(Tokens)) /\ t \in Seq(Seq(Tokens)) /\ x \in Seq(Tokens)
      BY <3>1, <3>2 DEF Extends
    <3> HIDE DEF s, t, x
    <3>4. FlattenSeq(t) = FlattenSeq(s) \o x
      BY <3>3, FlattenNext
    <3> QED
      BY <3>4 DEF s, t, x
  <2>2. Marks(k + 2) = Marks(k + 1) \o <<Comma, Q>>
    <3> DEFINE m == Marks(k + 1) \o <<Comma, Q>>
    <3>1. /\ m \in Seq(Tokens) /\ Len(m) = 2 * k + 3
          /\ \A i \in 1..2 * k + 3 :
                m[i] = IF i <= 2 * k + 1 THEN Marks(k + 1)[i] ELSE <<Comma, Q>>[i - (2 * k + 1)]
      <4>1. /\ Marks(k + 1) \in Seq(Tokens) /\ Len(Marks(k + 1)) = 2 * k + 1
            /\ <<Comma, Q>> \in Seq(Tokens) /\ Len(<<Comma, Q>>) = 2
        BY <1>m, <1>q
      <4> QED
        BY <4>1, ConcatProperties
    <3>2. Marks(k + 2) \in Seq(Tokens) /\ Len(Marks(k + 2)) = 2 * k + 3
      <4>1. k + 1 \in Nat /\ (k + 1) + 1 = k + 2 /\ 2 * (k + 1) + 1 = 2 * k + 3
        OBVIOUS
      <4> QED
        BY <4>1, <1>m
    <3>3. \A i \in 1..2 * k + 3 : Marks(k + 2)[i] = m[i]
      <4> SUFFICES ASSUME NEW i \in 1..2 * k + 3
                   PROVE  Marks(k + 2)[i] = m[i]
        OBVIOUS
      <4>1. Marks(k + 2)[i] = IF i % 2 = 1 THEN Q ELSE Comma
        BY DEF Marks
      <4>2. i <= 2 * k + 1 => Marks(k + 1)[i] = IF i % 2 = 1 THEN Q ELSE Comma
        BY DEF Marks
      <4>3. i = 2 * k + 2 => i % 2 # 1 /\ m[i] = Comma
        BY <3>1
      <4>4. i = 2 * k + 3 => i % 2 = 1 /\ m[i] = Q
        BY <3>1
      <4> QED
        BY <3>1, <4>1, <4>2, <4>3, <4>4
    <3> QED
      BY <3>1, <3>2, <3>3, SeqEqual
  <2>3. <<Q>> \o FlattenSeq(More(k + 1)) = Marks(k + 2)
    <3>1. <<Q>> \in Seq(Tokens) /\ <<Comma, Q>> \in Seq(Tokens) /\ FlattenSeq(More(k)) \in Seq(Tokens)
      BY <1>q, <1>f
    <3>2. <<Q>> \o (FlattenSeq(More(k)) \o <<Comma, Q>>)
             = (<<Q>> \o FlattenSeq(More(k))) \o <<Comma, Q>>
      BY <3>1, ConcatAssociative
    <3> QED
      BY <2>1, <2>2, <3>2, <1>2
  <2>4. CountQ(Marks(k + 2)) = k + 2
    <3> DEFINE c == <<Comma>>
               q == <<Q>>
               cq == <<Comma, Q>>
               m == Marks(k + 1)
    <3>1. m \in Seq(Tokens) /\ c \in Seq(Tokens) /\ q \in Seq(Tokens)
      BY <1>m, <1>q
    <3>2. cq = c \o q /\ cq \in Seq(Tokens)
      BY <1>q
    <3>3. CountQ(c) = 0 /\ CountQ(q) = 1
      BY <1>q, CountQs
    <3>4. CountQ(m) = k + 1 /\ Marks(k + 2) = m \o cq
      BY <1>2, <2>2
    <3> HIDE DEF c, q, cq, m
    <3>5. CountQ(c \o q) = CountQ(c) + CountQ(q)
      BY <3>1, CountQs, Zenon
    <3>6. CountQ(m \o cq) = CountQ(m) + CountQ(cq)
      BY <3>1, <3>2, CountQs, Zenon
    <3>7. CountQ(cq) = 1
      BY <3>2, <3>3, <3>5
    <3>8. CountQ(m \o cq) = k + 2
      BY <3>4, <3>6, <3>7
    <3> QED
      BY <3>4, <3>8
  <2>5. k + 1 \in Nat /\ (k + 1) + 1 = k + 2
    OBVIOUS
  <2> HIDE DEF More
  <2> QED
    BY <2>3, <2>4, <2>5
<1>3. \A k \in Nat : k \in T
  <2> HIDE DEF T
  <2> QED
    BY <1>1, <1>2, Induction
<1> QED
  BY <1>3, <1>m

LEMMA PrefixType ==
    ASSUME NEW S, NEW s \in Seq(S), NEW i \in 0..Len(s)
    PROVE  /\ SubSeq(s, 1, i) \in Seq(S) /\ Len(SubSeq(s, 1, i)) = i
           /\ \A j \in 1..i : SubSeq(s, 1, i)[j] = s[j]
  BY SubSeqProperties

LEMMA NthSame ==
    ASSUME NEW s \in Seq(Tokens), NEW a \in 0..Len(s), NEW b \in a..Len(s)
    PROVE  /\ Nth(s, b) = Nth(s, a) + CountQ(SubSeq(s, a + 1, b))
           /\ (\A i \in a + 1..b : s[i] # Q) => Nth(s, b) = Nth(s, a)
<1>1. /\ SubSeq(s, a + 1, b) \in Seq(Tokens)
      /\ DOMAIN SubSeq(s, a + 1, b) = 1..b - a
      /\ \A i \in 1..b - a : SubSeq(s, a + 1, b)[i] = s[a + i]
  BY SubSeqProperties
<1>2. SubSeq(s, 1, a) \in Seq(Tokens)
  BY PrefixType
<1>3. SubSeq(s, 1, a) \o SubSeq(s, a + 1, b) = SubSeq(s, 1, b)
  BY ConcatAdjacentSubSeq
<1>4. (\A i \in a + 1..b : s[i] # Q) => CountQ(SubSeq(s, a + 1, b)) = 0
  <2> DEFINE t == SubSeq(s, a + 1, b)
  <2>1. t \in Seq(Tokens) /\ DOMAIN t = 1..b - a /\ \A i \in 1..b - a : t[i] = s[a + i]
    BY <1>1
  <2>2. \A i \in 1..b - a : a + i \in a + 1..b
    OBVIOUS
  <2> HIDE DEF t
  <2>3. (\A i \in a + 1..b : s[i] # Q) => \A i \in DOMAIN t : t[i] # Q
    BY <2>1, <2>2
  <2>4. (\A i \in a + 1..b : s[i] # Q) => CountQ(t) = 0
    BY <2>1, <2>3, CountQs
  <2> QED
    BY <2>4 DEF t
<1>5. CountQ(SubSeq(s, 1, a)) \in Nat
  BY <1>2, CountQs
<1> QED
  <2>1. CountQ(SubSeq(s, 1, b)) = CountQ(SubSeq(s, 1, a)) + CountQ(SubSeq(s, a + 1, b))
    <3> DEFINE u == SubSeq(s, 1, a)
               v == SubSeq(s, a + 1, b)
               w == SubSeq(s, 1, b)
    <3>1. u \in Seq(Tokens) /\ v \in Seq(Tokens) /\ w = u \o v
      BY <1>1, <1>2, <1>3
    <3> HIDE DEF u, v, w
    <3>2. CountQ(u \o v) = CountQ(u) + CountQ(v)
      BY <3>1, CountQs, Zenon
    <3>3. CountQ(w) = CountQ(u) + CountQ(v)
      BY <3>1, <3>2
    <3> QED
      BY <3>3 DEF u, v, w
  <2> QED
    BY <2>1, <1>4, <1>5 DEF Nth

LEMMA NthNext ==
    ASSUME NEW s \in Seq(Tokens), NEW i \in 1..Len(s), s[i] = Q
    PROVE  Nth(s, i) = Nth(s, i - 1) + 1
<1>1. SubSeq(s, (i - 1) + 1, i) = <<Q>>
  <2> DEFINE t == SubSeq(s, (i - 1) + 1, i)
  <2>1. t \in Seq(Tokens) /\ Len(t) = 1 /\ t[1] = s[i]
    BY SubSeqProperties
  <2> HIDE DEF t
  <2>2. t = <<Q>>
    BY <2>1
  <2> QED
    BY <2>2 DEF t
<1>2. CountQ(<<Q>>) = 1
  BY CountQs
<1> QED
  <2>1. Nth(s, i) = Nth(s, i - 1) + CountQ(SubSeq(s, (i - 1) + 1, i))
    BY NthSame, i - 1 \in 0..Len(s), i \in i - 1..Len(s)
  <2> QED
    BY <1>1, <1>2, <2>1
-----------------------------------------------------------------------------
(* What prefixes of a query and of the arguments become. *)
LEMMA FlattenPrefix ==
    ASSUME NEW S, NEW s \in Seq(Seq(S))
    PROVE  /\ FlattenSeq(SubSeq(s, 1, 0)) = <<>>
           /\ FlattenSeq(SubSeq(s, 1, Len(s))) = FlattenSeq(s)
           /\ \A i \in 0..Len(s) : FlattenSeq(SubSeq(s, 1, i)) \in Seq(S)
           /\ \A i \in 1..Len(s) :
                 FlattenSeq(SubSeq(s, 1, i)) = FlattenSeq(SubSeq(s, 1, i - 1)) \o s[i]
<1>1. FlattenSeq(SubSeq(s, 1, 0)) = <<>>
  <2>1. SubSeq(s, 1, 0) = <<>>
    BY SubSeqEmpty
  <2> QED
    BY <2>1 DEF FlattenSeq
<1>2. SubSeq(s, 1, Len(s)) = s
  BY SubSeqFull
<1>3. \A i \in 0..Len(s) : /\ SubSeq(s, 1, i) \in Seq(Seq(S)) /\ Len(SubSeq(s, 1, i)) = i
                           /\ \A j \in 1..i : SubSeq(s, 1, i)[j] = s[j]
  <2> TAKE i \in 0..Len(s)
  <2> QED
    BY PrefixType
<1>4. \A i \in 0..Len(s) : FlattenSeq(SubSeq(s, 1, i)) \in Seq(S)
  BY <1>3, FlattenType
<1>5. ASSUME NEW i \in 1..Len(s)
      PROVE  FlattenSeq(SubSeq(s, 1, i)) = FlattenSeq(SubSeq(s, 1, i - 1)) \o s[i]
  <2> DEFINE u == SubSeq(s, 1, i - 1)
             t == SubSeq(s, 1, i)
  <2>1. i - 1 \in 0..Len(s) /\ i \in 0..Len(s) /\ s[i] \in Seq(S)
    OBVIOUS
  <2>2. /\ u \in Seq(Seq(S)) /\ t \in Seq(Seq(S))
        /\ Len(t) = Len(u) + 1 /\ t[Len(t)] = s[i]
        /\ \A j \in 1..Len(u) : t[j] = u[j]
    BY <1>3, <2>1
  <2> HIDE DEF u, t
  <2>3. FlattenSeq(t) = FlattenSeq(u) \o s[i]
    <3> DEFINE x == s[i]
    <3>1. Extends(t, u, x) /\ u \in Seq(Seq(S)) /\ t \in Seq(Seq(S)) /\ x \in Seq(S)
      BY <2>1, <2>2 DEF Extends
    <3> HIDE DEF x
    <3>2. FlattenSeq(t) = FlattenSeq(u) \o x
      BY <3>1, FlattenNext
    <3> QED
      BY <3>2 DEF x
  <2> QED
    BY <2>3 DEF u, t
<1> QED
  BY <1>1, <1>2, <1>4, <1>5

LEMMA Widths ==
    ASSUME NEW xs \in Seq(InArgs), Sound(xs, Len(xs))
    PROVE  /\ \A k : Width(xs, k) \in Nat \ {0}
           /\ \A k \in 1..Len(xs) : /\ xs[k] = Scalar \/ xs[k] \in 1..MaxSlice
                                    /\ xs[k] = Scalar => Width(xs, k) = 1
                                    /\ xs[k] \in 1..MaxSlice => /\ Width(xs, k) = xs[k]
                                                                /\ xs[k] # Scalar
<1>1. MaxSlice \in Nat /\ Scalar \notin Nat
  BY BoundsAssumption, ArgumentAssumption
<1>2. ASSUME NEW k \in 1..Len(xs)
      PROVE  xs[k] = Scalar \/ xs[k] \in 1..MaxSlice
  <2>1. xs[k] \in InArgs /\ xs[k] \notin {Pointer, Failing, 0}
    BY DEF Sound
  <2> QED
    BY <1>1, <2>1 DEF InArgs, Lengths
<1>3. ASSUME NEW k \in 1..Len(xs)
      PROVE  /\ xs[k] = Scalar => Width(xs, k) = 1
             /\ xs[k] \in 1..MaxSlice => Width(xs, k) = xs[k] /\ xs[k] # Scalar
  <2>1. k \in DOMAIN xs
    OBVIOUS
  <2>2. Scalar \notin Lengths /\ 1..MaxSlice \subseteq Lengths
    BY <1>1 DEF Lengths
  <2> QED
    BY <1>1, <2>1, <2>2 DEF Width
<1>4. ASSUME NEW k
      PROVE  Width(xs, k) \in Nat \ {0}
  <2>1. CASE k \in DOMAIN xs
    BY <2>1, <1>1, <1>2, <1>3
  <2>2. CASE k \notin DOMAIN xs
    BY <2>2 DEF Width
  <2> QED
    BY <2>1, <2>2
<1> QED
  BY <1>2, <1>3, <1>4

LEMMA ExpandedType ==
    ASSUME NEW s \in Seq(Tokens), NEW xs \in Seq(InArgs), Sound(xs, Len(xs))
    PROVE  Expanded(s, xs) \in Seq(Seq(Tokens)) /\ Len(Expanded(s, xs)) = Len(s)
<1>1. \A k : Width(xs, k) \in Nat \ {0}
  BY Widths
<1>2. \A n \in Nat \ {0} : Marks(n) \in Seq(Tokens)
  <2> TAKE n \in Nat \ {0}
  <2>1. n - 1 \in Nat /\ (n - 1) + 1 = n
    OBVIOUS
  <2>2. Marks((n - 1) + 1) \in Seq(Tokens)
    BY <2>1, MarksBuilt
  <2> QED
    BY <2>1, <2>2
<1>3. \A i \in DOMAIN s : <<s[i]>> \in Seq(Tokens)
  OBVIOUS
<1>4. \A i \in 1..Len(s) : Expanded(s, xs)[i] \in Seq(Tokens)
  BY <1>1, <1>2, <1>3 DEF Expanded
<1>5. DOMAIN Expanded(s, xs) = 1..Len(s)
  BY DEF Expanded
<1>6. Expanded(s, xs) = [i \in 1..Len(s) |-> Expanded(s, xs)[i]]
  BY DEF Expanded
<1>7. Len(s) \in Nat
  OBVIOUS
<1> DEFINE E == Expanded(s, xs)
<1> HIDE DEF E
<1>8. E = [i \in 1..Len(s) |-> E[i]] /\ \A i \in 1..Len(s) : E[i] \in Seq(Tokens)
  BY <1>4, <1>6 DEF E
<1>9. E \in Seq(Seq(Tokens)) /\ Len(E) = Len(s)
  BY <1>7, <1>8
<1> QED
  BY <1>9 DEF E

LEMMA GrownSteps ==
    ASSUME NEW s \in Seq(Tokens), NEW xs \in Seq(InArgs), Sound(xs, Len(xs))
    PROVE  /\ Grown(s, xs, 0) = <<>>
           /\ Grown(s, xs, Len(s)) = FlattenSeq(Expanded(s, xs))
           /\ \A i \in 0..Len(s) : Grown(s, xs, i) \in Seq(Tokens)
           /\ \A i \in 1..Len(s) : Grown(s, xs, i) = Grown(s, xs, i - 1) \o Expanded(s, xs)[i]
  BY ExpandedType, FlattenPrefix DEF Grown

(* Tokens that stay as they are. *)
LEMMA GrownSame ==
    ASSUME NEW s \in Seq(Tokens), NEW xs \in Seq(InArgs), Sound(xs, Len(xs)),
           NEW a \in 0..Len(s), NEW b \in a..Len(s),
           \A i \in a + 1..b : Expanded(s, xs)[i] = <<s[i]>>
    PROVE  Grown(s, xs, b) = Grown(s, xs, a) \o SubSeq(s, a + 1, b)
<1> DEFINE G(i) == Grown(s, xs, i)
           P(i) == SubSeq(s, a + 1, i)
           T == {n \in Nat : n <= b - a => G(a + n) = G(a) \o P(a + n)}
<1>g. \A i \in 0..Len(s) : G(i) \in Seq(Tokens)
  BY GrownSteps
<1>p. \A i \in a..b : P(i) \in Seq(Tokens)
  <2> TAKE i \in a..b
  <2> QED
    BY SubSeqProperties
<1>e. P(a) = <<>>
  BY SubSeqEmpty
<1>n. ASSUME NEW m \in a + 1..b
      PROVE  G(m) = G(m - 1) \o <<s[m]>> /\ P(m) = P(m - 1) \o <<s[m]>>
  <2>1. m \in 1..Len(s) /\ a + 1 \in 1..Len(s) /\ m \in a + 1..Len(s)
    OBVIOUS
  <2> QED
    BY <2>1, GrownSteps, SubSeqRecursiveSecond
<1>o. \A m \in 1..Len(s) : <<s[m]>> \in Seq(Tokens)
  OBVIOUS
<1> HIDE DEF G, P
<1>1. 0 \in T
  <2>1. G(a) \o <<>> = G(a) /\ a + 0 = a
    BY <1>g, ConcatEmptySeq
  <2> QED
    BY <2>1, <1>e
<1>2. ASSUME NEW n \in Nat, n \in T
      PROVE  n + 1 \in T
  <2> SUFFICES ASSUME n + 1 <= b - a
               PROVE  G(a + (n + 1)) = G(a) \o P(a + (n + 1))
    OBVIOUS
  <2>1. PICK m \in a + 1..b : m = a + (n + 1) /\ m - 1 = a + n /\ m - 1 \in a..b /\ m \in 1..Len(s)
    OBVIOUS
  <2>2. G(m) = G(m - 1) \o <<s[m]>> /\ P(m) = P(m - 1) \o <<s[m]>>
    BY <1>n
  <2>3. G(m - 1) = G(a) \o P(m - 1)
    BY <1>2, <2>1
  <2>4. (G(a) \o P(m - 1)) \o <<s[m]>> = G(a) \o (P(m - 1) \o <<s[m]>>)
    <3>1. G(a) \in Seq(Tokens) /\ P(m - 1) \in Seq(Tokens) /\ <<s[m]>> \in Seq(Tokens)
      BY <1>g, <1>p, <1>o, <2>1
    <3> DEFINE u == G(a)
               v == P(m - 1)
               w == <<s[m]>>
    <3> HIDE DEF u, v, w
    <3>2. u \in Seq(Tokens) /\ v \in Seq(Tokens) /\ w \in Seq(Tokens)
      BY <3>1 DEF u, v, w
    <3>3. (u \o v) \o w = u \o (v \o w)
      BY <3>2, ConcatAssociative, SMTT(30)
    <3> QED
      BY <3>3 DEF u, v, w
  <2> QED
    BY <2>1, <2>2, <2>3, <2>4
<1>3. \A n \in Nat : n \in T
  <2> HIDE DEF T
  <2> QED
    BY <1>1, <1>2, Induction
<1>4. b - a \in T
  <2>1. b - a \in Nat
    OBVIOUS
  <2> HIDE DEF T
  <2> QED
    BY <1>3, <2>1
<1>5. G(b) = G(a) \o P(b)
  <2>1. a + (b - a) = b /\ b - a <= b - a
    OBVIOUS
  <2> QED
    BY <1>4, <2>1
<1> QED
  BY <1>5 DEF G, P

LEMMA PassedSteps ==
    ASSUME NEW xs \in Seq(InArgs), Sound(xs, Len(xs))
    PROVE  /\ PassedUpTo(xs, 0) = <<>>
           /\ PassedUpTo(xs, Len(xs)) = FlattenSeq(Passed(xs))
           /\ \A k \in 0..Len(xs) : PassedUpTo(xs, k) \in Seq((1..Len(xs)) \X Nat)
           /\ \A k \in 1..Len(xs) :
                 PassedUpTo(xs, k) = PassedUpTo(xs, k - 1) \o Passed(xs)[k]
<1> DEFINE P == (1..Len(xs)) \X Nat
<1>1. \A k \in 1..Len(xs) : Passed(xs)[k] \in Seq(P)
  <2> TAKE k \in 1..Len(xs)
  <2>0. \A e \in Nat : <<k, e>> \in P
    OBVIOUS
  <2> HIDE DEF P
  <2>1. <<<<k, 0>>>> \in Seq(P)
    BY <2>0
  <2>2. \A n \in Nat : [e \in 1..n |-> <<k, e>>] \in Seq(P)
    BY <2>0
  <2>3. xs[k] = Scalar \/ xs[k] \in Nat
    BY Widths, BoundsAssumption
  <2>4. Passed(xs)[k] = IF xs[k] = Scalar THEN <<<<k, 0>>>> ELSE [e \in 1..xs[k] |-> <<k, e>>]
    <3>1. k \in DOMAIN xs
      OBVIOUS
    <3> QED
      BY <3>1, Zenon DEF Passed
  <2>5. CASE xs[k] = Scalar
    BY <2>1, <2>4, <2>5
  <2>6. CASE xs[k] # Scalar
    <3>1. xs[k] \in Nat
      BY <2>3, <2>6
    <3>2. [e \in 1..xs[k] |-> <<k, e>>] \in Seq(P)
      BY <2>2, <3>1
    <3> QED
      BY <2>4, <2>6, <3>2
  <2> QED
    BY <2>5, <2>6
<1>2. Passed(xs) \in Seq(Seq(P)) /\ Len(Passed(xs)) = Len(xs)
  <2> DEFINE E == Passed(xs)
  <2>1. E = [k \in 1..Len(xs) |-> E[k]] /\ Len(xs) \in Nat
    BY DEF Passed
  <2> HIDE DEF E, P
  <2>2. \A k \in 1..Len(xs) : E[k] \in Seq(P)
    BY <1>1 DEF E
  <2>3. E \in Seq(Seq(P)) /\ Len(E) = Len(xs)
    BY <2>1, <2>2
  <2> QED
    BY <2>3 DEF E
<1> HIDE DEF P
<1>3. /\ PassedUpTo(xs, 0) = <<>>
      /\ PassedUpTo(xs, Len(xs)) = FlattenSeq(Passed(xs))
      /\ \A k \in 0..Len(xs) : PassedUpTo(xs, k) \in Seq(P)
      /\ \A k \in 1..Len(xs) : PassedUpTo(xs, k) = PassedUpTo(xs, k - 1) \o Passed(xs)[k]
  BY <1>2, FlattenPrefix DEF PassedUpTo
<1> QED
  BY <1>3 DEF P
-----------------------------------------------------------------------------
(* Reading a query up to its next bindvar. *)
LEMMA NextQ ==
    ASSUME rest \in Seq(Tokens), NEW n \in 0..Len(rest)
    PROVE  /\ IndexQ(n) # 0 => /\ IndexQ(n) \in n + 1..Len(rest) /\ rest[IndexQ(n)] = Q
                               /\ \A j \in n + 1..IndexQ(n) - 1 : rest[j] # Q
           /\ IndexQ(n) = 0 => \A j \in n + 1..Len(rest) : rest[j] # Q
<1> DEFINE T == {i \in n + 1..Len(rest) : rest[i] = Q}
<1>1. CASE T = {}
  BY <1>1 DEF IndexQ
<1>2. CASE T # {}
  <2>1. T \in SUBSET Nat
    OBVIOUS
  <2>2. PICK m \in T : \A k \in T : m <= k
    BY <1>2, <2>1, Least
  <2>3. m \in n + 1..Len(rest) /\ rest[m] = Q /\ \A j \in n + 1..m - 1 : rest[j] # Q
    BY <2>2
  <2> DEFINE First(i) == rest[i] = Q /\ \A j \in n + 1..i - 1 : rest[j] # Q
             c == CHOOSE i \in n + 1..Len(rest) : First(i)
  <2>4. IndexQ(n) = c
    BY <2>3 DEF IndexQ
  <2>5. c \in n + 1..Len(rest) /\ First(c)
    <3>1. \E i \in n + 1..Len(rest) : First(i)
      BY <2>3
    <3> HIDE DEF First
    <3> QED
      BY <3>1
  <2> HIDE DEF c
  <2> QED
    BY <2>4, <2>5
<1> QED
  BY <1>1, <1>2

LEMMA SpanType ==
    ASSUME NEW s \in Seq(Tokens), NEW a \in 0..Len(s), NEW b \in a..Len(s)
    PROVE  /\ SubSeq(s, a + 1, b) \in Seq(Tokens) /\ Len(SubSeq(s, a + 1, b)) = b - a
           /\ \A j \in 1..b - a : SubSeq(s, a + 1, b)[j] = s[a + j]
<1>1. a + 1 \in Int /\ b \in Int /\ \A i \in a + 1..b : s[i] \in Tokens
  OBVIOUS
<1> QED
  BY <1>1, SubSeqProperties

LEMMA Assoc ==
    ASSUME NEW s \in Seq(Tokens), NEW t \in Seq(Tokens), NEW u \in Seq(Tokens)
    PROVE  (s \o t) \o u = s \o (t \o u)
  BY ConcatAssociative

LEMMA RestOf ==
    ASSUME NEW s \in Seq(Tokens), NEW w \in 0..Len(s), NEW t, t = SubSeq(s, w + 1, Len(s))
    PROVE  /\ t \in Seq(Tokens) /\ Len(t) = Len(s) - w
           /\ \A j \in 1..Len(t) : t[j] = s[w + j]
           /\ \A i \in 0..Len(t) : /\ SubSeq(t, 1, i) = SubSeq(s, w + 1, w + i)
                                   /\ SubSeq(t, i + 1, Len(t)) = SubSeq(s, w + i + 1, Len(s))
<1>1. t \in Seq(Tokens) /\ Len(t) = Len(s) - w /\ \A j \in 1..Len(t) : t[j] = s[w + j]
  BY SpanType
<1>2. ASSUME NEW a \in 0..Len(t), NEW b \in a..Len(t)
      PROVE  SubSeq(t, a + 1, b) = SubSeq(s, (w + a) + 1, w + b)
  <2> DEFINE u == SubSeq(t, a + 1, b)
             v == SubSeq(s, (w + a) + 1, w + b)
  <2>1. u \in Seq(Tokens) /\ Len(u) = b - a /\ \A j \in 1..b - a : u[j] = s[w + (a + j)]
    <3>1. u \in Seq(Tokens) /\ Len(u) = b - a /\ \A j \in 1..b - a : u[j] = t[a + j]
      BY <1>1, SpanType
    <3>2. \A j \in 1..b - a : a + j \in 1..Len(t)
      BY <1>1
    <3> HIDE DEF u
    <3> QED
      BY <3>1, <3>2, <1>1
  <2>2. v \in Seq(Tokens) /\ Len(v) = b - a /\ \A j \in 1..b - a : v[j] = s[w + (a + j)]
    <3>1. w + a \in 0..Len(s) /\ w + b \in w + a..Len(s) /\ (w + b) - (w + a) = b - a
      BY <1>1
    <3>2. /\ v \in Seq(Tokens) /\ Len(v) = (w + b) - (w + a)
          /\ \A j \in 1..(w + b) - (w + a) : v[j] = s[(w + a) + j]
      BY <3>1, SpanType
    <3>3. \A j \in Nat : (w + a) + j = w + (a + j)
      BY <1>1
    <3> HIDE DEF v
    <3> QED
      BY <3>1, <3>2, <3>3
  <2> HIDE DEF u, v
  <2>3. u = v
    BY <2>1, <2>2, SeqEqual
  <2> QED
    BY <2>3 DEF u, v
<1>3. ASSUME NEW i \in 0..Len(t)
      PROVE  /\ SubSeq(t, 1, i) = SubSeq(s, w + 1, w + i)
             /\ SubSeq(t, i + 1, Len(t)) = SubSeq(s, w + i + 1, Len(s))
  <2>0. 0 \in 0..Len(t) /\ i \in 0..Len(t)
    BY <1>1
  <2>1. SubSeq(t, 0 + 1, i) = SubSeq(s, (w + 0) + 1, w + i)
    BY <2>0, <1>2, Zenon
  <2>2. SubSeq(t, i + 1, Len(t)) = SubSeq(s, (w + i) + 1, w + Len(t))
    BY <1>1, <1>2
  <2>3. 0 + 1 = 1 /\ w + 0 = w /\ w + Len(t) = Len(s)
    BY <1>1
  <2> QED
    BY <2>1, <2>2, <2>3
<1> QED
  BY <1>1, <1>3

NoQ(s, a, b) == \A i \in a + 1..b : s[i] # Q

LEMMA ReadSame ==
    ASSUME NEW s \in Seq(Tokens), NEW xs \in Seq(InArgs), Sound(xs, Len(xs)),
           NEW w, NEW r, NEW o, Reading(s, xs, w, r, o), NEW b \in r..Len(s),
           NoQ(s, r, b)
    PROVE  /\ Reading(s, xs, w, b, o)
           /\ CountQ(Grown(s, xs, b)) = CountQ(Grown(s, xs, r))
<1> DEFINE u == SubSeq(s, w + 1, r)
           v == SubSeq(s, r + 1, b)
           g == Grown(s, xs, r)
<1>1. w \in 0..Len(s) /\ r \in 0..Len(s) /\ r \in w..Len(s) /\ b \in w..Len(s) /\ o \in Seq(Tokens)
  BY DEF Reading
<1>2. u \in Seq(Tokens) /\ v \in Seq(Tokens) /\ g \in Seq(Tokens)
  BY <1>1, SpanType, GrownSteps
<1>3. Grown(s, xs, b) = g \o v
  <2>1. \A i \in r + 1..b : Expanded(s, xs)[i] = <<s[i]>>
    BY <1>1 DEF Expanded, NoQ
  <2> QED
    BY <1>1, <2>1, GrownSame
<1>4. SubSeq(s, w + 1, b) = u \o v
  <2>1. w + 1 \in 1..Len(s) + 1 /\ r \in (w + 1) - 1..Len(s) /\ b \in r..Len(s)
    BY <1>1
  <2> QED
    BY <2>1, ConcatAdjacentSubSeq
<1>5. o \o u = g
  BY DEF Reading
<1>6. CountQ(v) = 0
  <2>1. DOMAIN v = 1..b - r /\ \A j \in 1..b - r : v[j] = s[r + j] /\ r + j \in r + 1..b
    BY <1>1, SubSeqProperties
  <2>2. \A j \in DOMAIN v : v[j] # Q
    BY <2>1 DEF NoQ
  <2> HIDE DEF v
  <2> QED
    BY <1>2, <2>2, CountQs
<1>7. CountQ(g) \in Nat
  BY <1>2, CountQs
<1> HIDE DEF u, v, g
<1>8. o \o (u \o v) = g \o v
  BY <1>1, <1>2, <1>5, Assoc, ZenonT(30)
<1>9. CountQ(g \o v) = CountQ(g) + CountQ(v)
  BY <1>2, CountQs, Zenon
<1>10. Reading(s, xs, w, b, o)
  BY <1>1, <1>3, <1>4, <1>8 DEF Reading
<1>11. CountQ(Grown(s, xs, b)) = CountQ(g)
  BY <1>3, <1>6, <1>7, <1>9
<1> QED
  BY <1>10, <1>11 DEF g

Span(s, a, b) == SubSeq(s, a + 1, b)
MoreQs(n) == FlattenSeq([e \in 1..n |-> <<Comma, Q>>])

IsNextQ(s, r, i) == i \in r + 1..Len(s) /\ s[i] = Q /\ \A j \in r + 1..i - 1 : s[j] # Q
Widens(xs, s, r, n) == n \in Nat /\ Width(xs, Nth(s, r) + 1) = n + 1

LEMMA ReadQ ==
    ASSUME NEW s \in Seq(Tokens), NEW xs \in Seq(InArgs), Sound(xs, Len(xs)),
           NEW w, NEW r, NEW o, Reading(s, xs, w, r, o), NEW i, IsNextQ(s, r, i),
           NEW n, Widens(xs, s, r, n)
    PROVE  /\ Nth(s, i) = Nth(s, r) + 1
           /\ (o \o Span(s, w, i)) \o MoreQs(n) = Grown(s, xs, i)
           /\ CountQ(Grown(s, xs, i)) = CountQ(Grown(s, xs, r)) + (n + 1)
<1> DEFINE u == SubSeq(s, w + 1, i - 1)
           f == MoreQs(n)
           g == Grown(s, xs, i - 1)
           m == Marks(n + 1)
           q == <<Q>>
<1>i. i \in r + 1..Len(s) /\ s[i] = Q /\ \A j \in r + 1..i - 1 : s[j] # Q
  BY DEF IsNextQ
<1>n. n \in Nat /\ Width(xs, Nth(s, r) + 1) = n + 1
  BY DEF Widens
<1>1. /\ w \in 0..Len(s) /\ r \in 0..Len(s) /\ i - 1 \in r..Len(s) /\ i - 1 \in w..Len(s)
      /\ i \in 1..Len(s) /\ o \in Seq(Tokens)
  BY <1>i DEF Reading
<1>2. Reading(s, xs, w, i - 1, o) /\ CountQ(g) = CountQ(Grown(s, xs, r))
  <2> DEFINE b == i - 1
  <2>1. b \in r..Len(s) /\ NoQ(s, r, b)
    BY <1>1, <1>i DEF NoQ
  <2> HIDE DEF b
  <2>2. Reading(s, xs, w, b, o)
    BY <2>1, ReadSame
  <2>3. CountQ(Grown(s, xs, b)) = CountQ(Grown(s, xs, r))
    BY <2>1, ReadSame, Zenon
  <2> QED
    BY <2>2, <2>3 DEF b
<1>3. u \in Seq(Tokens) /\ g \in Seq(Tokens) /\ q \in Seq(Tokens)
  <2>1. u \in Seq(Tokens)
    BY <1>1, SpanType
  <2>2. i - 1 \in 0..Len(s)
    BY <1>1
  <2>3. g \in Seq(Tokens)
    BY <2>2, GrownSteps
  <2> QED
    BY <2>1, <2>3, TokensAndBindvars
<1>f. f \in Seq(Tokens)
  <2>1. \A e \in 1..n : <<Comma, Q>> \in Seq(Tokens)
    BY TokensAndBindvars
  <2>2. [e \in 1..n |-> <<Comma, Q>>] \in Seq(Seq(Tokens))
    BY <1>n, <2>1
  <2> QED
    BY <2>2, FlattenType DEF MoreQs
<1>4. Nth(s, i) = Nth(s, r) + 1
  <2>1. Nth(s, i - 1) = Nth(s, r)
    BY <1>1, <1>i, NthSame
  <2> QED
    BY <1>1, <1>i, <2>1, NthNext
<1>5. Grown(s, xs, i) = g \o m
  <2>1. Expanded(s, xs)[i] = m
    BY <1>1, <1>i, <1>n, <1>4 DEF Expanded
  <2> QED
    BY <1>1, <2>1, GrownSteps
<1>6. m \in Seq(Tokens) /\ CountQ(m) = n + 1 /\ m = q \o f
  BY <1>n, MarksBuilt DEF MoreQs
<1>7. SubSeq(s, w + 1, i) = u \o q
  <2>1. w + 1 \in 1..Len(s) /\ i \in w + 1..Len(s)
    BY <1>1
  <2> QED
    BY <1>i, <2>1, SubSeqRecursiveSecond
<1>8. o \o u = g
  BY <1>2 DEF Reading
<1>9. CountQ(g) \in Nat
  BY <1>3, CountQs
<1> HIDE DEF u, f, g, m, q
<1>10. (o \o (u \o q)) \o f = g \o m
  <2>1. o \o (u \o q) = (o \o u) \o q
    BY <1>1, <1>3, Assoc
  <2>2. (g \o q) \o f = g \o (q \o f)
    <3>1. g \in Seq(Tokens) /\ q \in Seq(Tokens) /\ f \in Seq(Tokens)
      BY <1>3, <1>f
    <3> QED
      BY <3>1, Assoc, Zenon
  <2> QED
    BY <2>1, <2>2, <1>6, <1>8
<1>11. CountQ(g \o m) = CountQ(g) + CountQ(m)
  BY <1>3, <1>6, CountQs, Zenon
<1>12. (o \o SubSeq(s, w + 1, i)) \o f = Grown(s, xs, i)
  BY <1>5, <1>7, <1>10
<1>13. CountQ(Grown(s, xs, i)) = CountQ(Grown(s, xs, r)) + (n + 1)
  BY <1>2, <1>5, <1>6, <1>11
<1> QED
  BY <1>4, <1>12, <1>13 DEF f, Span
-----------------------------------------------------------------------------
(* What the call is refused for. *)
Verdict == IF op = "in" THEN InVerdict ELSE ArrayVerdict

LEMMA NoBad ==
    ASSUME args \in Seq(InArgs), Sound(args, Len(args))
    PROVE  FirstBad = 0
<1>1. {i \in 1..Len(args) : args[i] \in {Pointer, Failing, 0}} = {}
  BY DEF Sound
<1> QED
  BY <1>1 DEF FirstBad, SelectInSeq

LEMMA FirstBadIs ==
    ASSUME args \in Seq(InArgs), NEW n \in 0..Len(args) - 1, Sound(args, n),
           args[n + 1] \in {Pointer, Failing, 0}
    PROVE  FirstBad = n + 1
<1> DEFINE T == {i \in 1..Len(args) : args[i] \in {Pointer, Failing, 0}}
<1>1. n + 1 \in T /\ \A i \in T : n + 1 <= i
  BY DEF Sound
<1>2. Min(T) \in T /\ \A i \in T : Min(T) <= i
  <2>1. Len(args) \in Nat /\ T \in SUBSET (1..Len(args)) /\ T # {}
    BY <1>1
  <2> HIDE DEF T
  <2> QED
    BY <2>1, FirstPlace
<1>3. Min(T) = n + 1
  BY <1>1, <1>2
<1>4. FirstBad = IF T # {} THEN Min(T) ELSE 0
  BY DEF FirstBad, SelectInSeq
<1> QED
  BY <1>1, <1>3, <1>4

LEMMA BadVerdict ==
    ASSUME args \in Seq(InArgs), arg \in 0..Len(args) - 1, Sound(args, arg)
    PROVE  /\ args[arg + 1] = Failing => InVerdict = "valuer"
           /\ args[arg + 1] = Pointer => InVerdict = "panic"
           /\ args[arg + 1] = 0 => InVerdict = "empty"
<1>1. Pointer # Failing /\ Pointer # 0 /\ Failing # 0
  BY ArgumentAssumption
<1>2. args[arg + 1] \in {Pointer, Failing, 0} => FirstBad = arg + 1 /\ arg + 1 # 0
  BY FirstBadIs
<1> QED
  BY <1>1, <1>2 DEF InVerdict

LEMMA VerdictSame ==
    ASSUME op' = op, query' = query, args' = args, pointed' = pointed, compiles' = compiles
    PROVE  Verdict' = Verdict /\ ArrayVerdict' = ArrayVerdict /\ InVerdict' = InVerdict
<1>1. FirstBad' = FirstBad
  BY DEF FirstBad, SelectInSeq
<1>2. Qs' = Qs
  BY DEF Qs
<1>3. Enclosed' <=> Enclosed
  BY <1>2 DEF Enclosed
<1>4. InVerdict' = InVerdict
  BY <1>1 DEF InVerdict, AnySlices
<1>5. ArrayVerdict' = ArrayVerdict
  <2>1. FirstBadElement' = FirstBadElement
    BY DEF FirstBadElement, SelectInSeq
  <2> QED
    BY <1>2, <1>3, <2>1 DEF ArrayVerdict
<1> QED
  BY <1>4, <1>5 DEF Verdict

LEMMA FailInv ==
    ASSUME Inv, NEW e \in Errors \ {"none"}, Fail(e), e = Verdict
    PROVE  Inv'
<1>2. /\ err' # "none" /\ err' = e /\ pc' = "done" /\ out' = <<>> /\ newArgs' = <<>>
      /\ op' = op /\ query' = query /\ args' = args /\ numbers' = numbers
      /\ pointed' = pointed /\ compiles' = compiles
      /\ rest' = rest /\ offset' = offset /\ arg' = arg
  BY DEF Fail, input
<1>1. TypeOK'
  BY <1>2 DEF Inv, TypeOK
<1>3. OpInv'
  BY <1>2 DEF Inv, OpInv
<1>4. MeasureInv' /\ ExpandInv' /\ RowsInv' /\ RebindInv'
  BY <1>2 DEF MeasureInv, ExpandInv, RowsInv, RebindInv
<1>5. InExpandsInPlace' /\ BindvarsMatchArgs' /\ GroupPerElement'
  BY <1>2 DEF InExpandsInPlace, BindvarsMatchArgs, GroupPerElement, Returned
<1>6. Verdict' = Verdict
  BY <1>2, VerdictSame
<1>7. RefusedForCause'
  BY <1>2, <1>6 DEF RefusedForCause, Verdict
<1> QED
  BY <1>1, <1>3, <1>4, <1>5, <1>7 DEF Inv

(* As long as a call runs, its properties say nothing. *)
LEMMA NotYet ==
    ASSUME pc' # "done"
    PROVE  InExpandsInPlace' /\ BindvarsMatchArgs' /\ GroupPerElement' /\ RefusedForCause'
  BY DEF InExpandsInPlace, BindvarsMatchArgs, GroupPerElement, RefusedForCause, Returned

LEMMA MeasureSteps ==
    ASSUME Inv, Measure \/ ValuerFails \/ PointerPanics \/ EmptySlice
    PROVE  Inv'
<1>1. /\ pc = "measure" /\ op = "in" /\ args \in Seq(InArgs) /\ ~numbers
      /\ arg \in 0..Len(args) - 1 /\ Sound(args, arg)
  <2>1. pc = "measure" /\ arg < Len(args)
    BY DEF Measure, ValuerFails, PointerPanics, EmptySlice
  <2>2. op = "in"
    BY <2>1 DEF Inv, TypeOK, OpInv
  <2>3. args \in Seq(InArgs) /\ ~numbers /\ arg \in Nat /\ Sound(args, arg)
    BY <2>1, <2>2 DEF Inv, TypeOK, OpInv, MeasureInv
  <2> QED
    BY <2>1, <2>2, <2>3
<1>2. CASE Measure
  <2>2. /\ pc' = "measure" /\ arg' = arg + 1
        /\ op' = op /\ query' = query /\ args' = args /\ numbers' = numbers
        /\ pointed' = pointed /\ compiles' = compiles
        /\ rest' = rest /\ offset' = offset /\ out' = out /\ newArgs' = newArgs /\ err' = err
    BY <1>1, <1>2 DEF Measure, input
  <2>1. TypeOK'
    BY <1>1, <2>2 DEF Inv, TypeOK
  <2>3. args[arg + 1] \notin {Pointer, Failing, 0}
    BY <1>2, BoundsAssumption, ArgumentAssumption DEF Measure
  <2>4. Sound(args, arg + 1)
    BY <1>1, <2>3 DEF Sound
  <2>5. MeasureInv'
    BY <1>1, <2>2, <2>4 DEF Inv, MeasureInv, Sound
  <2>6. OpInv' /\ ExpandInv' /\ RowsInv' /\ RebindInv'
    BY <1>1, <2>2 DEF Inv, OpInv, ExpandInv, RowsInv, RebindInv
  <2>7. InExpandsInPlace' /\ BindvarsMatchArgs' /\ GroupPerElement' /\ RefusedForCause'
    BY <2>2, NotYet
  <2> QED
    BY <2>1, <2>5, <2>6, <2>7 DEF Inv
<1>3. CASE ValuerFails
  BY <1>1, <1>3, BadVerdict, FailInv DEF ValuerFails, Verdict, Errors
<1>4. CASE PointerPanics
  BY <1>1, <1>4, BadVerdict, FailInv DEF PointerPanics, Verdict, Errors
<1>5. CASE EmptySlice
  BY <1>1, <1>5, BadVerdict, FailInv DEF EmptySlice, Verdict, Errors
<1> QED
  BY <1>2, <1>3, <1>4, <1>5
-----------------------------------------------------------------------------
(* In: the second loop. *)
LEMMA StartTypes ==
    ASSUME Inv, pc \in {"measure", "expand"}
    PROVE  /\ op = "in" /\ args \in Seq(InArgs) /\ ~numbers /\ query \in Seq(Tokens) /\ arg \in Nat
           /\ rest \in Seq(Tokens) /\ offset \in 0..Len(rest) /\ err = "none"
<1>1. op = "in"
  BY DEF Inv, TypeOK, OpInv
<1> QED
  BY <1>1 DEF Inv, TypeOK, OpInv

LEMMA StartStep ==
    ASSUME Inv, StartExpanding
    PROVE  Inv'
<1>1. /\ pc = "measure" /\ arg = Len(args) /\ AnySlices /\ arg' = 0 /\ pc' = "expand"
      /\ op' = op /\ query' = query /\ args' = args /\ numbers' = numbers
      /\ pointed' = pointed /\ compiles' = compiles
      /\ rest' = rest /\ offset' = offset /\ out' = out /\ newArgs' = newArgs /\ err' = err
  BY DEF StartExpanding, input
<1>2. /\ op = "in" /\ args \in Seq(InArgs) /\ ~numbers /\ query \in Seq(Tokens)
      /\ rest \in Seq(Tokens) /\ offset \in 0..Len(rest) /\ err = "none"
  BY <1>1, StartTypes
<1>3. rest = query /\ offset = 0 /\ out = <<>> /\ newArgs = <<>> /\ Sound(args, Len(args))
  BY <1>1 DEF Inv, MeasureInv
<1>4. TypeOK'
  BY <1>1 DEF Inv, TypeOK
<1>5. Written' = 0 /\ ReadUpTo' = 0
  BY <1>1, <1>2, <1>3 DEF Written, ReadUpTo
<1>6. SubSeq(query, 0 + 1, Len(query)) = query /\ SubSeq(query, 0 + 1, 0) = <<>>
  <2>1. SubSeq(query, 0 + 1, 0) = <<>>
    BY <1>2, SubSeqEmpty
  <2> QED
    BY <1>2, <2>1, SubSeqFull
<1>7. Grown(query, args, 0) = <<>> /\ PassedUpTo(args, 0) = <<>>
  BY <1>2, <1>3, GrownSteps, PassedSteps
<1>8. Nth(query, 0) = 0
  <2>1. SubSeq(query, 1, 0) = <<>>
    BY <1>2, SubSeqEmpty
  <2>2. CountQ(<<>>) = 0
    BY CountQs
  <2> QED
    BY <2>1, <2>2 DEF Nth
<1>9. Reading(query, args, 0, 0, <<>>)
  <2>1. <<>> \in Seq(Tokens) /\ <<>> \o <<>> = <<>> /\ 0 \in 0..Len(query)
    BY <1>2
  <2> QED
    BY <2>1, <1>6, <1>7 DEF Reading
<1>10. ExpandInv'
  <2>1. AnySlices' /\ Sound(args, Len(args))'
    BY <1>1, <1>3 DEF AnySlices, Sound
  <2>2. CountQ(<<>>) = 0 /\ Len(<<>>) = 0
    BY CountQs
  <2>3. rest' = SubSeq(query', Written' + 1, Len(query'))
    BY <1>1, <1>3, <1>5, <1>6
  <2>4. Reading(query', args', Written', ReadUpTo', out')
    BY <1>1, <1>3, <1>5, <1>9
  <2>5. arg' <= Len(args') /\ arg' = Nth(query', ReadUpTo')
    BY <1>1, <1>2, <1>5, <1>8
  <2>6. newArgs' = PassedUpTo(args', arg') /\ CountQ(Grown(query', args', ReadUpTo')) = Len(newArgs')
    BY <1>1, <1>3, <1>5, <1>7, <2>2
  <2> QED
    BY <2>1, <2>3, <2>4, <2>5, <2>6 DEF ExpandInv
<1>11. OpInv' /\ MeasureInv' /\ RowsInv' /\ RebindInv'
  BY <1>1, <1>2 DEF OpInv, MeasureInv, RowsInv, RebindInv
<1> QED
  BY <1>1, <1>4, <1>10, <1>11, NotYet DEF Inv

LEMMA NothingStep ==
    ASSUME Inv, NothingToExpand
    PROVE  Inv'
<1>1. /\ pc = "measure" /\ arg = Len(args) /\ ~AnySlices /\ out' = query /\ pc' = "done"
      /\ newArgs' = [k \in DOMAIN args |-> <<k, 0>>]
      /\ op' = op /\ query' = query /\ args' = args /\ numbers' = numbers
      /\ pointed' = pointed /\ compiles' = compiles
      /\ rest' = rest /\ offset' = offset /\ arg' = arg /\ err' = err
  BY DEF NothingToExpand, input
<1>2. /\ op = "in" /\ args \in Seq(InArgs) /\ ~numbers /\ query \in Seq(Tokens) /\ err = "none"
  BY <1>1, StartTypes
<1>3. TypeOK'
  <2>1. newArgs' \in Seq((1..Len(args')) \X Nat)
    <3> DEFINE P == (1..Len(args)) \X Nat
               x(k) == <<k, 0>>
    <3>1. \A k \in 1..Len(args) : x(k) \in P
      OBVIOUS
    <3>2. newArgs' = [k \in 1..Len(args) |-> x(k)] /\ Len(args) \in Nat
      BY <1>1, <1>2
    <3> HIDE DEF P, x
    <3>3. newArgs' \in Seq(P)
      BY <3>1, <3>2
    <3> QED
      BY <1>1, <3>3 DEF P
  <2>2. out' \in Seq(Tokens \cup Bindvars)
    BY <1>1, <1>2, SeqMonotonic, Tokens \subseteq Tokens \cup Bindvars
  <2> QED
    BY <1>1, <2>1, <2>2 DEF Inv, TypeOK
<1>4. OpInv' /\ MeasureInv' /\ ExpandInv' /\ RowsInv' /\ RebindInv'
  BY <1>1, <1>2 DEF OpInv, MeasureInv, ExpandInv, RowsInv, RebindInv
<1>5. InExpandsInPlace' /\ BindvarsMatchArgs' /\ GroupPerElement'
  <2>1. ~AnySlices'
    BY <1>1 DEF AnySlices
  <2> QED
    BY <1>1, <1>2, <2>1 DEF InExpandsInPlace, BindvarsMatchArgs, GroupPerElement, Returned
<1>6. RefusedForCause'
  <2>1. FirstBad = 0
    BY <1>1, <1>2, NoBad DEF Inv, MeasureInv
  <2>2. FirstBad' = 0
    BY <1>1, <2>1 DEF FirstBad, SelectInSeq
  <2>3. InVerdict' = "none"
    BY <1>1, <2>2 DEF InVerdict, AnySlices
  <2> QED
    BY <1>1, <1>2, <2>3 DEF RefusedForCause
<1> QED
  BY <1>3, <1>4, <1>5, <1>6 DEF Inv

LEMMA ExpandFacts ==
    ASSUME Inv, pc = "expand"
    PROVE  /\ Sound(args, Len(args)) /\ AnySlices /\ arg <= Len(args)
           /\ Reading(query, args, Written, ReadUpTo, out)
           /\ Written \in 0..Len(query) /\ ReadUpTo \in Written..Len(query)
           /\ ReadUpTo = Written + offset /\ Len(query) = Written + Len(rest)
           /\ arg = Nth(query, ReadUpTo)
           /\ \A j \in 1..Len(rest) : rest[j] = query[Written + j]
           /\ \A i \in 0..Len(rest) :
                 /\ SubSeq(rest, 1, i) = SubSeq(query, Written + 1, Written + i)
                 /\ SubSeq(rest, i + 1, Len(rest)) = SubSeq(query, Written + i + 1, Len(query))
<1>1. /\ query \in Seq(Tokens) /\ rest \in Seq(Tokens) /\ offset \in 0..Len(rest)
  BY StartTypes
<1>2. /\ Sound(args, Len(args)) /\ AnySlices /\ arg <= Len(args)
      /\ Reading(query, args, Written, ReadUpTo, out) /\ arg = Nth(query, ReadUpTo)
      /\ rest = SubSeq(query, Written + 1, Len(query))
  BY DEF Inv, ExpandInv
<1>3. /\ Written \in 0..Len(query) /\ ReadUpTo \in Written..Len(query)
      /\ ReadUpTo = Written + offset /\ Len(query) = Written + Len(rest)
  BY <1>1, <1>2 DEF Reading, Written, ReadUpTo
<1>4. /\ \A j \in 1..Len(rest) : rest[j] = query[Written + j]
      /\ \A i \in 0..Len(rest) :
            /\ SubSeq(rest, 1, i) = SubSeq(query, Written + 1, Written + i)
            /\ SubSeq(rest, i + 1, Len(rest)) = SubSeq(query, Written + i + 1, Len(query))
  <2> DEFINE w == Written
             t == rest
  <2>1. query \in Seq(Tokens) /\ w \in 0..Len(query) /\ t = SubSeq(query, w + 1, Len(query))
    BY <1>1, <1>2, <1>3
  <2> HIDE DEF w, t
  <2>2. /\ \A j \in 1..Len(t) : t[j] = query[w + j]
        /\ \A i \in 0..Len(t) :
              /\ SubSeq(t, 1, i) = SubSeq(query, w + 1, w + i)
              /\ SubSeq(t, i + 1, Len(t)) = SubSeq(query, w + i + 1, Len(query))
    BY <2>1, RestOf
  <2> QED
    BY <2>2 DEF w, t
<1> QED
  BY <1>2, <1>3, <1>4

(* The next bindvar to read. *)
LEMMA NextBindvar ==
    ASSUME Inv, pc = "expand", IndexQ(offset) # 0
    PROVE  LET i == Written + IndexQ(offset) IN
           /\ IndexQ(offset) \in 1..Len(rest)
           /\ i \in ReadUpTo + 1..Len(query) /\ query[i] = Q
           /\ \A j \in ReadUpTo + 1..i - 1 : query[j] # Q
           /\ Nth(query, i) = arg + 1 /\ CountQ(query) >= arg + 1
<1> DEFINE i == Written + IndexQ(offset)
           r == ReadUpTo
<1>1. /\ query \in Seq(Tokens) /\ rest \in Seq(Tokens) /\ offset \in 0..Len(rest)
  BY StartTypes
<1>2. /\ Written \in 0..Len(query) /\ r \in Written..Len(query)
      /\ r = Written + offset /\ Len(query) = Written + Len(rest)
      /\ arg = Nth(query, r)
      /\ \A j \in 1..Len(rest) : rest[j] = query[Written + j]
  BY ExpandFacts
<1>3. /\ IndexQ(offset) \in offset + 1..Len(rest) /\ rest[IndexQ(offset)] = Q
      /\ \A j \in offset + 1..IndexQ(offset) - 1 : rest[j] # Q
  BY <1>1, NextQ
<1>4. IndexQ(offset) \in 1..Len(rest) /\ i \in r + 1..Len(query) /\ query[i] = Q
  BY <1>1, <1>2, <1>3
<1>5. ASSUME NEW j \in r + 1..i - 1
      PROVE  query[j] # Q
  <2>0. /\ Written \in Nat /\ offset \in Nat /\ r = Written + offset
        /\ IndexQ(offset) \in Nat /\ Len(rest) \in Nat
        /\ IndexQ(offset) <= Len(rest)
    <3>1. Written \in Nat /\ offset \in Nat /\ r = Written + offset
      BY <1>1, <1>2
    <3>2. Len(rest) \in Nat
      BY <1>1
    <3> QED
      BY <1>3, <3>1, <3>2
  <2>1. j - Written \in offset + 1..IndexQ(offset) - 1 /\ j - Written \in 1..Len(rest)
    <3> HIDE DEF r
    <3> QED
      BY <2>0, SMTT(30) DEF i
  <2>2. rest[j - Written] # Q /\ rest[j - Written] = query[Written + (j - Written)]
    BY <1>2, <1>3, <2>1
  <2> QED
    BY <1>2, <2>2
<1>6. Nth(query, i) = arg + 1
  <2>1. i - 1 \in r..Len(query) /\ r \in 0..Len(query) /\ i \in 1..Len(query)
    BY <1>2, <1>4
  <2>2. Nth(query, i - 1) = Nth(query, r)
    BY <1>1, <1>5, <2>1, NthSame
  <2> QED
    BY <1>1, <1>2, <1>4, <2>1, <2>2, NthNext
<1>7. CountQ(query) >= arg + 1
  <2>1. i \in 0..Len(query) /\ Len(query) \in i..Len(query) /\ i \in Nat
    BY <1>2, <1>4
  <2>2. Nth(query, Len(query)) = Nth(query, i) + CountQ(SubSeq(query, i + 1, Len(query)))
    BY <1>1, <2>1, NthSame
  <2>3. CountQ(SubSeq(query, i + 1, Len(query))) \in Nat
    BY <1>1, <2>1, SpanType, CountQs
  <2>4. Nth(query, Len(query)) = CountQ(query)
    BY <1>1, SubSeqFull DEF Nth
  <2>5. arg \in Nat
    BY StartTypes
  <2> QED
    BY <1>6, <2>2, <2>3, <2>4, <2>5
<1> QED
  BY <1>4, <1>5, <1>6, <1>7

(* No bindvar is left to read. *)
LEMMA NoBindvar ==
    ASSUME Inv, pc = "expand", IndexQ(offset) = 0
    PROVE  /\ \A j \in ReadUpTo + 1..Len(query) : query[j] # Q
           /\ CountQ(query) = arg
<1>1. /\ query \in Seq(Tokens) /\ rest \in Seq(Tokens) /\ offset \in 0..Len(rest)
  BY StartTypes
<1>2. /\ Written \in 0..Len(query) /\ ReadUpTo \in Written..Len(query)
      /\ ReadUpTo = Written + offset /\ Len(query) = Written + Len(rest)
      /\ arg = Nth(query, ReadUpTo)
      /\ \A j \in 1..Len(rest) : rest[j] = query[Written + j]
  BY ExpandFacts
<1>3. \A j \in offset + 1..Len(rest) : rest[j] # Q
  BY <1>1, NextQ
<1>4. ASSUME NEW j \in ReadUpTo + 1..Len(query)
      PROVE  query[j] # Q
  <2>1. j - Written \in offset + 1..Len(rest) /\ j - Written \in 1..Len(rest)
    BY <1>1, <1>2
  <2>2. rest[j - Written] # Q /\ rest[j - Written] = query[Written + (j - Written)]
    BY <1>2, <1>3, <2>1
  <2> QED
    BY <1>2, <2>2
<1>5. Nth(query, Len(query)) = Nth(query, ReadUpTo)
  <2>1. ReadUpTo \in 0..Len(query) /\ Len(query) \in ReadUpTo..Len(query)
    BY <1>2
  <2> QED
    BY <1>1, <1>4, <2>1, NthSame
<1>6. Nth(query, Len(query)) = CountQ(query)
  BY <1>1, SubSeqFull DEF Nth
<1> QED
  BY <1>2, <1>4, <1>5, <1>6

(* What the bindvar after arg stands for, and the step that expands it. *)
LEMMA NextArgument ==
    ASSUME Inv, pc = "expand", arg < Len(args)
    PROVE  /\ arg + 1 \in 1..Len(args)
           /\ args[arg + 1] = Scalar =>
                 /\ Width(args, arg + 1) = 0 + 1
                 /\ Append(newArgs, <<arg + 1, 0>>) = PassedUpTo(args, arg + 1)
                 /\ Len(Append(newArgs, <<arg + 1, 0>>)) = Len(newArgs) + (0 + 1)
                 /\ Append(newArgs, <<arg + 1, 0>>) \in Seq((1..Len(args)) \X Nat)
           /\ \A n \in 1..MaxSlice : args[arg + 1] = n =>
                 LET more == [e \in 1..n |-> <<arg + 1, e>>] IN
                 /\ n - 1 \in Nat /\ Width(args, arg + 1) = (n - 1) + 1
                 /\ newArgs \o more = PassedUpTo(args, arg + 1)
                 /\ Len(newArgs \o more) = Len(newArgs) + ((n - 1) + 1)
                 /\ newArgs \o more \in Seq((1..Len(args)) \X Nat)
<1> DEFINE P == (1..Len(args)) \X Nat
           k == arg + 1
<1>1. args \in Seq(InArgs) /\ arg \in Nat /\ Sound(args, Len(args)) /\ k \in 1..Len(args)
  <2>1. args \in Seq(InArgs) /\ arg \in Nat
    BY StartTypes
  <2>2. Sound(args, Len(args))
    BY ExpandFacts
  <2>3. k \in 1..Len(args)
    BY <2>1
  <2> QED
    BY <2>1, <2>2, <2>3
<1>2. newArgs = PassedUpTo(args, arg) /\ newArgs \in Seq(P)
  BY DEF Inv, TypeOK, ExpandInv
<1>3. PassedUpTo(args, k) = newArgs \o Passed(args)[k]
  <2>1. k - 1 = arg
    BY <1>1
  <2> HIDE DEF k
  <2> QED
    BY <1>1, <1>2, <2>1, PassedSteps
<1>4. MaxSlice \in Nat
  BY BoundsAssumption
<1>5. \A e \in Nat : <<k, e>> \in P
  BY <1>1
<1>6. Passed(args)[k] = IF args[k] = Scalar THEN <<<<k, 0>>>> ELSE [e \in 1..args[k] |-> <<k, e>>]
  <2>1. k \in DOMAIN args
    BY <1>1
  <2> HIDE DEF k
  <2> QED
    BY <2>1 DEF Passed
<1>7. ASSUME args[k] = Scalar
      PROVE  /\ Width(args, k) = 0 + 1
             /\ Append(newArgs, <<k, 0>>) = PassedUpTo(args, k)
             /\ Len(Append(newArgs, <<k, 0>>)) = Len(newArgs) + (0 + 1)
             /\ Append(newArgs, <<k, 0>>) \in Seq(P)
  <2> DEFINE x == <<k, 0>>
  <2>1. Width(args, k) = 1
    BY <1>1, <1>7, Widths
  <2>2. x \in P
    BY <1>5
  <2>3. PassedUpTo(args, k) = newArgs \o <<x>>
    BY <1>3, <1>6, <1>7
  <2> HIDE DEF k, P, x
  <2>4. Append(newArgs, x) = newArgs \o <<x>>
    BY <1>2, <2>2
  <2>5. Append(newArgs, x) \in Seq(P) /\ Len(Append(newArgs, x)) = Len(newArgs) + 1
    BY <1>2, <2>2
  <2>6. /\ Width(args, k) = 0 + 1 /\ Append(newArgs, x) = PassedUpTo(args, k)
        /\ Len(Append(newArgs, x)) = Len(newArgs) + (0 + 1) /\ Append(newArgs, x) \in Seq(P)
    BY <2>1, <2>3, <2>4, <2>5
  <2> QED
    BY <2>6 DEF x
<1>8. ASSUME NEW n \in 1..MaxSlice, args[k] = n
      PROVE  /\ n - 1 \in Nat /\ Width(args, k) = (n - 1) + 1
             /\ newArgs \o [e \in 1..n |-> <<k, e>>] = PassedUpTo(args, k)
             /\ Len(newArgs \o [e \in 1..n |-> <<k, e>>]) = Len(newArgs) + ((n - 1) + 1)
             /\ newArgs \o [e \in 1..n |-> <<k, e>>] \in Seq(P)
  <2> DEFINE more == [e \in 1..n |-> <<k, e>>]
  <2>1. n \in Nat /\ n - 1 \in Nat /\ (n - 1) + 1 = n
    BY <1>4
  <2>2. Width(args, k) = n /\ args[k] # Scalar
    BY <1>1, <1>8, Widths
  <2>3. PassedUpTo(args, k) = newArgs \o more
    BY <1>3, <1>6, <1>8, <2>2
  <2>4. more \in Seq(P) /\ Len(more) = n
    <3> HIDE DEF P, k
    <3> QED
      BY <1>5, <2>1
  <2> HIDE DEF P, k, more
  <2>5. newArgs \o more \in Seq(P) /\ Len(newArgs \o more) = Len(newArgs) + n
    BY <1>2, <2>4, ConcatProperties
  <2> QED
    BY <2>1, <2>2, <2>3, <2>5 DEF more
<1> QED
  BY <1>1, <1>7, <1>8

(* A step of the second loop that goes on reading. *)
LEMMA GoOn ==
    ASSUME Inv, pc = "expand", pc' = "expand",
           op' = op, query' = query, args' = args, numbers' = numbers, err' = err,
           pointed' = pointed, compiles' = compiles,
           arg < Len(args), arg' = arg + 1,
           rest' \in Seq(Tokens), offset' \in 0..Len(rest'),
           newArgs' \in Seq((1..Len(args)) \X Nat),
           rest' = SubSeq(query, Written' + 1, Len(query)),
           Reading(query, args, Written', ReadUpTo', out'),
           arg + 1 = Nth(query, ReadUpTo'),
           newArgs' = PassedUpTo(args, arg + 1),
           CountQ(Grown(query, args, ReadUpTo')) = Len(newArgs')
    PROVE  Inv'
<1>1. op = "in" /\ args \in Seq(InArgs) /\ arg \in Nat /\ ~numbers /\ err = "none"
  BY StartTypes
<1>2. Sound(args, Len(args)) /\ AnySlices
  BY ExpandFacts
<1>3. TypeOK'
  <2>1. out' \in Seq(Tokens \cup Bindvars)
    <3>1. out' \in Seq(Tokens)
      BY DEF Reading
    <3> QED
      BY <3>1, SeqMonotonic, Tokens \subseteq Tokens \cup Bindvars
  <2>2. arg' \in Nat
    BY <1>1
  <2> QED
    BY <2>1, <2>2 DEF Inv, TypeOK
<1>4. ExpandInv'
  <2>1. AnySlices' /\ Sound(args, Len(args))'
    BY <1>2 DEF AnySlices, Sound
  <2>2. arg' <= Len(args')
    BY <1>1
  <2> QED
    BY <2>1, <2>2 DEF ExpandInv
<1>5. OpInv' /\ MeasureInv' /\ RowsInv' /\ RebindInv'
  BY <1>1 DEF OpInv, MeasureInv, RowsInv, RebindInv
<1> QED
  BY <1>3, <1>4, <1>5, NotYet DEF Inv

LEMMA KeepScalarStep ==
    ASSUME Inv, KeepScalar
    PROVE  Inv'
<1> DEFINE i == Written + IndexQ(offset)
           u == SubSeq(query, Written + 1, i)
<1>1. /\ pc = "expand" /\ IndexQ(offset) # 0 /\ arg < Len(args) /\ args[arg + 1] = Scalar
      /\ arg' = arg + 1 /\ offset' = IndexQ(offset) /\ newArgs' = Append(newArgs, <<arg + 1, 0>>)
      /\ op' = op /\ query' = query /\ args' = args /\ numbers' = numbers
      /\ pointed' = pointed /\ compiles' = compiles
      /\ pc' = pc /\ rest' = rest /\ out' = out /\ err' = err
  BY DEF KeepScalar, input
<1>2. query \in Seq(Tokens) /\ args \in Seq(InArgs) /\ rest \in Seq(Tokens)
  BY <1>1, StartTypes
<1>3. /\ Sound(args, Len(args)) /\ Reading(query, args, Written, ReadUpTo, out)
      /\ Written \in 0..Len(query) /\ ReadUpTo \in Written..Len(query)
      /\ arg = Nth(query, ReadUpTo)
  BY <1>1, ExpandFacts
<1>4. /\ IndexQ(offset) \in 1..Len(rest)
      /\ i \in ReadUpTo + 1..Len(query) /\ query[i] = Q
      /\ \A j \in ReadUpTo + 1..i - 1 : query[j] # Q
      /\ Nth(query, i) = arg + 1
  BY <1>1, NextBindvar
<1>5. /\ Width(args, arg + 1) = 0 + 1 /\ newArgs' = PassedUpTo(args, arg + 1)
      /\ Len(newArgs') = Len(newArgs) + (0 + 1) /\ newArgs' \in Seq((1..Len(args)) \X Nat)
  BY <1>1, NextArgument
<1>6. /\ (out \o u) \o MoreQs(0) = Grown(query, args, i)
      /\ CountQ(Grown(query, args, i)) = CountQ(Grown(query, args, ReadUpTo)) + (0 + 1)
  <2>1. Widens(args, query, ReadUpTo, 0)
    BY <1>3, <1>5 DEF Widens
  <2>2. IsNextQ(query, ReadUpTo, i)
    BY <1>4 DEF IsNextQ
  <2> HIDE DEF i, u
  <2>3. /\ (out \o Span(query, Written, i)) \o MoreQs(0) = Grown(query, args, i)
        /\ CountQ(Grown(query, args, i)) = CountQ(Grown(query, args, ReadUpTo)) + (0 + 1)
    BY <1>2, <1>3, <2>1, <2>2, ReadQ
  <2> QED
    BY <2>3 DEF u, Span
<1>7. CountQ(Grown(query, args, ReadUpTo)) = Len(newArgs)
  BY <1>1 DEF Inv, ExpandInv
<1>8. Written' = Written /\ ReadUpTo' = i
  BY <1>1 DEF Written, ReadUpTo
<1>9. Reading(query, args, Written, i, out)
  <2>1. MoreQs(0) = <<>>
    <3>1. [e \in 1..0 |-> <<Comma, Q>>] = <<>>
      OBVIOUS
    <3> QED
      BY <3>1 DEF FlattenSeq, MoreQs
  <2>2. out \in Seq(Tokens) /\ i \in Written..Len(query) /\ Written \in Nat
    BY <1>3, <1>4 DEF Reading
  <2>3. out \o u \in Seq(Tokens)
    <3>1. Written \in 0..Len(query)
      BY <1>3
    <3>2. u \in Seq(Tokens)
      <4> HIDE DEF i
      <4> QED
        BY <1>2, <2>2, <3>1, SpanType
    <3> HIDE DEF u
    <3> QED
      BY <2>2, <3>2, ConcatProperties
  <2>4. (out \o u) \o <<>> = out \o u
    <3> HIDE DEF u
    <3> QED
      BY <2>3
  <2> QED
    BY <1>6, <2>1, <2>2, <2>4 DEF Reading
<1>10. rest' = SubSeq(query, Written' + 1, Len(query))
  BY <1>1, <1>8 DEF Inv, ExpandInv
<1> HIDE DEF i
<1>11. offset' \in 0..Len(rest') /\ rest' \in Seq(Tokens)
  BY <1>1, <1>2, <1>4
<1> QED
  BY <1>1, <1>4, <1>5, <1>6, <1>7, <1>8, <1>9, <1>10, <1>11, GoOn

LEMMA ExpandSliceStep ==
    ASSUME Inv, ExpandSlice
    PROVE  Inv'
<1> DEFINE w == Written
           p == IndexQ(offset)
           i == w + p
           n == args[arg + 1]
           m == n - 1
           f == MoreQs(m)
           u == SubSeq(query, w + 1, i)
<1>1. /\ pc = "expand" /\ p # 0 /\ arg < Len(args) /\ n \in 1..MaxSlice
      /\ arg' = arg + 1 /\ offset' = 0 /\ newArgs' = newArgs \o [e \in 1..n |-> <<arg + 1, e>>]
      /\ out' = (out \o SubSeq(rest, 1, p)) \o f
      /\ rest' = SubSeq(rest, p + 1, Len(rest))
      /\ op' = op /\ query' = query /\ args' = args /\ numbers' = numbers
      /\ pointed' = pointed /\ compiles' = compiles
      /\ pc' = pc /\ err' = err
  BY DEF ExpandSlice, ExpandTo, input, MoreQs
<1>2. query \in Seq(Tokens) /\ args \in Seq(InArgs) /\ rest \in Seq(Tokens)
  BY <1>1, StartTypes
<1>3. /\ Sound(args, Len(args)) /\ Reading(query, args, w, ReadUpTo, out)
      /\ w \in 0..Len(query) /\ ReadUpTo \in w..Len(query) /\ arg = Nth(query, ReadUpTo)
      /\ Len(query) = w + Len(rest)
  BY <1>1, ExpandFacts
<1>4. /\ p \in 1..Len(rest)
      /\ i \in ReadUpTo + 1..Len(query) /\ query[i] = Q
      /\ \A j \in ReadUpTo + 1..i - 1 : query[j] # Q
      /\ Nth(query, i) = arg + 1
  BY <1>1, NextBindvar
<1>5. /\ m \in Nat /\ Width(args, arg + 1) = m + 1 /\ newArgs' = PassedUpTo(args, arg + 1)
      /\ Len(newArgs') = Len(newArgs) + (m + 1) /\ newArgs' \in Seq((1..Len(args)) \X Nat)
  BY <1>1, NextArgument
<1>s. SubSeq(rest, 1, p) = u /\ rest' = SubSeq(query, i + 1, Len(query))
  <2>1. p \in 0..Len(rest)
    BY <1>4
  <2> QED
    BY <1>1, <2>1, ExpandFacts
<1>6. /\ (out \o u) \o f = Grown(query, args, i)
      /\ CountQ(Grown(query, args, i)) = CountQ(Grown(query, args, ReadUpTo)) + (m + 1)
  <2>1. Widens(args, query, ReadUpTo, m)
    BY <1>3, <1>5 DEF Widens
  <2>2. IsNextQ(query, ReadUpTo, i)
    BY <1>4 DEF IsNextQ
  <2> HIDE DEF i, m, w, u, f
  <2>3. /\ (out \o Span(query, w, i)) \o MoreQs(m) = Grown(query, args, i)
        /\ CountQ(Grown(query, args, i)) = CountQ(Grown(query, args, ReadUpTo)) + (m + 1)
    BY <1>2, <1>3, <2>1, <2>2, ReadQ
  <2> QED
    BY <2>3 DEF u, Span, f
<1>7. CountQ(Grown(query, args, ReadUpTo)) = Len(newArgs)
  BY <1>1 DEF Inv, ExpandInv
<1> HIDE DEF p, m, f, u
<1>r. i \in 0..Len(query)
  BY <1>3, <1>4
<1>8. rest' \in Seq(Tokens) /\ Len(rest') = Len(query) - i
  <2> HIDE DEF i
  <2>1. Len(query) \in i..Len(query)
    BY <1>r
  <2> QED
    BY <1>2, <1>s, <1>r, <2>1, SpanType
<1>9. Written' = i /\ ReadUpTo' = i
  BY <1>1, <1>2, <1>8, <1>r DEF Written, ReadUpTo
<1>10. Reading(query, args, i, i, out')
  <2>1. out' = Grown(query, args, i)
    BY <1>1, <1>s, <1>6
  <2> HIDE DEF i
  <2>2. out' \in Seq(Tokens)
    BY <1>2, <1>3, <1>r, <2>1, GrownSteps
  <2>3. SubSeq(query, i + 1, i) = <<>> /\ i \in Nat /\ i \in i..Len(query)
    BY <1>2, <1>r, SubSeqEmpty
  <2>4. out' \o <<>> = out'
    BY <2>2
  <2> QED
    BY <2>1, <2>2, <2>3, <2>4 DEF Reading
<1>11. offset' \in 0..Len(rest')
  BY <1>1, <1>8
<1> HIDE DEF i
<1> QED
  BY <1>1, <1>s, <1>4, <1>5, <1>6, <1>7, <1>8, <1>9, <1>10, <1>11, GoOn

LEMMA TooManyStep ==
    ASSUME Inv, TooManyBindvars
    PROVE  Inv'
<1>1. pc = "expand" /\ IndexQ(offset) # 0 /\ arg >= Len(args)
  BY DEF TooManyBindvars
<1>f. Fail("too many bindvars")
  BY DEF TooManyBindvars
<1>2. op = "in" /\ args \in Seq(InArgs) /\ query \in Seq(Tokens) /\ arg \in Nat
  BY <1>1, StartTypes
<1>3. AnySlices /\ FirstBad = 0
  BY <1>1, <1>2, ExpandFacts, NoBad
<1>4. CountQ(query) >= arg + 1 /\ CountQ(query) \in Nat
  BY <1>1, <1>2, NextBindvar, CountQs
<1>5. InVerdict = "too many bindvars"
  <2>1. CountQ(query) # Len(args) /\ CountQ(query) > Len(args)
    BY <1>1, <1>2, <1>4
  <2> QED
    BY <1>3, <2>1, Zenon DEF InVerdict
<1> QED
  BY <1>2, <1>5, <1>f, FailInv DEF Verdict, Errors

LEMMA TooFewStep ==
    ASSUME Inv, TooFewBindvars
    PROVE  Inv'
<1>1. pc = "expand" /\ IndexQ(offset) = 0 /\ arg < Len(args)
  BY DEF TooFewBindvars
<1>f. Fail("too few bindvars")
  BY DEF TooFewBindvars
<1>2. op = "in" /\ args \in Seq(InArgs) /\ query \in Seq(Tokens) /\ arg \in Nat
  BY <1>1, StartTypes
<1>3. AnySlices /\ FirstBad = 0
  BY <1>1, <1>2, ExpandFacts, NoBad
<1>4. CountQ(query) = arg
  BY <1>1, NoBindvar
<1>5. InVerdict = "too few bindvars"
  <2>1. CountQ(query) # Len(args) /\ ~(CountQ(query) > Len(args))
    BY <1>1, <1>2, <1>4
  <2> QED
    BY <1>3, <2>1, Zenon DEF InVerdict
<1> QED
  BY <1>2, <1>5, <1>f, FailInv DEF Verdict, Errors

LEMMA ReturnInStep ==
    ASSUME Inv, ReturnIn
    PROVE  Inv'
<1>1. /\ pc = "expand" /\ IndexQ(offset) = 0 /\ arg >= Len(args)
      /\ out' = out \o rest /\ pc' = "done"
      /\ op' = op /\ query' = query /\ args' = args /\ numbers' = numbers
      /\ pointed' = pointed /\ compiles' = compiles
      /\ rest' = rest /\ offset' = offset /\ arg' = arg /\ newArgs' = newArgs /\ err' = err
  BY DEF ReturnIn, input
<1>2. /\ op = "in" /\ args \in Seq(InArgs) /\ ~numbers /\ query \in Seq(Tokens) /\ arg \in Nat
      /\ err = "none"
  BY <1>1, StartTypes
<1>3. /\ Sound(args, Len(args)) /\ AnySlices /\ arg = Len(args)
      /\ Reading(query, args, Written, ReadUpTo, out)
      /\ Written \in 0..Len(query) /\ ReadUpTo \in Written..Len(query)
  BY <1>1, <1>2, ExpandFacts
<1>4. /\ NoQ(query, ReadUpTo, Len(query)) /\ CountQ(query) = Len(args)
  BY <1>1, <1>3, NoBindvar DEF NoQ
<1>5. /\ newArgs = PassedUpTo(args, Len(args)) /\ rest = SubSeq(query, Written + 1, Len(query))
      /\ CountQ(Grown(query, args, ReadUpTo)) = Len(newArgs)
  BY <1>1, <1>3 DEF Inv, ExpandInv
<1>6. /\ Reading(query, args, Written, Len(query), out)
      /\ CountQ(Grown(query, args, Len(query))) = Len(newArgs)
  <2> DEFINE b == Len(query)
  <2>1. b \in ReadUpTo..Len(query) /\ NoQ(query, ReadUpTo, b)
    BY <1>3, <1>4
  <2> HIDE DEF b
  <2>2. Reading(query, args, Written, b, out)
    BY <1>2, <1>3, <2>1, ReadSame
  <2>3. CountQ(Grown(query, args, b)) = CountQ(Grown(query, args, ReadUpTo))
    BY <1>2, <1>3, <2>1, ReadSame, Zenon
  <2> QED
    BY <1>5, <2>2, <2>3 DEF b
<1>7. out' = Grown(query, args, Len(query)) /\ out' \in Seq(Tokens)
  <2>1. Len(query) \in 0..Len(query)
    BY <1>2
  <2>2. Grown(query, args, Len(query)) \in Seq(Tokens)
    BY <1>2, <1>3, <2>1, GrownSteps
  <2> QED
    BY <1>1, <1>5, <1>6, <2>2 DEF Reading
<1>8. out' = FlattenSeq(Expanded(query, args)) /\ newArgs = FlattenSeq(Passed(args))
  BY <1>2, <1>3, <1>5, <1>7, GrownSteps, PassedSteps
<1>9. TypeOK'
  <2>1. out' \in Seq(Tokens \cup Bindvars)
    BY <1>7, SeqMonotonic, Tokens \subseteq Tokens \cup Bindvars
  <2> QED
    BY <1>1, <2>1 DEF Inv, TypeOK
<1>10. OpInv' /\ MeasureInv' /\ ExpandInv' /\ RowsInv' /\ RebindInv'
  BY <1>1, <1>2 DEF OpInv, MeasureInv, ExpandInv, RowsInv, RebindInv
<1>11. InExpandsInPlace' /\ GroupPerElement'
  BY <1>1, <1>2, <1>8 DEF InExpandsInPlace, GroupPerElement, Returned
<1>12. BindvarsMatchArgs'
  <2>1. Bound' = Where(out', {Q}) /\ \A i \in Bound' : out'[i] = Q
    <3>1. \A i \in DOMAIN out' : out'[i] \in Tokens
      BY <1>7
    <3>2. \A t \in Tokens : t \in Bindvars <=> t = Q
      BY TokensAndBindvars
    <3> QED
      BY <3>1, <3>2 DEF Bound, Where
  <2>2. Cardinality(Bound') = Len(newArgs)
    <3>1. CountQ(out') = Len(newArgs)
      BY <1>6, <1>7
    <3> QED
      BY <2>1, <3>1 DEF CountQ, Count
  <2> QED
    BY <1>1, <1>2, <2>1, <2>2 DEF BindvarsMatchArgs
<1>13. RefusedForCause'
  <2>1. FirstBad = 0
    BY <1>2, <1>3, NoBad
  <2>2. InVerdict = "none"
    BY <1>4, <2>1 DEF InVerdict
  <2>3. InVerdict' = "none"
    BY <1>1, <2>2, VerdictSame
  <2> QED
    BY <1>1, <1>2, <2>3 DEF RefusedForCause
<1> QED
  BY <1>9, <1>10, <1>11, <1>12, <1>13 DEF Inv
-----------------------------------------------------------------------------
(* bindArray: the elements. *)
LEMMA RowsFacts ==
    ASSUME Inv, pc = "rows"
    PROVE  /\ op = "array" /\ query \in Seq(Tokens) /\ args \in Seq(Elements) /\ err = "none"
           /\ rest = query /\ offset = 0 /\ out = <<>> /\ arg \in 0..Len(args)
           /\ (\A k \in 1..arg : args[k] = Whole) /\ Len(newArgs) = arg * CountQ(query)
           /\ CountQ(query) \in Nat /\ (CountQ(query) = 0 <=> Qs = {})
           /\ numbers \in BOOLEAN
<1>1. op = "array"
  BY DEF Inv, TypeOK, OpInv
<1>2. query \in Seq(Tokens) /\ args \in Seq(Elements) /\ err = "none" /\ arg \in Nat /\ numbers \in BOOLEAN
  BY <1>1 DEF Inv, TypeOK, OpInv
<1>3. /\ rest = query /\ offset = 0 /\ out = <<>> /\ arg <= Len(args)
      /\ (\A k \in 1..arg : args[k] = Whole) /\ Len(newArgs) = arg * CountQ(query)
  BY DEF Inv, RowsInv
<1>4. CountQ(query) \in Nat /\ (CountQ(query) = 0 <=> Qs = {})
  <2>1. Qs = {} <=> \A i \in DOMAIN query : query[i] # Q
    BY DEF Qs, Where
  <2> QED
    BY <1>2, <2>1, CountQs
<1>5. arg \in 0..Len(args)
  BY <1>2, <1>3
<1> QED
  BY <1>1, <1>2, <1>3, <1>4, <1>5

(* The first element with anything wrong. *)
LEMMA FirstBadElementIs ==
    ASSUME args \in Seq(Elements), NEW n \in 0..Len(args), \A k \in 1..n : args[k] = Whole
    PROVE  /\ n = Len(args) => FirstBadElement = 0
           /\ n < Len(args) /\ args[n + 1] # Whole => FirstBadElement = n + 1
<1> DEFINE T == {i \in 1..Len(args) : args[i] # Whole}
<1>1. FirstBadElement = IF T # {} THEN Min(T) ELSE 0
  BY DEF FirstBadElement, SelectInSeq
<1>2. n = Len(args) => T = {}
  OBVIOUS
<1>3. ASSUME n < Len(args), args[n + 1] # Whole
      PROVE  T # {} /\ Min(T) = n + 1
  <2>1. n + 1 \in T /\ \A i \in T : n + 1 <= i
    BY <1>3
  <2>2. Len(args) \in Nat /\ T \in SUBSET (1..Len(args)) /\ T # {}
    BY <2>1
  <2>0. \A i \in T : i \in Nat
    OBVIOUS
  <2> HIDE DEF T
  <2>3. Min(T) \in T /\ \A i \in T : Min(T) <= i
    BY <2>2, FirstPlace
  <2>4. PICK m \in T : m = Min(T)
    BY <2>3, Zenon
  <2>5. m \in Nat /\ m <= n + 1 /\ n + 1 <= m
    BY <2>0, <2>1, <2>3, <2>4
  <2>6. Min(T) = n + 1
    BY <2>4, <2>5
  <2> QED
    BY <2>2, <2>6
<1> QED
  BY <1>1, <1>2, <1>3

(* What is refused before the loop. *)
LEMMA RefusedSteps ==
    ASSUME Inv, NotAnArray \/ EmptyArray \/ CompileFails \/ NoNames
    PROVE  Inv'
<1>1. pc = "rows"
  BY DEF NotAnArray, EmptyArray, CompileFails, NoNames
<1>2. op = "array" /\ (CountQ(query) = 0 <=> Qs = {})
  BY <1>1, RowsFacts
<1>3. CASE NotAnArray
  BY <1>2, <1>3, FailInv DEF NotAnArray, Verdict, ArrayVerdict, Errors
<1>4. CASE EmptyArray
  BY <1>2, <1>4, FailInv DEF EmptyArray, Verdict, ArrayVerdict, Errors
<1>5. CASE CompileFails
  BY <1>2, <1>5, FailInv DEF CompileFails, Verdict, ArrayVerdict, Errors
<1>6. CASE NoNames
  BY <1>2, <1>6, FailInv DEF NoNames, Verdict, ArrayVerdict, Errors
<1> QED
  BY <1>3, <1>4, <1>5, <1>6

(* What ends the loop. *)
LEMMA BadElementSteps ==
    ASSUME Inv, NameMissing \/ NilPanics
    PROVE  Inv'
<1>1. /\ pc = "rows" /\ arg < Len(args) /\ CountQ(query) > 0 /\ ~pointed /\ compiles
      /\ args[arg + 1] \in {Lacking, NilPointer}
  BY DEF NameMissing, NilPanics, ReadsOn, InLoop
<1>2. /\ op = "array" /\ args \in Seq(Elements) /\ arg \in 0..Len(args) /\ Qs # {}
      /\ \A k \in 1..arg : args[k] = Whole
  <2>1. CountQ(query) # 0
    BY <1>1, RowsFacts
  <2> QED
    BY <1>1, <2>1, RowsFacts
<1>3. Lacking # Whole /\ NilPointer # Whole /\ NilPointer # Lacking
  BY ArgumentAssumption
<1>4. FirstBadElement = arg + 1 /\ arg + 1 # 0 /\ args # <<>>
  BY <1>1, <1>2, <1>3, FirstBadElementIs
<1>5. Verdict = IF args[arg + 1] = Lacking THEN "missing name" ELSE "panic"
  BY <1>1, <1>2, <1>4 DEF Verdict, ArrayVerdict
<1>6. CASE NameMissing
  <2>1. args[arg + 1] = Lacking /\ Fail("missing name")
    BY <1>6 DEF NameMissing
  <2> QED
    BY <1>5, <2>1, FailInv DEF Errors
<1>7. CASE NilPanics
  <2>1. args[arg + 1] = NilPointer /\ Fail("panic")
    BY <1>7 DEF NilPanics
  <2> QED
    BY <1>3, <1>5, <2>1, FailInv DEF Errors
<1> QED
  BY <1>6, <1>7

LEMMA ReadElementStep ==
    ASSUME Inv, ReadElement
    PROVE  Inv'
<1> DEFINE c == CountQ(query)
           row == [e \in 1..c |-> <<arg + 1, e>>]
           P == (1..Len(args)) \X Nat
<1>1. /\ pc = "rows" /\ arg < Len(args) /\ args[arg + 1] = Whole
      /\ newArgs' = newArgs \o row /\ arg' = arg + 1
      /\ op' = op /\ query' = query /\ args' = args /\ numbers' = numbers
      /\ pointed' = pointed /\ compiles' = compiles
      /\ pc' = pc /\ rest' = rest /\ offset' = offset /\ out' = out /\ err' = err
  BY DEF ReadElement, ReadsOn, InLoop, Row, input
<1>2. /\ op = "array" /\ args \in Seq(Elements) /\ err = "none"
      /\ rest = query /\ offset = 0 /\ out = <<>> /\ arg \in 0..Len(args)
      /\ (\A k \in 1..arg : args[k] = Whole) /\ Len(newArgs) = arg * c /\ c \in Nat
  BY <1>1, RowsFacts
<1>3. newArgs' \in Seq(P) /\ Len(newArgs') = (arg + 1) * c
  <2>1. newArgs \in Seq(P)
    BY DEF Inv, TypeOK
  <2>2. row \in Seq(P) /\ Len(row) = c
    <3>1. \A e \in 1..c : <<arg + 1, e>> \in P
      BY <1>1, <1>2
    <3> HIDE DEF P, c
    <3> QED
      BY <1>2, <3>1
  <2>3. (arg + 1) * c = arg * c + c
    <3> HIDE DEF c
    <3> QED
      BY <1>2
  <2> HIDE DEF P, c, row
  <2>4. newArgs \o row \in Seq(P) /\ Len(newArgs \o row) = Len(newArgs) + Len(row)
    BY <2>1, <2>2, ConcatProperties
  <2> QED
    BY <1>1, <1>2, <2>2, <2>3, <2>4
<1>4. TypeOK'
  <2>1. arg' \in Nat
    BY <1>1, <1>2
  <2> QED
    BY <1>1, <1>3, <2>1 DEF Inv, TypeOK
<1>5. RowsInv'
  <2>1. arg' <= Len(args') /\ \A k \in 1..arg' : args'[k] = Whole
    BY <1>1, <1>2
  <2> QED
    BY <1>1, <1>2, <1>3, <2>1 DEF RowsInv
<1>6. OpInv' /\ MeasureInv' /\ ExpandInv' /\ RebindInv'
  BY <1>1, <1>2 DEF OpInv, MeasureInv, ExpandInv, RebindInv
<1> QED
  BY <1>1, <1>4, <1>5, <1>6, NotYet DEF Inv

(* The parentheses around the bindvars. *)
LEMMA Outermost ==
    ASSUME query \in Seq(Tokens), Qs # {}
    PROVE  /\ FirstQ \in Qs /\ \A j \in Qs : FirstQ <= j
           /\ LastQ \in Qs /\ \A j \in Qs : LastQ >= j
           /\ Qs \subseteq 1..Len(query)
<1>1. Qs \in SUBSET (1..Len(query))
  BY CountType DEF Qs
<1>2. Min(Qs) \in Qs /\ \A k \in Qs : Min(Qs) <= k
  <2>1. Len(query) \in Nat
    OBVIOUS
  <2> QED
    BY <1>1, <2>1, FirstPlace
<1>3. Max(Qs) \in Qs /\ \A k \in Qs : Max(Qs) >= k
  <2>1. Len(query) \in Nat
    OBVIOUS
  <2> QED
    BY <1>1, <2>1, LastPlace
<1>4. FirstQ \in Qs /\ \A j \in Qs : FirstQ <= j
  BY <1>2 DEF FirstQ
<1>5. LastQ \in Qs /\ \A j \in Qs : LastQ >= j
  BY <1>3 DEF LastQ
<1> QED
  BY <1>1, <1>4, <1>5

LEMMA OpenPIs ==
    ASSUME query \in Seq(Tokens), Qs # {}
    PROVE  /\ OpenP # 0 => /\ OpenP \in 1..FirstQ /\ query[OpenP] = Open
                           /\ \A j \in OpenP + 1..FirstQ : query[j] # Open
           /\ OpenP = 0 => \A j \in 1..FirstQ : query[j] # Open
<1> DEFINE s == SubSeq(query, 1, FirstQ)
           I == {i \in 1..Len(s) : s[i] = Open}
<1>1. FirstQ \in 1..Len(query)
  BY Outermost
<1>2. Len(s) = FirstQ /\ \A j \in 1..FirstQ : s[j] = query[j]
  <2>1. FirstQ \in 0..Len(query)
    BY <1>1
  <2> QED
    BY <2>1, PrefixType
<1>3. OpenP = IF I # {} THEN Max(I) ELSE 0
  BY DEF OpenP, SelectLastInSeq
<1> HIDE DEF s
<1>4. I \in SUBSET (1..FirstQ) /\ FirstQ \in Nat
  BY <1>1, <1>2
<1>5. \A i \in 1..FirstQ : i \in I <=> query[i] = Open
  BY <1>2
<1> HIDE DEF I
<1>6. I # {} => Max(I) \in I /\ \A k \in I : Max(I) >= k
  BY <1>4, LastPlace
<1>7. CASE I = {}
  BY <1>3, <1>5, <1>7
<1>8. CASE I # {}
  <2> DEFINE m == Max(I)
  <2>1. m \in I /\ (\A k \in I : m >= k) /\ OpenP = m
    BY <1>3, <1>6, <1>8
  <2> HIDE DEF m
  <2>2. m \in 1..FirstQ /\ query[m] = Open
    BY <1>4, <1>5, <2>1
  <2>3. \A j \in m + 1..FirstQ : query[j] # Open
    BY <1>4, <1>5, <2>1, <2>2
  <2> QED
    BY <2>1, <2>2, <2>3
<1> QED
  BY <1>7, <1>8

LEMMA ClosePIs ==
    ASSUME query \in Seq(Tokens), Qs # {}
    PROVE  /\ CloseP # 0 => /\ CloseP \in LastQ..Len(query) /\ query[CloseP] = Close
                            /\ \A j \in LastQ..CloseP - 1 : query[j] # Close
           /\ CloseP = 0 => \A j \in LastQ..Len(query) : query[j] # Close
<1> DEFINE l == LastQ
           s == SubSeq(query, l, Len(query))
           n == Len(query) - l + 1
           I == {i \in 1..Len(s) : s[i] = Close}
           c == IF I # {} THEN Min(I) ELSE 0
<1>1. l \in 1..Len(query)
  BY Outermost
<1>2. Len(s) = n /\ n \in Nat /\ \A j \in 1..n : s[j] = query[l + j - 1]
  <2> HIDE DEF l
  <2>1. l - 1 \in 0..Len(query) /\ Len(query) \in l - 1..Len(query) /\ (l - 1) + 1 = l
    BY <1>1
  <2>2. /\ Len(SubSeq(query, (l - 1) + 1, Len(query))) = Len(query) - (l - 1)
        /\ \A j \in 1..Len(query) - (l - 1) :
              SubSeq(query, (l - 1) + 1, Len(query))[j] = query[(l - 1) + j]
    BY <2>1, SpanType
  <2>3. Len(query) - (l - 1) = n /\ n \in Nat /\ \A j \in 1..n : (l - 1) + j = l + j - 1
    BY <1>1
  <2> QED
    BY <2>1, <2>2, <2>3
<1>3. CloseP = IF c = 0 THEN 0 ELSE l + c - 1
  BY DEF CloseP, SelectInSeq
<1> HIDE DEF s
<1>4. I \in SUBSET (1..n)
  BY <1>2
<1>5. \A i \in 1..n : i \in I <=> query[l + i - 1] = Close
  BY <1>2
<1>6. \A j \in l..Len(query) : j - l + 1 \in 1..n /\ l + (j - l + 1) - 1 = j
  <2> HIDE DEF l
  <2> QED
    BY <1>1
<1> HIDE DEF I
<1>7. I # {} => Min(I) \in I /\ \A k \in I : Min(I) <= k
  <2> HIDE DEF n
  <2> QED
    BY <1>2, <1>4, FirstPlace
<1>8. CASE I = {}
  <2>1. CloseP = 0
    BY <1>3, <1>8
  <2>2. \A j \in l..Len(query) : query[j] # Close
    <3> HIDE DEF l, n
    <3> QED
      BY <1>5, <1>6, <1>8
  <2> QED
    BY <2>1, <2>2
<1>9. CASE I # {}
  <2> DEFINE m == Min(I)
  <2>1. m \in I /\ (\A k \in I : m <= k) /\ c = m
    BY <1>7, <1>9
  <2> HIDE DEF m, c, l
  <2>2. m \in 1..n /\ query[l + m - 1] = Close
    BY <1>4, <1>5, <2>1
  <2>3. CloseP = l + m - 1 /\ CloseP \in l..Len(query) /\ CloseP # 0
    BY <1>1, <1>3, <2>1, <2>2
  <2>4. ASSUME NEW j \in l..CloseP - 1
        PROVE  query[j] # Close
    <3>1. j - l + 1 \in 1..n /\ l + (j - l + 1) - 1 = j /\ j - l + 1 < m
      BY <1>1, <2>2, <2>3
    <3>2. j - l + 1 \notin I
      <4> DEFINE k == j - l + 1
      <4>1. k < m /\ k \in Int /\ m \in Int
        BY <1>1, <2>2, <3>1
      <4> HIDE DEF k
      <4>2. k \notin I
        BY <2>1, <4>1
      <4> QED
        BY <4>2 DEF k
    <3> QED
      BY <1>5, <3>1, <3>2
  <2> QED
    BY <2>2, <2>3, <2>4 DEF l
<1> QED
  BY <1>8, <1>9

LEMMA ReadAll ==
    ASSUME Inv, AllRead
    PROVE  /\ pc = "rows" /\ arg = Len(args) /\ Len(args) \in Nat \ {0} /\ Qs # {}
           /\ ArrayVerdict = IF Enclosed THEN "none" ELSE "no parentheses"
<1>1. /\ pc = "rows" /\ arg > 0 /\ arg = Len(args) /\ CountQ(query) > 0
      /\ ~pointed /\ compiles
  BY DEF AllRead, InLoop
<1>2. /\ args \in Seq(Elements) /\ Qs # {} /\ \A k \in 1..arg : args[k] = Whole
  <2>1. CountQ(query) # 0
    BY <1>1, RowsFacts
  <2> QED
    BY <1>1, <2>1, RowsFacts
<1>3. Len(args) \in Nat \ {0} /\ args # <<>>
  BY <1>1, <1>2
<1>4. FirstBadElement = 0
  BY <1>1, <1>2, <1>3, FirstBadElementIs
<1> QED
  BY <1>1, <1>2, <1>3, <1>4, Zenon DEF ArrayVerdict

LEMMA EnclosedIs ==
    ASSUME query \in Seq(Tokens), Qs # {}
    PROVE  Enclosed <=> OpenP # 0 /\ CloseP # 0
<1>1. /\ FirstQ \in Qs /\ (\A j \in Qs : FirstQ <= j) /\ LastQ \in Qs /\ (\A j \in Qs : LastQ >= j)
      /\ Qs \subseteq 1..Len(query) /\ query[FirstQ] = Q /\ query[LastQ] = Q
  BY Outermost DEF Qs, Where
<1>2. Open # Q /\ Close # Q
  BY TokensAndBindvars
<1>3. ASSUME Enclosed
      PROVE  OpenP # 0 /\ CloseP # 0
  <2>1. \E i \in 1..FirstQ : query[i] = Open
    BY <1>1, <1>3 DEF Enclosed
  <2>2. \E i \in LastQ..Len(query) : query[i] = Close
    BY <1>1, <1>3 DEF Enclosed
  <2> QED
    BY <2>1, <2>2, OpenPIs, ClosePIs
<1>4. ASSUME OpenP # 0, CloseP # 0
      PROVE  Enclosed
  <2>1. OpenP \in DOMAIN query /\ query[OpenP] = Open /\ \A q \in Qs : OpenP < q
    <3>1. OpenP \in 1..FirstQ /\ query[OpenP] = Open
      BY <1>4, OpenPIs
    <3>2. OpenP # FirstQ
      BY <1>1, <1>2, <3>1
    <3> QED
      BY <1>1, <3>1, <3>2
  <2>2. CloseP \in DOMAIN query /\ query[CloseP] = Close /\ \A q \in Qs : CloseP > q
    <3>1. CloseP \in LastQ..Len(query) /\ query[CloseP] = Close
      BY <1>4, ClosePIs
    <3>2. CloseP # LastQ
      BY <1>1, <1>2, <3>1
    <3> QED
      BY <1>1, <3>1, <3>2
  <2> QED
    BY <2>1, <2>2 DEF Enclosed
<1> QED
  BY <1>3, <1>4

LEMMA NoParenthesesStep ==
    ASSUME Inv, NoParentheses
    PROVE  Inv'
<1>1. AllRead /\ (OpenP = 0 \/ CloseP = 0) /\ Fail("no parentheses")
  BY DEF NoParentheses
<1>2. pc = "rows" /\ Qs # {} /\ ArrayVerdict = IF Enclosed THEN "none" ELSE "no parentheses"
  BY <1>1, ReadAll
<1>3. op = "array" /\ query \in Seq(Tokens)
  BY <1>2, RowsFacts
<1>4. ~Enclosed
  BY <1>1, <1>2, <1>3, EnclosedIs
<1> QED
  BY <1>1, <1>2, <1>3, <1>4, FailInv DEF Verdict, Errors
-----------------------------------------------------------------------------
(* bindArray: the repeated group. *)
Repeated(g, n) == FlattenSeq([k \in 1..n |-> IF k = 1 THEN g ELSE <<Comma>> \o g])

(* r is g, n times, with commas between. *)
IsRepeated(r, g, n) ==
    LET w == Len(g) + 1 IN
    /\ r \in Seq(Tokens) /\ Len(r) = (n - 1) * w + Len(g)
    /\ \A k \in 0..n - 1, j \in 1..Len(g) : r[k * w + j] = g[j]
    /\ \A k \in 1..n - 1 : r[k * w] = Comma
    /\ CountQ(r) = n * CountQ(g)

LEMMA Multiples ==
    ASSUME NEW w \in Nat
    PROVE  /\ 0 * w = 0 /\ 1 * w = w
           /\ \A k \in Nat : k * w \in Nat /\ (k + 1) * w = k * w + w
           /\ \A k, n \in Nat : k <= n => k * w <= n * w
<1>1. \A k \in Nat : k * w \in Nat /\ (k + 1) * w = k * w + w
  OBVIOUS
<1>2. ASSUME NEW k \in Nat, NEW n \in Nat, k <= n
      PROVE  k * w <= n * w
  <2>1. PICK d \in Nat : n = k + d
    <3>1. n - k \in Nat /\ n = k + (n - k)
      BY <1>2
    <3> QED
      BY <3>1
  <2>2. d * w \in Nat /\ (k + d) * w = k * w + d * w
    OBVIOUS
  <2>3. k * w \in Nat
    OBVIOUS
  <2> QED
    BY <2>1, <2>2, <2>3
<1> QED
  BY <1>1, <1>2

LEMMA RepeatedOnce ==
    ASSUME NEW g \in Seq(Tokens)
    PROVE  Repeated(g, 1) = g
<1> DEFINE e == [k \in 1..0 |-> IF k = 1 THEN g ELSE <<Comma>> \o g]
           t == [k \in 1..1 |-> IF k = 1 THEN g ELSE <<Comma>> \o g]
<1>1. e = <<>> /\ FlattenSeq(<<>>) = <<>>
  BY DEF FlattenSeq
<1>2. e \in Seq(Seq(Tokens)) /\ Len(e) = 0
  OBVIOUS
<1>3. t \in Seq(Seq(Tokens)) /\ Len(t) = Len(e) + 1 /\ t[Len(t)] = g /\ \A i \in 1..Len(e) : t[i] = e[i]
  OBVIOUS
<1> HIDE DEF e, t
<1>4. FlattenSeq(t) = FlattenSeq(e) \o g
  <2>1. Extends(t, e, g)
    BY <1>3 DEF Extends
  <2> QED
    BY <1>2, <1>3, <2>1, FlattenNext
<1>5. FlattenSeq(t) = g
  BY <1>1, <1>4
<1> QED
  BY <1>5 DEF t, Repeated

LEMMA RepeatedNext ==
    ASSUME NEW g \in Seq(Tokens), NEW n \in Nat \ {0}
    PROVE  Repeated(g, n + 1) = Repeated(g, n) \o (<<Comma>> \o g)
<1> DEFINE x == <<Comma>> \o g
           S(m) == [k \in 1..m |-> IF k = 1 THEN g ELSE x]
<1>1. x \in Seq(Tokens)
  <2>1. <<Comma>> \in Seq(Tokens)
    BY TokensAndBindvars
  <2> QED
    BY <2>1, ConcatProperties
<1> HIDE DEF x
<1>2. \A m \in Nat : S(m) \in Seq(Seq(Tokens)) /\ Len(S(m)) = m
  BY <1>1
<1>3. (\A i \in 1..n : S(n + 1)[i] = S(n)[i]) /\ S(n + 1)[n + 1] = x
  OBVIOUS
<1> DEFINE s == S(n)
           t == S(n + 1)
<1>4. /\ s \in Seq(Seq(Tokens)) /\ t \in Seq(Seq(Tokens)) /\ Len(t) = Len(s) + 1
      /\ t[Len(t)] = x /\ \A i \in 1..Len(s) : t[i] = s[i]
  <2>1. n \in Nat /\ n + 1 \in Nat
    OBVIOUS
  <2> HIDE DEF S
  <2> QED
    BY <1>2, <1>3, <2>1
<1> HIDE DEF s, t
<1>5. FlattenSeq(t) = FlattenSeq(s) \o x
  <2>1. Extends(t, s, x)
    BY <1>4 DEF Extends
  <2> QED
    BY <1>1, <1>4, <2>1, FlattenNext
<1> QED
  BY <1>5 DEF s, t, x, Repeated

LEMMA ConcatTokens ==
    ASSUME NEW s \in Seq(Tokens), NEW t \in Seq(Tokens)
    PROVE  /\ s \o t \in Seq(Tokens) /\ Len(s \o t) = Len(s) + Len(t)
           /\ \A i \in 1..Len(s) : (s \o t)[i] = s[i]
           /\ \A i \in Len(s) + 1..Len(s) + Len(t) : (s \o t)[i] = t[i - Len(s)]
  BY ConcatProperties

LEMMA RepeatOneMore ==
    ASSUME NEW g \in Seq(Tokens), NEW n \in Nat \ {0}, NEW r, IsRepeated(r, g, n)
    PROVE  IsRepeated(r \o (<<Comma>> \o g), g, n + 1)
<1> DEFINE L == Len(g)
           w == L + 1
           M(k) == k * w
           c == <<Comma>>
           x == c \o g
           q == r \o x
           Cn == CountQ(g)
<1>1. /\ r \in Seq(Tokens) /\ Len(r) = M(n - 1) + L
      /\ (\A k \in 0..n - 1, j \in 1..L : r[M(k) + j] = g[j])
      /\ (\A k \in 1..n - 1 : r[M(k)] = Comma)
      /\ CountQ(r) = n * Cn
  BY DEF IsRepeated
<1>2. L \in Nat /\ w \in Nat /\ w = L + 1
  OBVIOUS
<1>3. /\ \A k \in Nat : M(k) \in Nat /\ M(k + 1) = M(k) + w
      /\ \A k, m \in Nat : k <= m => M(k) <= M(m)
  <2> HIDE DEF w
  <2> QED
    BY <1>2, Multiples
<1>4. c \in Seq(Tokens) /\ Len(c) = 1 /\ c[1] = Comma /\ CountQ(c) = 0
  BY TokensAndBindvars, CountQs
<1> HIDE DEF c
<1>5. /\ x \in Seq(Tokens) /\ Len(x) = w
      /\ x[1] = Comma /\ \A j \in 1..L : x[1 + j] = g[j]
  BY <1>4, ConcatProperties, SMTT(30)
<1>6. CountQ(x) = Cn /\ Cn \in Nat
  <2>1. CountQ(c \o g) = CountQ(c) + CountQ(g)
    BY <1>4, CountQs, Zenon
  <2>2. CountQ(g) \in Nat
    BY CountQs
  <2> QED
    BY <1>4, <2>1, <2>2
<1>7. n - 1 \in Nat /\ M((n - 1) + 1) = M(n - 1) + w /\ (n - 1) + 1 = n /\ (n + 1) - 1 = n
  <2> HIDE DEF M
  <2> QED
    BY <1>3
<1> HIDE DEF x, M, w, L
<1>8. Len(r) = M(n) - 1 /\ M(n) \in Nat
  <2>1. M(n) = M(n - 1) + w
    BY <1>7
  <2>2. M(n - 1) \in Nat
    BY <1>3, <1>7
  <2>3. Len(r) = M(n - 1) + L
    BY <1>1
  <2> QED
    BY <1>2, <2>1, <2>2, <2>3
<1>9. /\ q \in Seq(Tokens) /\ Len(q) = Len(r) + w
      /\ (\A i \in 1..Len(r) : q[i] = r[i])
      /\ \A i \in Len(r) + 1..Len(r) + w : q[i] = x[i - Len(r)]
  <2>1. /\ r \o x \in Seq(Tokens) /\ Len(r \o x) = Len(r) + Len(x)
        /\ (\A i \in 1..Len(r) : (r \o x)[i] = r[i])
        /\ \A i \in Len(r) + 1..Len(r) + Len(x) : (r \o x)[i] = x[i - Len(r)]
    BY <1>1, <1>5, ConcatTokens, Zenon
  <2> QED
    BY <1>5, <2>1
<1>10. CountQ(q) = (n + 1) * Cn
  <2>1. CountQ(r \o x) = CountQ(r) + CountQ(x)
    BY <1>1, <1>5, CountQs, Zenon
  <2>2. (n + 1) * Cn = n * Cn + Cn
    <3> HIDE DEF Cn
    <3> QED
      BY <1>6
  <2> HIDE DEF Cn
  <2> QED
    BY <1>1, <1>6, <2>1, <2>2
<1> HIDE DEF q
<1>11. Len(q) = M((n + 1) - 1) + L
  BY <1>2, <1>7, <1>8, <1>9
<1>12. ASSUME NEW k \in 0..(n + 1) - 1, NEW j \in 1..L
       PROVE  q[M(k) + j] = g[j]
  <2>1. CASE k = n
    <3>0. M(k) = Len(r) + 1 /\ Len(r) \in Nat
      BY <1>1, <1>8, <2>1
    <3>1. M(k) + j = Len(r) + (1 + j) /\ M(k) + j \in Len(r) + 1..Len(r) + w
      BY <1>2, <3>0
    <3>2. (M(k) + j) - Len(r) = 1 + j
      BY <1>1, <3>1
    <3> QED
      BY <1>5, <1>9, <3>1, <3>2
  <2>2. CASE k # n
    <3>1. k \in 0..n - 1 /\ k \in Nat /\ k <= n - 1
      BY <2>2
    <3>2. M(k) <= M(n - 1) /\ M(k) \in Nat /\ M(n - 1) \in Nat
      BY <1>3, <1>7, <3>1
    <3>3. M(k) + j \in 1..Len(r)
      BY <1>1, <1>2, <3>2
    <3> QED
      BY <1>1, <1>9, <3>1, <3>3
  <2> QED
    BY <2>1, <2>2
<1>13. ASSUME NEW k \in 1..(n + 1) - 1
       PROVE  q[M(k)] = Comma
  <2>1. CASE k = n
    <3>1. M(k) = Len(r) + 1 /\ M(k) \in Len(r) + 1..Len(r) + w /\ M(k) - Len(r) = 1
      BY <1>1, <1>2, <1>8, <2>1, SMTT(30)
    <3> QED
      BY <1>5, <1>9, <3>1
  <2>2. CASE k # n
    <3>1. k \in 1..n - 1 /\ k \in Nat /\ k <= n - 1 /\ 1 <= k /\ k - 1 \in Nat /\ (k - 1) + 1 = k
      BY <2>2
    <3>2. M(k) <= M(n - 1) /\ M(k) \in Nat /\ M(n - 1) \in Nat
      BY <1>3, <1>7, <3>1
    <3>3. M(k) >= 1
      <4>1. M(k - 1) \in Nat /\ M((k - 1) + 1) = M(k - 1) + w
        BY <1>3, <3>1
      <4> QED
        BY <1>2, <3>1, <4>1
    <3>4. M(k) \in 1..Len(r)
      BY <1>1, <1>2, <3>2, <3>3
    <3> QED
      BY <1>1, <1>9, <3>1, <3>4
  <2> QED
    BY <2>1, <2>2
<1>14. IsRepeated(q, g, n + 1)
  BY <1>9, <1>10, <1>11, <1>12, <1>13 DEF IsRepeated, M, w, L
<1> QED
  BY <1>14 DEF q, x, c

LEMMA RepeatBuilt ==
    ASSUME NEW g \in Seq(Tokens), NEW n \in Nat \ {0}
    PROVE  IsRepeated(Repeated(g, n), g, n)
<1> DEFINE T == {k \in Nat : IsRepeated(Repeated(g, k + 1), g, k + 1)}
<1>1. 0 \in T
  <2>1. IsRepeated(g, g, 1)
    <3>1. CountQ(g) \in Nat
      BY CountQs
    <3>2. Len(g) \in Nat /\ CountQ(g) = 1 * CountQ(g) /\ Len(g) = (1 - 1) * (Len(g) + 1) + Len(g)
      BY <3>1
    <3>3. \A k \in 0..1 - 1, j \in 1..Len(g) : g[k * (Len(g) + 1) + j] = g[j]
      <4> TAKE k \in 0..1 - 1, j \in 1..Len(g)
      <4>1. k = 0 /\ 0 * (Len(g) + 1) + j = j
        OBVIOUS
      <4> QED
        BY <4>1
    <3>4. \A k \in 1..1 - 1 : g[k * (Len(g) + 1)] = Comma
      OBVIOUS
    <3> QED
      BY <3>2, <3>3, <3>4 DEF IsRepeated
  <2>2. 0 + 1 = 1 /\ Repeated(g, 1) = g
    BY RepeatedOnce
  <2> QED
    BY <2>1, <2>2
<1>2. ASSUME NEW k \in Nat, k \in T
      PROVE  k + 1 \in T
  <2>1. k + 1 \in Nat \ {0} /\ IsRepeated(Repeated(g, k + 1), g, k + 1)
    BY <1>2
  <2>2. IsRepeated(Repeated(g, k + 1) \o (<<Comma>> \o g), g, (k + 1) + 1)
    BY <2>1, RepeatOneMore
  <2>3. IsRepeated(Repeated(g, (k + 1) + 1), g, (k + 1) + 1)
    BY <2>1, <2>2, RepeatedNext
  <2> QED
    BY <2>3
<1> HIDE DEF T
<1>3. \A k \in Nat : k \in T
  BY <1>1, <1>2, Induction
<1>4. n - 1 \in Nat /\ (n - 1) + 1 = n
  OBVIOUS
<1>5. n - 1 \in T
  BY <1>3, <1>4
<1>6. IsRepeated(Repeated(g, (n - 1) + 1), g, (n - 1) + 1)
  BY <1>5 DEF T
<1> QED
  BY <1>4, <1>6

WithGroups(s, a, b, n) ==
    (SubSeq(s, 1, a - 1) \o Repeated(SubSeq(s, a, b), n)) \o SubSeq(s, b + 1, Len(s))

(* The three parts of a query: before the group, the group, behind it. *)
LEMMA ThreeParts ==
    ASSUME NEW s \in Seq(Tokens), NEW a \in 1..Len(s), NEW b \in a..Len(s)
    PROVE  LET p == SubSeq(s, 1, a - 1)
               g == SubSeq(s, a, b)
               z == SubSeq(s, b + 1, Len(s))
           IN /\ p \in Seq(Tokens) /\ g \in Seq(Tokens) /\ z \in Seq(Tokens)
              /\ Len(p) = a - 1 /\ Len(g) = b - a + 1 /\ Len(z) = Len(s) - b
              /\ \A i \in 1..a - 1 : p[i] = s[i]
              /\ \A i \in 1..b - a + 1 : g[i] = s[(a - 1) + i]
              /\ \A i \in 1..Len(s) - b : z[i] = s[b + i]
<1>1. a - 1 \in 0..Len(s) /\ b \in a - 1..Len(s) /\ b \in 0..Len(s) /\ Len(s) \in b..Len(s)
  OBVIOUS
<1>2. /\ SubSeq(s, 1, a - 1) \in Seq(Tokens) /\ Len(SubSeq(s, 1, a - 1)) = a - 1
      /\ \A i \in 1..a - 1 : SubSeq(s, 1, a - 1)[i] = s[i]
  BY <1>1, PrefixType
<1>3. /\ SubSeq(s, (a - 1) + 1, b) \in Seq(Tokens) /\ Len(SubSeq(s, (a - 1) + 1, b)) = b - (a - 1)
      /\ \A i \in 1..b - (a - 1) : SubSeq(s, (a - 1) + 1, b)[i] = s[(a - 1) + i]
  BY <1>1, SpanType
<1>4. (a - 1) + 1 = a /\ b - (a - 1) = b - a + 1
  OBVIOUS
<1>5. /\ SubSeq(s, b + 1, Len(s)) \in Seq(Tokens) /\ Len(SubSeq(s, b + 1, Len(s))) = Len(s) - b
      /\ \A i \in 1..Len(s) - b : SubSeq(s, b + 1, Len(s))[i] = s[b + i]
  BY <1>1, SpanType
<1> QED
  BY <1>2, <1>3, <1>4, <1>5

LEMMA GroupsPlaced ==
    ASSUME NEW s \in Seq(Tokens), NEW a \in 1..Len(s), NEW b \in a..Len(s), NEW n \in Nat \ {0}
    PROVE  WithGroups(s, a, b, n) \in Seq(Tokens) /\ HasGroups(WithGroups(s, a, b, n), s, a, b, n)
<1> DEFINE p == SubSeq(s, 1, a - 1)
           g == SubSeq(s, a, b)
           z == SubSeq(s, b + 1, Len(s))
           t == Repeated(g, n)
           h == p \o t
           r == h \o z
           w == b - a + 2
           M(k) == k * w
           more == M(n - 1)
           L == Len(g)
<1>1. /\ p \in Seq(Tokens) /\ g \in Seq(Tokens) /\ z \in Seq(Tokens)
      /\ Len(p) = a - 1 /\ L = b - a + 1 /\ Len(z) = Len(s) - b
      /\ \A i \in 1..a - 1 : p[i] = s[i]
      /\ \A i \in 1..b - a + 1 : g[i] = s[(a - 1) + i]
      /\ \A i \in 1..Len(s) - b : z[i] = s[b + i]
  BY ThreeParts, Zenon
<1> HIDE DEF p, g, z
<1>2. /\ t \in Seq(Tokens) /\ Len(t) = (n - 1) * (L + 1) + L
      /\ \A k \in 0..n - 1, j \in 1..L : t[k * (L + 1) + j] = g[j]
      /\ \A k \in 1..n - 1 : t[k * (L + 1)] = Comma
  <2>1. IsRepeated(t, g, n)
    BY <1>1, RepeatBuilt
  <2> HIDE DEF t
  <2> QED
    BY <2>1 DEF IsRepeated
<1> HIDE DEF t
<1>3. w \in Nat /\ L + 1 = w /\ w = L + 1 /\ L \in Nat
  BY <1>1
<1>4. /\ Len(t) = more + L
      /\ \A k \in 0..n - 1, j \in 1..L : t[M(k) + j] = g[j]
      /\ \A k \in 1..n - 1 : t[M(k)] = Comma
  <2> HIDE DEF w, L
  <2> QED
    BY <1>2, <1>3
<1>5. /\ \A k \in Nat : M(k) \in Nat /\ M(k + 1) = M(k) + w
      /\ \A k, m \in Nat : k <= m => M(k) <= M(m)
  <2> HIDE DEF w
  <2> QED
    BY <1>3, Multiples
<1>6. n - 1 \in Nat /\ more \in Nat
  <2>1. n - 1 \in Nat
    OBVIOUS
  <2> HIDE DEF M
  <2> QED
    BY <1>5, <2>1
<1> HIDE DEF L, w, M
<1>7. /\ h \in Seq(Tokens) /\ Len(h) = (a - 1) + (more + L)
      /\ (\A i \in 1..a - 1 : h[i] = s[i])
      /\ \A i \in a..(a - 1) + (more + L) : h[i] = t[i - (a - 1)]
  <2>1. /\ p \o t \in Seq(Tokens) /\ Len(p \o t) = Len(p) + Len(t)
        /\ (\A i \in 1..Len(p) : (p \o t)[i] = p[i])
        /\ \A i \in Len(p) + 1..Len(p) + Len(t) : (p \o t)[i] = t[i - Len(p)]
    BY <1>1, <1>2, ConcatTokens, Zenon
  <2>2. (a - 1) + 1 = a
    OBVIOUS
  <2> HIDE DEF more
  <2> QED
    BY <1>1, <1>4, <2>1, <2>2
<1> HIDE DEF h
<1>8. /\ r \in Seq(Tokens) /\ Len(r) = ((a - 1) + (more + L)) + (Len(s) - b)
      /\ (\A i \in 1..(a - 1) + (more + L) : r[i] = h[i])
      /\ \A i \in ((a - 1) + (more + L)) + 1..((a - 1) + (more + L)) + (Len(s) - b) :
            r[i] = z[i - ((a - 1) + (more + L))]
  <2>1. /\ h \o z \in Seq(Tokens) /\ Len(h \o z) = Len(h) + Len(z)
        /\ (\A i \in 1..Len(h) : (h \o z)[i] = h[i])
        /\ \A i \in Len(h) + 1..Len(h) + Len(z) : (h \o z)[i] = z[i - Len(h)]
    BY <1>1, <1>7, ConcatTokens, Zenon
  <2> HIDE DEF more
  <2> QED
    BY <1>1, <1>7, <2>1
<1>r. r = WithGroups(s, a, b, n)
  BY DEF WithGroups, h, t, g, p, z
<1> HIDE DEF r
<1>9. Len(r) = Len(s) + more
  <2> HIDE DEF more
  <2>1. L = b - a + 1 /\ more \in Nat /\ Len(s) \in Nat
    BY <1>1, <1>6
  <2>2. Len(r) = ((a - 1) + (more + L)) + (Len(s) - b)
    BY <1>8
  <2> HIDE DEF r
  <2> QED
    BY <2>1, <2>2
<1>10. \A i \in 1..a - 1 : r[i] = s[i]
  <2> HIDE DEF more
  <2> TAKE i \in 1..a - 1
  <2>1. i \in 1..(a - 1) + (more + L)
    BY <1>3, <1>6
  <2> QED
    BY <1>7, <1>8, <2>1
(* A place in the groups. *)
<1>11. \A i \in 1..more + L : r[(a - 1) + i] = t[i]
  <2> HIDE DEF more
  <2> TAKE i \in 1..more + L
  <2>1. (a - 1) + i \in 1..(a - 1) + (more + L) /\ (a - 1) + i \in a..(a - 1) + (more + L)
    BY <1>3, <1>6
  <2>2. ((a - 1) + i) - (a - 1) = i
    BY <1>3, <1>6
  <2> QED
    BY <1>7, <1>8, <2>1, <2>2
<1>12. ASSUME NEW k \in 0..n - 1, NEW j \in 0..b - a
       PROVE  r[a + M(k) + j] = s[a + j]
  <2>1. k \in Nat /\ k <= n - 1
    OBVIOUS
  <2>2. M(k) \in Nat /\ M(k) <= more
    BY <1>5, <1>6, <2>1
  <2> HIDE DEF more
  <2>3. j + 1 \in 1..L /\ j + 1 \in 1..b - a + 1 /\ M(k) + (j + 1) \in 1..more + L
    BY <1>1, <1>3, <1>6, <2>2
  <2>4. r[(a - 1) + (M(k) + (j + 1))] = t[M(k) + (j + 1)]
    BY <1>11, <2>3
  <2>5. t[M(k) + (j + 1)] = g[j + 1] /\ g[j + 1] = s[(a - 1) + (j + 1)]
    BY <1>1, <1>4, <2>3
  <2>6. (a - 1) + (M(k) + (j + 1)) = a + M(k) + j /\ (a - 1) + (j + 1) = a + j
    BY <2>2
  <2> QED
    BY <2>4, <2>5, <2>6
<1>13. ASSUME NEW k \in 1..n - 1
       PROVE  r[a + M(k) - 1] = Comma
  <2>1. k \in Nat /\ k <= n - 1 /\ k - 1 \in Nat /\ (k - 1) + 1 = k
    OBVIOUS
  <2>2. M(k) \in Nat /\ M(k) <= more
    BY <1>5, <1>6, <2>1
  <2>3. M(k) >= 1
    <3>1. M(k - 1) \in Nat /\ M((k - 1) + 1) = M(k - 1) + w
      BY <1>5, <2>1
    <3> QED
      BY <1>3, <2>1, <3>1
  <2> HIDE DEF more
  <2>4. M(k) \in 1..more + L
    BY <1>3, <1>6, <2>2, <2>3
  <2>5. (a - 1) + M(k) = a + M(k) - 1
    BY <2>2
  <2> QED
    BY <1>4, <1>11, <2>4, <2>5
<1>14. ASSUME NEW i \in b + 1..Len(s)
       PROVE  r[i + more] = s[i]
  <2> HIDE DEF more
  <2> DEFINE e == (a - 1) + (more + L)
  <2>1. e = b + more /\ b + more \in Nat
    BY <1>1, <1>3, <1>6
  <2>2. i + more \in e + 1..e + (Len(s) - b) /\ (i + more) - e = i - b /\ i - b \in 1..Len(s) - b
    BY <1>6, <2>1
  <2>3. r[i + more] = z[(i + more) - e]
    BY <1>8, <2>2
  <2>4. z[i - b] = s[b + (i - b)] /\ b + (i - b) = i
    BY <1>1, <2>2
  <2> QED
    BY <2>2, <2>3, <2>4
<1>15. HasGroups(r, s, a, b, n)
  BY <1>9, <1>10, <1>12, <1>13, <1>14 DEF HasGroups, M, w
<1> QED
  BY <1>8, <1>15, <1>r

LEMMA GroupsCounted ==
    ASSUME NEW s \in Seq(Tokens), NEW a \in 1..Len(s), NEW b \in a..Len(s), NEW n \in Nat \ {0},
           \A i \in DOMAIN s : s[i] = Q => i \in a..b
    PROVE  CountQ(WithGroups(s, a, b, n)) = n * CountQ(s)
<1> DEFINE p == SubSeq(s, 1, a - 1)
           g == SubSeq(s, a, b)
           z == SubSeq(s, b + 1, Len(s))
           t == Repeated(g, n)
<1>1. /\ p \in Seq(Tokens) /\ g \in Seq(Tokens) /\ z \in Seq(Tokens)
      /\ Len(p) = a - 1 /\ Len(g) = b - a + 1 /\ Len(z) = Len(s) - b
      /\ \A i \in 1..a - 1 : p[i] = s[i]
      /\ \A i \in 1..b - a + 1 : g[i] = s[(a - 1) + i]
      /\ \A i \in 1..Len(s) - b : z[i] = s[b + i]
  BY ThreeParts, Zenon
<1>2. s = (p \o g) \o z
  <2>1. p \o g = SubSeq(s, 1, b)
    <3>1. 1 \in 1..Len(s) + 1 /\ a - 1 \in 1 - 1..Len(s) /\ b \in a - 1..Len(s) /\ (a - 1) + 1 = a
      OBVIOUS
    <3>2. SubSeq(s, 1, a - 1) \o SubSeq(s, (a - 1) + 1, b) = SubSeq(s, 1, b)
      BY <3>1, ConcatAdjacentSubSeq
    <3> QED
      BY <3>1, <3>2
  <2>2. SubSeq(s, 1, b) \o z = SubSeq(s, 1, Len(s))
    <3>1. 1 \in 1..Len(s) + 1 /\ b \in 1 - 1..Len(s) /\ Len(s) \in b..Len(s)
      OBVIOUS
    <3> QED
      BY <3>1, ConcatAdjacentSubSeq
  <2>3. SubSeq(s, 1, Len(s)) = s
    BY SubSeqFull
  <2> QED
    BY <2>1, <2>2, <2>3
<1> HIDE DEF p, g, z
<1>3. CountQ(p) = 0
  <2>1. DOMAIN p = 1..a - 1 /\ \A i \in 1..a - 1 : i \in DOMAIN s /\ i \notin a..b
    BY <1>1
  <2>2. \A i \in DOMAIN p : p[i] # Q
    BY <1>1, <2>1
  <2> QED
    BY <1>1, <2>2, CountQs
<1>4. CountQ(z) = 0
  <2>1. DOMAIN z = 1..Len(s) - b /\ \A i \in 1..Len(s) - b : b + i \in DOMAIN s /\ b + i \notin a..b
    BY <1>1
  <2>2. \A i \in DOMAIN z : z[i] # Q
    <3> TAKE i \in DOMAIN z
    <3>1. i \in 1..Len(s) - b /\ z[i] = s[b + i]
      BY <1>1, <2>1
    <3>2. s[b + i] # Q
      BY <2>1, <3>1
    <3> QED
      BY <3>1, <3>2
  <2> QED
    BY <1>1, <2>2, CountQs
<1>5. t \in Seq(Tokens) /\ CountQ(t) = n * CountQ(g) /\ CountQ(g) \in Nat
  <2>1. IsRepeated(t, g, n)
    BY <1>1, RepeatBuilt
  <2>2. CountQ(g) \in Nat
    BY <1>1, CountQs
  <2> HIDE DEF t
  <2> QED
    BY <2>1, <2>2 DEF IsRepeated
<1> HIDE DEF t
<1>6. \A x \in Seq(Tokens) : CountQ((p \o x) \o z) = (CountQ(p) + CountQ(x)) + CountQ(z)
  <2> TAKE x \in Seq(Tokens)
  <2>1. p \o x \in Seq(Tokens)
    BY <1>1, ConcatTokens
  <2>2. CountQ(p \o x) = CountQ(p) + CountQ(x)
    BY <1>1, CountQs, Zenon
  <2>3. CountQ((p \o x) \o z) = CountQ(p \o x) + CountQ(z)
    BY <1>1, <2>1, CountQs, Zenon
  <2> QED
    BY <2>2, <2>3
<1>7. CountQ(s) = CountQ(g)
  BY <1>1, <1>2, <1>3, <1>4, <1>5, <1>6
<1>8. CountQ((p \o t) \o z) = CountQ(t)
  <2>1. CountQ(t) \in Nat
    BY <1>5, CountQs
  <2> QED
    BY <1>3, <1>4, <1>5, <1>6, <2>1
<1>9. CountQ((p \o t) \o z) = n * CountQ(s)
  BY <1>5, <1>7, <1>8
<1> QED
  BY <1>9 DEF WithGroups, p, t, g, z

LEMMA GroupIs ==
    ASSUME query \in Seq(Tokens), Qs # {}, OpenP # 0, CloseP # 0,
           NEW a \in DOMAIN query, NEW b \in DOMAIN query, IsValueGroup(query, a, b)
    PROVE  a = OpenP /\ b = CloseP
<1>1. /\ a < b /\ query[a] = Open /\ query[b] = Close /\ Qs \subseteq a..b
      /\ \A i \in a + 1..b - 1 : query[i] # Open /\ query[i] # Close
  BY DEF IsValueGroup, Qs
<1>2. a \in 1..Len(query) /\ b \in 1..Len(query)
  OBVIOUS
<1>3. /\ FirstQ \in Qs /\ LastQ \in Qs /\ FirstQ \in 1..Len(query) /\ LastQ \in 1..Len(query)
      /\ query[FirstQ] = Q /\ query[LastQ] = Q
  BY Outermost DEF Qs, Where
<1>4. Open # Q /\ Close # Q
  BY TokensAndBindvars
<1>5. FirstQ \in a..b /\ LastQ \in a..b
  BY <1>1, <1>3
<1>6. FirstQ # a /\ FirstQ # b /\ LastQ # a /\ LastQ # b
  BY <1>1, <1>3, <1>4
<1>7. OpenP \in 1..FirstQ /\ query[OpenP] = Open /\ \A j \in OpenP + 1..FirstQ : query[j] # Open
  BY OpenPIs
<1>8. /\ CloseP \in LastQ..Len(query) /\ query[CloseP] = Close
      /\ \A j \in LastQ..CloseP - 1 : query[j] # Close
  BY ClosePIs
<1>9. a = OpenP
  <2>1. a \notin OpenP + 1..FirstQ
    BY <1>1, <1>7
  <2>2. OpenP \notin a + 1..b - 1
    BY <1>1, <1>7
  <2> QED
    BY <1>2, <1>3, <1>5, <1>6, <1>7, <2>1, <2>2
<1>10. b = CloseP
  <2>1. b \notin LastQ..CloseP - 1
    BY <1>1, <1>8
  <2>2. CloseP \notin a + 1..b - 1
    BY <1>1, <1>8
  <2> QED
    BY <1>2, <1>3, <1>5, <1>6, <1>8, <2>1, <2>2
<1> QED
  BY <1>9, <1>10

LEMMA RepeatGroupStep ==
    ASSUME Inv, RepeatGroup
    PROVE  Inv'
<1> DEFINE a == OpenP
           b == CloseP
           n == Len(args)
           W == WithGroups(query, a, b, n)
<1>1. /\ AllRead /\ a # 0 /\ b # 0 /\ arg' = 0 /\ pc' = "rebind"
      /\ op' = op /\ query' = query /\ args' = args /\ numbers' = numbers
      /\ pointed' = pointed /\ compiles' = compiles
      /\ offset' = offset /\ out' = out /\ newArgs' = newArgs /\ err' = err
  BY DEF RepeatGroup, input
<1>2. /\ pc = "rows" /\ arg = n /\ n \in Nat \ {0} /\ Qs # {}
      /\ ArrayVerdict = IF Enclosed THEN "none" ELSE "no parentheses"
  BY <1>1, ReadAll
<1>3. /\ op = "array" /\ query \in Seq(Tokens) /\ args \in Seq(Elements) /\ err = "none"
      /\ offset = 0 /\ out = <<>> /\ Len(newArgs) = n * CountQ(query) /\ numbers \in BOOLEAN
  BY <1>2, RowsFacts
<1>4. rest' = W
  <2>1. DOMAIN args = 1..n
    BY <1>3
  <2> QED
    BY <2>1 DEF RepeatGroup, WithGroups, Repeated
<1>5. a \in 1..Len(query) /\ b \in a..Len(query) /\ \A i \in DOMAIN query : query[i] = Q => i \in a..b
  <2>1. /\ FirstQ \in Qs /\ (\A j \in Qs : FirstQ <= j) /\ LastQ \in Qs /\ (\A j \in Qs : LastQ >= j)
        /\ Qs \subseteq 1..Len(query)
    BY <1>2, <1>3, Outermost
  <2>2. a \in 1..FirstQ /\ b \in LastQ..Len(query)
    BY <1>1, <1>2, <1>3, OpenPIs, ClosePIs
  <2> HIDE DEF a, b
  <2>3. FirstQ \in 1..Len(query) /\ LastQ \in 1..Len(query) /\ FirstQ <= LastQ
    BY <2>1
  <2>4. \A i \in DOMAIN query : query[i] = Q => i \in Qs
    BY DEF Qs, Where
  <2>5. \A i \in Qs : i \in a..b
    BY <2>1, <2>2, <2>3
  <2> QED
    BY <2>2, <2>3, <2>4, <2>5
<1>6. W \in Seq(Tokens) /\ HasGroups(W, query, a, b, n) /\ CountQ(W) = n * CountQ(query)
  <2> HIDE DEF a, b, n
  <2> QED
    BY <1>2, <1>3, <1>5, GroupsPlaced, GroupsCounted
<1> HIDE DEF W
<1>7. TypeOK'
  <2>1. offset' \in 0..Len(rest') /\ arg' \in Nat /\ rest' \in Seq(Tokens)
    BY <1>1, <1>3, <1>4, <1>6
  <2> QED
    BY <1>1, <2>1 DEF Inv, TypeOK
<1>8. OpInv' /\ MeasureInv' /\ ExpandInv' /\ RowsInv'
  BY <1>1, <1>3 DEF OpInv, MeasureInv, ExpandInv, RowsInv
<1>9. RebindInv'
  <2>1. ArrayVerdict' = "none"
    <3>1. Enclosed
      BY <1>1, <1>2, <1>3, EnclosedIs
    <3> QED
      BY <1>1, <1>2, <3>1, VerdictSame
  <2>2. ASSUME NEW c \in DOMAIN query, NEW d \in DOMAIN query, IsValueGroup(query, c, d)
        PROVE  HasGroups(Unnumbered(out') \o rest', query, c, d, n)
    <3>1. c = a /\ d = b
      BY <1>1, <1>2, <1>3, <2>2, GroupIs
    <3>2. Unnumbered(<<>>) = <<>>
      BY DEF Unnumbered
    <3>3. <<>> \o W = W
      BY <1>6
    <3> QED
      BY <1>1, <1>3, <1>4, <1>6, <3>1, <3>2, <3>3
  <2>3. Count(out', Bindvars) = 0 /\ Count(out', Bindvars) + CountQ(rest') = Len(newArgs')
    <3>1. Count(<<>>, Bindvars) = 0
      BY CountOne
    <3>2. CountQ(W) \in Nat
      BY <1>6, CountQs
    <3> QED
      BY <1>1, <1>3, <1>4, <1>6, <3>1, <3>2
  <2>4. IsNumbered(out') /\ out' = <<>>
    BY <1>1, <1>3 DEF IsNumbered, Where
  <2> QED
    BY <1>1, <1>3, <2>1, <2>2, <2>3, <2>4 DEF RebindInv
<1> QED
  BY <1>1, <1>7, <1>8, <1>9, NotYet DEF Inv
-----------------------------------------------------------------------------
(* Rebind. *)
Texts == Tokens \cup Bindvars      \* what a rebound query is written with

LEMMA TextsConcat ==
    ASSUME NEW s \in Seq(Texts), NEW t \in Seq(Texts)
    PROVE  /\ s \o t \in Seq(Texts) /\ Len(s \o t) = Len(s) + Len(t)
           /\ \A i \in 1..Len(s) : (s \o t)[i] = s[i]
           /\ \A i \in Len(s) + 1..Len(s) + Len(t) : (s \o t)[i] = t[i - Len(s)]
           /\ Count(s \o t, Bindvars) = Count(s, Bindvars) + Count(t, Bindvars)
<1>1. Count(s \o t, Bindvars) = Count(s, Bindvars) + Count(t, Bindvars)
  BY CountConcat
<1> QED
  BY <1>1, ConcatProperties

LEMMA TokensAreTexts ==
    ASSUME NEW s \in Seq(Tokens)
    PROVE  /\ s \in Seq(Texts)
           /\ Count(s, Bindvars) = CountQ(s)
           /\ Unnumbered(s) = s
<1>1. s \in Seq(Texts)
  BY SeqMonotonic, Tokens \subseteq Texts DEF Texts
<1>2. \A i \in DOMAIN s : s[i] \in Bindvars <=> s[i] = Q
  BY TokensAndBindvars
<1>3. Where(s, Bindvars) = Where(s, {Q})
  BY <1>2 DEF Where
<1>4. Count(s, Bindvars) = CountQ(s)
  BY <1>3 DEF Count, CountQ
<1>5. Unnumbered(s) = s
  <2>1. \A i \in DOMAIN s : (IF s[i] \in Bindvars THEN Q ELSE s[i]) = s[i]
    BY <1>2
  <2>2. Unnumbered(s) = [i \in DOMAIN s |-> s[i]]
    BY <2>1 DEF Unnumbered
  <2> QED
    BY <2>2
<1> QED
  BY <1>1, <1>4, <1>5

LEMMA UnnumberedConcat ==
    ASSUME NEW s \in Seq(Texts), NEW t \in Seq(Texts)
    PROVE  Unnumbered(s \o t) = Unnumbered(s) \o Unnumbered(t)
<1> DEFINE c == s \o t
           u == Unnumbered(s)
           v == Unnumbered(t)
           f == Unnumbered(c)
           d == u \o v
<1>q. Q \in Texts
  BY TokensAndBindvars DEF Texts
<1>1. \A r \in Seq(Texts) :
         /\ Unnumbered(r) \in Seq(Texts) /\ Len(Unnumbered(r)) = Len(r)
         /\ \A i \in 1..Len(r) : Unnumbered(r)[i] = IF r[i] \in Bindvars THEN Q ELSE r[i]
  BY <1>q DEF Unnumbered
<1>2. /\ c \in Seq(Texts) /\ Len(c) = Len(s) + Len(t)
      /\ \A i \in 1..Len(s) : c[i] = s[i]
      /\ \A i \in Len(s) + 1..Len(s) + Len(t) : c[i] = t[i - Len(s)]
  BY TextsConcat, Zenon
<1>3. /\ u \in Seq(Texts) /\ Len(u) = Len(s)
      /\ \A i \in 1..Len(s) : u[i] = IF s[i] \in Bindvars THEN Q ELSE s[i]
  BY <1>1
<1>4. /\ v \in Seq(Texts) /\ Len(v) = Len(t)
      /\ \A i \in 1..Len(t) : v[i] = IF t[i] \in Bindvars THEN Q ELSE t[i]
  BY <1>1
<1> HIDE DEF c
<1>5. /\ f \in Seq(Texts) /\ Len(f) = Len(c)
      /\ \A i \in 1..Len(c) : f[i] = IF c[i] \in Bindvars THEN Q ELSE c[i]
  BY <1>1, <1>2
<1> HIDE DEF u, v, f
<1>6. /\ d \in Seq(Texts) /\ Len(d) = Len(u) + Len(v)
      /\ \A i \in 1..Len(u) : d[i] = u[i]
      /\ \A i \in Len(u) + 1..Len(u) + Len(v) : d[i] = v[i - Len(u)]
  BY <1>3, <1>4, TextsConcat, Zenon
<1> HIDE DEF d
<1>7. ASSUME NEW i \in 1..Len(s) + Len(t)
      PROVE  f[i] = d[i]
  <2>1. CASE i <= Len(s)
    <3>1. i \in 1..Len(s) /\ i \in 1..Len(c)
      BY <1>2, <2>1
    <3> QED
      BY <1>2, <1>3, <1>5, <1>6, <3>1
  <2>2. CASE ~(i <= Len(s))
    <3>1. i \in Len(s) + 1..Len(s) + Len(t) /\ i \in 1..Len(c) /\ i - Len(s) \in 1..Len(t)
      BY <1>2, <2>2
    <3>2. d[i] = v[i - Len(s)]
      BY <1>3, <1>4, <1>6, <3>1
    <3>3. c[i] = t[i - Len(s)]
      BY <1>2, <3>1
    <3> QED
      BY <1>4, <1>5, <3>1, <3>2, <3>3
  <2> QED
    BY <2>1, <2>2
<1>8. f = d
  <2>1. Len(f) = Len(s) + Len(t) /\ Len(d) = Len(s) + Len(t)
    BY <1>2, <1>3, <1>4, <1>5, <1>6
  <2> QED
    BY <1>5, <1>6, <1>7, <2>1, SeqEqual
<1> QED
  BY <1>8 DEF f, d, c, u, v

LEMMA UnnumberedTypes ==
    \A r \in Seq(Texts) : Unnumbered(r) \in Seq(Tokens)
<1>1. Q \in Tokens /\ \A x \in Texts : x \notin Bindvars => x \in Tokens
  BY TokensAndBindvars DEF Texts
<1> QED
  BY <1>1 DEF Unnumbered

(* Text without bindvars keeps the numbers, and the next number is right. *)
LEMMA NumberedSame ==
    ASSUME NEW o \in Seq(Texts), IsNumbered(o), NEW p \in Seq(Texts), Count(p, Bindvars) = 0
    PROVE  IsNumbered(o \o p) /\ Count(o \o p, Bindvars) = Count(o, Bindvars)
<1> DEFINE d == o \o p
           B(s) == Where(s, Bindvars)
<1>1. /\ d \in Seq(Texts) /\ Len(d) = Len(o) + Len(p)
      /\ (\A i \in 1..Len(o) : d[i] = o[i])
      /\ \A i \in Len(o) + 1..Len(o) + Len(p) : d[i] = p[i - Len(o)]
      /\ Count(d, Bindvars) = Count(o, Bindvars) + Count(p, Bindvars)
  BY TextsConcat, Zenon
<1>2. Count(d, Bindvars) = Count(o, Bindvars)
  <2>1. Count(o, Bindvars) \in Nat
    BY CountType
  <2> HIDE DEF d
  <2> QED
    BY <1>1, <2>1
<1>3. \A i \in DOMAIN p : p[i] \notin Bindvars
  BY CountType
<1> HIDE DEF d
<1>4. \A i \in 1..Len(d) : i \in B(d) <=> i \in B(o)
  <2> TAKE i \in 1..Len(d)
  <2>1. CASE i <= Len(o)
    <3>1. i \in 1..Len(o) /\ i \in DOMAIN o /\ i \in DOMAIN d /\ d[i] = o[i]
      BY <1>1, <2>1
    <3> QED
      BY <3>1 DEF Where
  <2>2. CASE ~(i <= Len(o))
    <3>1. i \in Len(o) + 1..Len(o) + Len(p) /\ i - Len(o) \in DOMAIN p /\ i \notin DOMAIN o
      BY <1>1, <2>2
    <3>2. d[i] \notin Bindvars
      BY <1>1, <1>3, <3>1
    <3> QED
      BY <3>1, <3>2 DEF Where
  <2> QED
    BY <2>1, <2>2
<1>5. B(d) = B(o) /\ \A i \in B(o) : d[i] = o[i]
  <2>1. B(d) \subseteq 1..Len(d) /\ B(o) \subseteq 1..Len(o)
    BY <1>1 DEF Where
  <2>2. \A i \in 1..Len(o) : i \in 1..Len(d)
    BY <1>1
  <2> HIDE DEF B
  <2> QED
    BY <1>1, <1>4, <2>1, <2>2
<1>6. IsNumbered(d)
  BY <1>5, Zenon DEF IsNumbered
<1> QED
  BY <1>2, <1>6 DEF d

LEMMA NumberedNext ==
    ASSUME NEW o \in Seq(Texts), IsNumbered(o)
    PROVE  LET k == Count(o, Bindvars) + 1 IN
           /\ k \in Nat \ {0} /\ <<Numbered(k)>> \in Seq(Texts)
           /\ IsNumbered(o \o <<Numbered(k)>>)
           /\ Count(o \o <<Numbered(k)>>, Bindvars) = k
           /\ Unnumbered(<<Numbered(k)>>) = <<Q>>
<1> DEFINE k == Count(o, Bindvars) + 1
           x == Numbered(k)
           t == <<x>>
           d == o \o t
           m == Len(o) + 1
           B(s) == Where(s, Bindvars)
<1>1. k \in Nat \ {0}
  <2>1. Count(o, Bindvars) \in Nat
    BY CountType
  <2> QED
    BY <2>1
<1>2. x \in Bindvars
  <2> HIDE DEF k
  <2> QED
    BY <1>1, TokensAndBindvars
<1> HIDE DEF x
<1>3. t \in Seq(Texts) /\ Len(t) = 1 /\ t[1] = x
  BY <1>2 DEF Texts
<1>4. Count(t, Bindvars) = 1
  BY <1>2, CountOne
<1>5. Unnumbered(t) = <<Q>>
  BY <1>2 DEF Unnumbered
<1> HIDE DEF t
<1>6. /\ d \in Seq(Texts) /\ Len(d) = Len(o) + Len(t)
      /\ (\A i \in 1..Len(o) : d[i] = o[i])
      /\ \A i \in Len(o) + 1..Len(o) + Len(t) : d[i] = t[i - Len(o)]
      /\ Count(d, Bindvars) = Count(o, Bindvars) + Count(t, Bindvars)
  BY <1>3, TextsConcat, Zenon
<1>7. Count(d, Bindvars) = k
  BY <1>4, <1>6
<1> HIDE DEF d
<1>8. Len(d) = m /\ d[m] = x /\ m \in Nat
  <2>1. m \in Len(o) + 1..Len(o) + Len(t) /\ m - Len(o) = 1
    BY <1>3
  <2> QED
    BY <1>3, <1>6, <2>1
<1>9. \A i \in 1..Len(o) : i \in B(d) <=> i \in B(o)
  <2> TAKE i \in 1..Len(o)
  <2>1. i \in DOMAIN o /\ i \in DOMAIN d /\ d[i] = o[i]
    BY <1>6, <1>8
  <2> QED
    BY <2>1 DEF Where
<1>10. /\ B(o) \subseteq 1..Len(o) /\ B(d) \subseteq 1..m /\ m \in B(d)
       /\ \A j \in B(d) : j \in 1..Len(o) \/ j = m
  <2>1. B(o) \subseteq 1..Len(o)
    BY DEF Where
  <2>2. B(d) \subseteq 1..m /\ m \in B(d)
    BY <1>2, <1>6, <1>8 DEF Where
  <2> HIDE DEF B
  <2>3. \A j \in 1..m : j \in 1..Len(o) \/ j = m
    OBVIOUS
  <2> QED
    BY <2>1, <2>2, <2>3
<1> HIDE DEF k
<1>11. ASSUME NEW i \in B(d)
       PROVE  d[i] = Numbered(Cardinality({j \in B(d) : j <= i}))
  <2>1. CASE i = m
    <3>1. {j \in B(d) : j <= i} = B(d)
      <4> HIDE DEF B
      <4>1. \A j \in B(d) : j <= i
        <5>1. \A j \in 1..m : j <= m
          OBVIOUS
        <5> QED
          BY <1>10, <2>1, <5>1
      <4> QED
        BY <4>1
    <3>2. Cardinality(B(d)) = k
      BY <1>7 DEF Count
    <3> QED
      BY <1>8, <2>1, <3>1, <3>2 DEF x
  <2>2. CASE i # m
    <3> HIDE DEF B, m
    <3>1. i \in 1..Len(o) /\ i \in B(o) /\ d[i] = o[i]
      BY <1>6, <1>9, <1>10, <2>2
    <3>2. ASSUME NEW j
          PROVE  j \in B(d) /\ j <= i <=> j \in B(o) /\ j <= i
      <4>1. m > i
        BY <3>1 DEF m
      <4>2. j = m => ~(j <= i)
        BY <3>1, <4>1 DEF m
      <4>3. j \in B(o) => j \in 1..Len(o)
        BY <1>10
      <4> QED
        BY <1>9, <1>10, <4>2, <4>3
    <3>3. {j \in B(d) : j <= i} = {j \in B(o) : j <= i}
      BY <3>2
    <3>4. o[i] = Numbered(Cardinality({j \in B(o) : j <= i}))
      BY <3>1, Zenon DEF IsNumbered, B
    <3> QED
      BY <3>1, <3>3, <3>4
  <2> QED
    BY <2>1, <2>2
<1>12. IsNumbered(d)
  BY <1>11, Zenon DEF IsNumbered
<1> QED
  BY <1>1, <1>3, <1>5, <1>7, <1>12 DEF d, t, x, k

LEMMA RebindFacts ==
    ASSUME Inv, pc = "rebind"
    PROVE  /\ op = "array" /\ query \in Seq(Tokens) /\ args \in Seq(Elements) /\ err = "none"
           /\ rest \in Seq(Tokens) /\ out \in Seq(Texts) /\ numbers \in BOOLEAN /\ arg \in Nat
           /\ offset = 0 /\ ArrayVerdict = "none"
           /\ \A a, b \in DOMAIN query :
                 IsValueGroup(query, a, b) =>
                    HasGroups(Unnumbered(out) \o rest, query, a, b, Len(args))
           /\ Count(out, Bindvars) + CountQ(rest) = Len(newArgs)
           /\ numbers => arg = Count(out, Bindvars) /\ IsNumbered(out)
           /\ ~numbers => out = <<>>
<1>1. op = "array"
  BY DEF Inv, TypeOK, OpInv
<1>2. /\ query \in Seq(Tokens) /\ args \in Seq(Elements) /\ err = "none"
      /\ rest \in Seq(Tokens) /\ out \in Seq(Texts) /\ numbers \in BOOLEAN /\ arg \in Nat
  BY <1>1 DEF Inv, TypeOK, OpInv, Texts
<1> QED
  BY <1>1, <1>2 DEF Inv, RebindInv

(* Where a sequence is cut at one of its tokens. *)
LEMMA CutAt ==
    ASSUME NEW s \in Seq(Tokens), NEW i \in 1..Len(s)
    PROVE  LET p == SubSeq(s, 1, i - 1)
               z == SubSeq(s, i + 1, Len(s))
           IN /\ p \in Seq(Tokens) /\ z \in Seq(Tokens) /\ <<s[i]>> \in Seq(Tokens)
              /\ Len(p) = i - 1 /\ \A j \in 1..i - 1 : p[j] = s[j]
              /\ s = (p \o <<s[i]>>) \o z
<1>1. i - 1 \in 0..Len(s) /\ i \in 0..Len(s) /\ Len(s) \in i..Len(s) /\ s[i] \in Tokens
  OBVIOUS
<1>2. /\ SubSeq(s, 1, i - 1) \in Seq(Tokens) /\ Len(SubSeq(s, 1, i - 1)) = i - 1
      /\ \A j \in 1..i - 1 : SubSeq(s, 1, i - 1)[j] = s[j]
  BY <1>1, PrefixType
<1>3. SubSeq(s, i + 1, Len(s)) \in Seq(Tokens)
  BY <1>1, SpanType
<1>4. SubSeq(s, 1, i) = SubSeq(s, 1, i - 1) \o <<s[i]>>
  <2>1. 1 \in 1..Len(s) /\ i \in 1..Len(s)
    BY <1>1
  <2> QED
    BY <2>1, SubSeqRecursiveSecond
<1>5. SubSeq(s, 1, i) \o SubSeq(s, i + 1, Len(s)) = s
  <2>1. 1 \in 1..Len(s) + 1 /\ i \in 1 - 1..Len(s) /\ Len(s) \in i..Len(s)
    BY <1>1
  <2>2. SubSeq(s, 1, i) \o SubSeq(s, i + 1, Len(s)) = SubSeq(s, 1, Len(s))
    BY <2>1, ConcatAdjacentSubSeq
  <2> QED
    BY <2>2, SubSeqFull
<1>6. s = (SubSeq(s, 1, i - 1) \o <<s[i]>>) \o SubSeq(s, i + 1, Len(s))
  BY <1>4, <1>5
<1>7. <<s[i]>> \in Seq(Tokens)
  BY <1>1
<1> QED
  BY <1>2, <1>3, <1>6, <1>7, Zenon

LEMMA RebindNextStep ==
    ASSUME Inv, RebindNext
    PROVE  Inv'
<1> DEFINE i == IndexQ(0)
           p == SubSeq(rest, 1, i - 1)
           z == SubSeq(rest, i + 1, Len(rest))
           k == Count(out, Bindvars) + 1
           t == <<Numbered(k)>>
           q == <<Q>>
           o == out \o p
           U == Unnumbered(out)
<1>1. /\ pc = "rebind" /\ numbers /\ i # 0
      /\ out' = (out \o p) \o <<Numbered(arg + 1)>> /\ rest' = z /\ arg' = arg + 1
      /\ op' = op /\ query' = query /\ args' = args /\ numbers' = numbers
      /\ pointed' = pointed /\ compiles' = compiles
      /\ pc' = pc /\ offset' = offset /\ newArgs' = newArgs /\ err' = err
  BY DEF RebindNext, RebindAt, input
<1>2. /\ op = "array" /\ args \in Seq(Elements) /\ err = "none"
      /\ rest \in Seq(Tokens) /\ out \in Seq(Texts)
      /\ offset = 0 /\ ArrayVerdict = "none"
      /\ Count(out, Bindvars) + CountQ(rest) = Len(newArgs)
      /\ arg = Count(out, Bindvars) /\ IsNumbered(out)
  BY <1>1, RebindFacts
<1>3. i \in 1..Len(rest) /\ rest[i] = Q /\ \A j \in 1..i - 1 : rest[j] # Q
  <2>1. 0 \in 0..Len(rest) /\ 0 + 1 = 1
    BY <1>2
  <2> QED
    BY <1>1, <1>2, <2>1, NextQ
<1>4. /\ p \in Seq(Tokens) /\ z \in Seq(Tokens) /\ q \in Seq(Tokens)
      /\ Len(p) = i - 1 /\ (\A j \in 1..i - 1 : p[j] = rest[j])
      /\ rest = (p \o q) \o z
  <2> HIDE DEF i
  <2> QED
    BY <1>2, <1>3, CutAt
<1>5. CountQ(p) = 0
  <2>1. \A j \in DOMAIN p : p[j] # Q
    BY <1>3, <1>4
  <2> QED
    BY <1>4, <2>1, CountQs
<1>q. CountQ(q) = 1
  BY CountQs
<1>o. out' = o \o t
  BY <1>1, <1>2
<1> HIDE DEF p, z, q
<1>6. p \in Seq(Texts) /\ Count(p, Bindvars) = 0 /\ Unnumbered(p) = p
  BY <1>4, <1>5, TokensAreTexts
<1>7. o \in Seq(Texts) /\ IsNumbered(o) /\ Count(o, Bindvars) = Count(out, Bindvars)
  BY <1>2, <1>6, TextsConcat, NumberedSame
<1>8. Unnumbered(o) = U \o p /\ U \in Seq(Tokens)
  BY <1>2, <1>6, UnnumberedConcat, UnnumberedTypes
<1> HIDE DEF o, U
<1>9. /\ k \in Nat \ {0} /\ t \in Seq(Texts) /\ IsNumbered(o \o t) /\ Count(o \o t, Bindvars) = k
      /\ Unnumbered(t) = q
  BY <1>7, NumberedNext, Zenon DEF q
<1> HIDE DEF t
<1>10. out' \in Seq(Texts) /\ Unnumbered(out') = (U \o p) \o q
  <2>1. o \o t \in Seq(Texts)
    BY <1>7, <1>9, TextsConcat
  <2>2. Unnumbered(o \o t) = Unnumbered(o) \o Unnumbered(t)
    BY <1>7, <1>9, UnnumberedConcat
  <2> QED
    BY <1>8, <1>9, <1>o, <2>1, <2>2
<1>11. Unnumbered(out') \o rest' = U \o rest
  <2>1. ((U \o p) \o q) \o z = (U \o p) \o (q \o z)
    <3>1. U \o p \in Seq(Tokens)
      BY <1>4, <1>8, ConcatTokens
    <3> QED
      BY <1>4, <3>1, Assoc
  <2>2. (U \o p) \o (q \o z) = U \o (p \o (q \o z))
    <3>1. q \o z \in Seq(Tokens)
      BY <1>4, ConcatTokens
    <3> QED
      BY <1>4, <1>8, <3>1, Assoc
  <2>3. p \o (q \o z) = (p \o q) \o z
    BY <1>4, Assoc
  <2> QED
    BY <1>1, <1>4, <1>10, <2>1, <2>2, <2>3
<1>12. CountQ(rest) = 1 + CountQ(z) /\ CountQ(z) \in Nat
  <2>1. p \o q \in Seq(Tokens)
    BY <1>4, ConcatTokens
  <2>2. CountQ(p \o q) = CountQ(p) + CountQ(q)
    BY <1>4, CountQs, Zenon
  <2>3. CountQ((p \o q) \o z) = CountQ(p \o q) + CountQ(z)
    BY <1>4, <2>1, CountQs, Zenon
  <2>4. CountQ(z) \in Nat
    BY <1>4, CountQs
  <2> QED
    BY <1>4, <1>5, <1>q, <2>2, <2>3, <2>4
<1>13. Count(out', Bindvars) + CountQ(rest') = Len(newArgs')
  <2>1. Count(out', Bindvars) = Count(out, Bindvars) + 1
    BY <1>9, <1>o
  <2>2. Count(out, Bindvars) \in Nat
    BY <1>2, CountType
  <2> QED
    BY <1>1, <1>2, <1>12, <2>1, <2>2
<1>14. TypeOK'
  <2>1. arg' \in Nat /\ rest' \in Seq(Tokens) /\ out' \in Seq(Tokens \cup Bindvars)
    BY <1>1, <1>2, <1>4, <1>9, <1>10 DEF Texts
  <2>2. offset' \in 0..Len(rest')
    BY <1>1, <1>2, <2>1
  <2> QED
    BY <1>1, <2>1, <2>2 DEF Inv, TypeOK
<1>15. RebindInv'
  <2>1. ArrayVerdict' = "none"
    BY <1>1, <1>2, VerdictSame
  <2>2. ASSUME NEW a \in DOMAIN query, NEW b \in DOMAIN query, IsValueGroup(query, a, b)
        PROVE  HasGroups(Unnumbered(out') \o rest', query, a, b, Len(args))
    <3>1. HasGroups(Unnumbered(out) \o rest, query, a, b, Len(args))
      BY <1>1, <2>2, RebindFacts
    <3> QED
      BY <1>11, <3>1 DEF U
  <2>3. arg' = Count(out', Bindvars) /\ IsNumbered(out')
    BY <1>1, <1>2, <1>9, <1>o
  <2> QED
    BY <1>1, <1>2, <1>13, <2>1, <2>2, <2>3 DEF RebindInv
<1>16. OpInv' /\ MeasureInv' /\ ExpandInv' /\ RowsInv'
  BY <1>1, <1>2 DEF OpInv, MeasureInv, ExpandInv, RowsInv
<1> QED
  BY <1>1, <1>14, <1>15, <1>16, NotYet DEF Inv

LEMMA RebindEndStep ==
    ASSUME Inv, RebindEnd
    PROVE  Inv'
<1> DEFINE o == out \o rest
<1>1. /\ pc = "rebind" /\ (~numbers \/ IndexQ(0) = 0) /\ out' = o /\ pc' = "done"
      /\ op' = op /\ query' = query /\ args' = args /\ numbers' = numbers
      /\ pointed' = pointed /\ compiles' = compiles
      /\ rest' = rest /\ offset' = offset /\ arg' = arg /\ newArgs' = newArgs /\ err' = err
  BY DEF RebindEnd, input
<1>2. /\ op = "array" /\ args \in Seq(Elements) /\ err = "none"
      /\ rest \in Seq(Tokens) /\ out \in Seq(Texts) /\ ArrayVerdict = "none"
      /\ Count(out, Bindvars) + CountQ(rest) = Len(newArgs) /\ numbers \in BOOLEAN
      /\ numbers => IsNumbered(out)
      /\ ~numbers => out = <<>>
  BY <1>1, RebindFacts
<1>3. rest \in Seq(Texts) /\ Count(rest, Bindvars) = CountQ(rest) /\ Unnumbered(rest) = rest
  BY <1>2, TokensAreTexts
<1>4. /\ o \in Seq(Texts) /\ Unnumbered(o) = Unnumbered(out) \o rest
      /\ Count(o, Bindvars) = Len(newArgs)
  <2>1. Count(o, Bindvars) = Count(out, Bindvars) + Count(rest, Bindvars)
    BY <1>2, <1>3, TextsConcat, Zenon
  <2>2. o \in Seq(Texts)
    BY <1>2, <1>3, TextsConcat
  <2>3. Unnumbered(o) = Unnumbered(out) \o Unnumbered(rest)
    BY <1>2, <1>3, UnnumberedConcat
  <2> QED
    BY <1>2, <1>3, <2>1, <2>2, <2>3
<1>5. numbers => IsNumbered(o)
  <2> SUFFICES ASSUME numbers
               PROVE  IsNumbered(o)
    OBVIOUS
  <2>1. \A j \in 1..Len(rest) : rest[j] # Q
    <3>1. 0 \in 0..Len(rest) /\ 0 + 1 = 1
      BY <1>2
    <3> QED
      BY <1>1, <1>2, <3>1, NextQ
  <2>2. CountQ(rest) = 0
    <3>1. DOMAIN rest = 1..Len(rest)
      BY <1>2
    <3> QED
      BY <1>2, <2>1, <3>1, CountQs
  <2> QED
    BY <1>2, <1>3, <2>2, NumberedSame
<1>6. ~numbers => \A i \in DOMAIN o : o[i] \in Bindvars => o[i] = Q
  <2> SUFFICES ASSUME ~numbers
               PROVE  \A i \in DOMAIN o : o[i] \in Bindvars => o[i] = Q
    OBVIOUS
  <2>1. o = rest
    BY <1>2
  <2>2. \A i \in DOMAIN rest : rest[i] \in Tokens
    BY <1>2
  <2> HIDE DEF o
  <2> QED
    BY <2>1, <2>2, TokensAndBindvars
<1> HIDE DEF o
<1>7. TypeOK'
  BY <1>1, <1>4 DEF Inv, TypeOK, Texts
<1>8. OpInv' /\ MeasureInv' /\ ExpandInv' /\ RowsInv' /\ RebindInv'
  BY <1>1, <1>2 DEF OpInv, MeasureInv, ExpandInv, RowsInv, RebindInv
<1>9. InExpandsInPlace'
  BY <1>1, <1>2 DEF InExpandsInPlace, Returned
<1>10. BindvarsMatchArgs'
  <2>1. Bound' = Where(o, Bindvars) /\ Bound' \subseteq DOMAIN o
    BY <1>1 DEF Bound, Where
  <2>2. Cardinality(Bound') = Len(newArgs)
    BY <1>4, <2>1 DEF Count
  <2>3. ASSUME NEW i \in Bound'
        PROVE  o[i] = IF numbers THEN Numbered(Cardinality({j \in Bound' : j <= i})) ELSE Q
    <3>1. CASE numbers
      <4>1. o[i] = Numbered(Cardinality({j \in Where(o, Bindvars) : j <= i}))
        BY <1>5, <2>1, <2>3, <3>1, Zenon DEF IsNumbered
      <4> QED
        BY <2>1, <3>1, <4>1
    <3>2. CASE ~numbers
      <4>1. i \in DOMAIN o /\ o[i] \in Bindvars
        BY <2>1, <2>3 DEF Where
      <4> QED
        BY <1>6, <3>2, <4>1
    <3> QED
      BY <3>1, <3>2
  <2> QED
    BY <1>1, <2>2, <2>3, Zenon DEF BindvarsMatchArgs
<1>11. GroupPerElement'
  <2>1. \A a, b \in DOMAIN query :
           IsValueGroup(query, a, b) => HasGroups(Unnumbered(o), query, a, b, Len(args))
    BY <1>1, <1>4, RebindFacts
  <2> QED
    BY <1>1, <2>1 DEF GroupPerElement
<1>12. RefusedForCause'
  <2>1. ArrayVerdict' = "none"
    BY <1>1, <1>2, VerdictSame
  <2> QED
    BY <1>1, <1>2, <2>1 DEF RefusedForCause
<1> QED
  BY <1>7, <1>8, <1>9, <1>10, <1>11, <1>12 DEF Inv
-----------------------------------------------------------------------------
LEMMA InitInv == Init => Inv
<1> SUFFICES ASSUME Init
             PROVE  Inv
  OBVIOUS
<1>1. /\ rest = query /\ offset = 0 /\ arg = 0 /\ out = <<>> /\ newArgs = <<>> /\ err = "none"
  BY DEF Init
<1>2. \/ /\ op = "in" /\ pc = "measure" /\ query \in Seq({Q, Other}) /\ args \in Seq(InArgs)
         /\ pointed = FALSE /\ compiles = TRUE /\ numbers = FALSE
      \/ /\ op = "array" /\ pc = "rows" /\ query \in Seq({Q, Open, Close, Other})
         /\ args \in Seq(Elements)
         /\ pointed \in BOOLEAN /\ compiles \in BOOLEAN /\ numbers \in BOOLEAN
  <2>1. \A S : \A n \in Nat : BoundedSeq(S, n) \subseteq Seq(S)
    BY DEF BoundedSeq, SeqOf
  <2>2. MaxLen \in Nat /\ MaxArgs \in Nat
    BY BoundsAssumption
  <2> QED
    BY <2>1, <2>2 DEF Init
<1>3. query \in Seq(Tokens)
  BY <1>2, SeqMonotonic, {Q, Other} \subseteq Tokens, {Q, Open, Close, Other} \subseteq Tokens DEF Tokens
<1>4. TypeOK
  <2>1. /\ op \in {"in", "array"} /\ args \in Seq(InArgs) \cup Seq(Elements)
        /\ pointed \in BOOLEAN /\ compiles \in BOOLEAN /\ numbers \in BOOLEAN
        /\ pc \in {"measure", "expand", "rows", "rebind", "done"}
    BY <1>2
  <2>2. offset \in 0..Len(rest) /\ arg \in Nat /\ rest \in Seq(Tokens) /\ err \in Errors
    BY <1>1, <1>3 DEF Errors
  <2>3. out \in Seq(Tokens \cup Bindvars) /\ newArgs \in Seq((1..Len(args)) \X Nat)
    BY <1>1
  <2> QED
    BY <1>3, <2>1, <2>2, <2>3 DEF TypeOK
<1>5. OpInv
  BY <1>1, <1>2 DEF OpInv
<1>6. MeasureInv
  BY <1>1, <1>2 DEF MeasureInv, Sound
<1>7. RowsInv
  <2> SUFFICES ASSUME pc = "rows"
               PROVE  RowsInv
    BY DEF RowsInv
  <2>1. CountQ(query) \in Nat /\ args \in Seq(Elements)
    BY <1>2, <1>3, CountQs
  <2>2. 0 * CountQ(query) = 0 /\ Len(<<>>) = 0 /\ 0 <= Len(args)
    BY <2>1
  <2> QED
    BY <1>1, <2>2 DEF RowsInv
<1>8. ExpandInv /\ RebindInv
  BY <1>2 DEF ExpandInv, RebindInv
<1>9. InExpandsInPlace /\ BindvarsMatchArgs /\ GroupPerElement /\ RefusedForCause
  <2>1. pc # "done"
    BY <1>2
  <2> QED
    BY <2>1 DEF InExpandsInPlace, BindvarsMatchArgs, GroupPerElement, RefusedForCause, Returned
<1> QED
  BY <1>4, <1>5, <1>6, <1>7, <1>8, <1>9 DEF Inv

LEMMA StutterInv ==
    ASSUME Inv, UNCHANGED vars
    PROVE  Inv'
<1>1. /\ op' = op /\ query' = query /\ args' = args /\ numbers' = numbers /\ pc' = pc
      /\ pointed' = pointed /\ compiles' = compiles
      /\ rest' = rest /\ offset' = offset /\ arg' = arg /\ out' = out /\ newArgs' = newArgs
      /\ err' = err
  BY DEF vars
<1>2. TypeOK' /\ OpInv' /\ MeasureInv' /\ RowsInv'
  BY <1>1 DEF Inv, TypeOK, OpInv, MeasureInv, RowsInv, Sound
<1>3. AnySlices' <=> AnySlices
  BY <1>1 DEF AnySlices
<1>4. Written' = Written /\ ReadUpTo' = ReadUpTo
  BY <1>1 DEF Written, ReadUpTo
<1>5. ExpandInv'
  BY <1>1, <1>3, <1>4 DEF Inv, ExpandInv, Sound
<1>6. Verdict' = Verdict /\ ArrayVerdict' = ArrayVerdict /\ InVerdict' = InVerdict
  BY <1>1, VerdictSame
<1>7. RebindInv'
  BY <1>1, <1>6 DEF Inv, RebindInv
<1>8. InExpandsInPlace'
  BY <1>1, <1>3 DEF Inv, InExpandsInPlace, Returned
<1>9. BindvarsMatchArgs'
  <2>1. Bound' = Bound
    BY <1>1 DEF Bound
  <2> QED
    BY <1>1, <1>3, <2>1 DEF Inv, BindvarsMatchArgs, Returned
<1>10. GroupPerElement'
  BY <1>1 DEF Inv, GroupPerElement, Returned
<1>11. RefusedForCause'
  BY <1>1, <1>6 DEF Inv, RefusedForCause
<1> QED
  BY <1>2, <1>5, <1>7, <1>8, <1>9, <1>10, <1>11 DEF Inv

(* Every state of In and of bindArray satisfies Inv. *)
THEOREM Invariance == Spec => []Inv
<1>1. Init => Inv
  BY InitInv
<1>2. Inv /\ [Next]_vars => Inv'
  <2> SUFFICES ASSUME Inv, [Next]_vars
               PROVE  Inv'
    OBVIOUS
  <2>1. CASE Measure \/ ValuerFails \/ PointerPanics \/ EmptySlice
    BY <2>1, MeasureSteps
  <2>2. CASE NothingToExpand
    BY <2>2, NothingStep
  <2>3. CASE StartExpanding
    BY <2>3, StartStep
  <2>4. CASE TooManyBindvars
    BY <2>4, TooManyStep
  <2>5. CASE KeepScalar
    BY <2>5, KeepScalarStep
  <2>6. CASE ExpandSlice
    BY <2>6, ExpandSliceStep
  <2>7. CASE TooFewBindvars
    BY <2>7, TooFewStep
  <2>8. CASE ReturnIn
    BY <2>8, ReturnInStep
  <2>9. CASE NotAnArray \/ EmptyArray \/ CompileFails \/ NoNames
    BY <2>9, RefusedSteps
  <2>11. CASE ReadElement
    BY <2>11, ReadElementStep
  <2>12. CASE NameMissing \/ NilPanics
    BY <2>12, BadElementSteps
  <2>13. CASE NoParentheses
    BY <2>13, NoParenthesesStep
  <2>14. CASE RepeatGroup
    BY <2>14, RepeatGroupStep
  <2>15. CASE RebindNext
    BY <2>15, RebindNextStep
  <2>16. CASE RebindEnd
    BY <2>16, RebindEndStep
  <2>17. CASE UNCHANGED vars
    BY <2>17, StutterInv
  <2> QED
    BY <2>1, <2>2, <2>3, <2>4, <2>5, <2>6, <2>7, <2>8, <2>9, <2>11, <2>12, <2>13, <2>14,
       <2>15, <2>16, <2>17 DEF Next
<1> QED
  BY <1>1, <1>2, PTL DEF Spec

(* The types: the query written so far is made of tokens and bindvars, an  *)
(* argument passed on is an element of one that was given, and In never    *)
(* skips more of the query than is left of it (bind.go, In and bindArray). *)
THEOREM TypeCorrect == Spec => []TypeOK
<1>1. Inv => TypeOK
  BY DEF Inv
<1> QED
  BY <1>1, Invariance, PTL

(* In writes the k-th bindvar of the query once for every element of the   *)
(* k-th argument, and passes the elements on in the same order, whatever   *)
(* slices and scalars are mixed (bind.go, In, the loop that moves offset). *)
THEOREM ExpandedInPlace == Spec => []InExpandsInPlace
<1>1. Inv => InExpandsInPlace
  BY DEF Inv
<1> QED
  BY <1>1, Invariance, PTL

(* An expanded query has one bindvar per argument, and Rebind numbers them *)
(* from 1 in their order, over all the repeated groups (bind.go, Rebind).  *)
THEOREM BindvarsMatched == Spec => []BindvarsMatchArgs
<1>1. Inv => BindvarsMatchArgs
  BY DEF Inv
<1> QED
  BY <1>1, Invariance, PTL

(* bindArray writes the group of values once per element with a comma in   *)
(* between, and leaves the text before and behind it alone (bind.go,       *)
(* bindArray, the steps 3 and 4).                                          *)
THEOREM GroupsRepeated == Spec => []GroupPerElement
<1>1. Inv => GroupPerElement
  BY DEF Inv
<1> QED
  BY <1>1, Invariance, PTL

(* A call that ends has the error of the first thing wrong with its        *)
(* arguments, and none if nothing is wrong (bind.go, the returns of In and *)
(* bindArray).                                                             *)
THEOREM RefusedRightly == Spec => []RefusedForCause
<1>1. Inv => RefusedForCause
  BY DEF Inv
<1> QED
  BY <1>1, Invariance, PTL
=============================================================================
