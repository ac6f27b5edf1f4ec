---------------------------- MODULE MCFieldScan -----------------------------
(* Every declaration of a struct A of two fields that may hold, embed and  *)
(* point to B and A, and of a B of two fields that may do so with C and A. *)
EXTENDS FieldScan

CONSTANTS A, B, C

F(name, type, ptr, anonymous, tag) ==
    [name |-> name, type |-> type, ptr |-> ptr, anonymous |-> anonymous,
     exported |-> TRUE, tag |-> tag, off |-> 0]
x == <<"x">>
y == <<"y">>
OfScalar == {F(n, Scalar, p, FALSE, "none") : n \in {x, y}, p \in BOOLEAN}
Hold(t, p) == {F(x, t, p, FALSE, "none"), F(y, t, p, TRUE, "none")}
InA ==
    OfScalar \cup Hold(B, FALSE) \cup Hold(B, TRUE) \cup Hold(A, TRUE) \cup
    {F(<<"x", "y">>, Scalar, FALSE, FALSE, "name"), F(x, Scalar, FALSE, FALSE, "dash"),
     F(y, Scalar, TRUE, FALSE, "invalid"), F(x, B, FALSE, TRUE, "empty"),
     [F(x, B, FALSE, FALSE, "none") EXCEPT !.exported = FALSE]}
InB == OfScalar \cup Hold(C, FALSE) \cup Hold(C, TRUE) \cup Hold(A, TRUE)

(* The compiler's layout: a word for a scalar and for a pointer. *)
MCSize(s, t) ==
    LET Of(u, size(_)) == LET n == Len(s[u]) w(i) == IF s[u][i].ptr THEN 1 ELSE size(s[u][i].type)
                          IN IF n = 1 THEN w(1) ELSE w(1) + w(2)
        One(u) == 1
        SizeC(u) == IF u = C THEN Of(C, One) ELSE 1
        SizeB(u) == IF u = B THEN Of(B, SizeC) ELSE SizeC(u)
    IN IF t = A THEN Of(A, SizeB) ELSE SizeB(t)
LaidOut(s) ==
    [t \in Types |-> [i \in DOMAIN s[t] |->
        [s[t][i] EXCEPT !.off = IF i = 1 THEN 0
                                ELSE IF s[t][1].ptr THEN 1 ELSE MCSize(s, s[t][1].type)]]]
MCShapes ==
    {LaidOut([t \in {A, B, C} |->
        CASE t = A -> a [] t = B -> b [] t = C -> <<F(y, Scalar, FALSE, FALSE, "none")>>]) :
     a \in InA \X InA, b \in InB \X OfScalar}
MCWords == {"x", "y"}
=============================================================================
