---------------------------- MODULE MCMetaCache ----------------------------
(* Two goroutines scan into two struct types.  A column list is a sequence *)
(* of names and a name a sequence of letters: hashColumns feeds the        *)
(* letters of all names to FNV-1a with no separator, so lists collide when *)
(* their names run together the same.  The three lists here all do.        *)
EXTENDS MetaCache, SequencesExt

CONSTANTS p1, p2, User, Order, snake, upper, idField, nameField

AB == <<"a", "b">>
C == <<"c">>
A == <<"a">>
BC == <<"b", "c">>

ABC == <<"a", "b", "c">>

MCCols == {<<AB, C>>, <<A, BC>>, <<ABC>>}
MCColumnHash == [c \in MCCols |-> FlattenSeq(c)]
MCProcs == {p1, p2}
MCTypes == {User, Order}
MCFields == {idField, nameField}
OneMapper == {snake}
TwoMappers == {snake, upper}

(* User has a field for the columns of the first and the third list, Order *)
(* for those of the second and one of the first; the upper-casing Mapper   *)
(* knows no column by these names.                                         *)
MCNames ==
    [m \in TwoMappers |->
       IF m = upper THEN [t \in MCTypes |-> <<>>]
       ELSE [t \in MCTypes |->
               IF t = User
               THEN [n \in {AB, C, ABC} |-> IF n = C THEN nameField ELSE idField]
               ELSE [n \in {AB, A, BC} |-> IF n = AB THEN nameField ELSE idField]]]
=============================================================================
