---------------------------- MODULE MCStatements ----------------------------
(* Two Mappers, two types of the same columns but with fields of their     *)
(* own, one with a malformed tag, and a column only the Mapper of the      *)
(* program knows; result sets in two orders and of another length.         *)
EXTENDS Statements

MCMappers == {"default", "own"}
MCTypes == {"T", "U"}
MCBadTags == {"U"}
MCColumns == {"a", "b"}
MCColumnLists == {<<"a", "b">>, <<"b", "a">>, <<"a">>}
MCFieldFor == [m \in MCMappers |-> [t \in MCTypes |-> [c \in MCColumns |->
    IF c = "b" /\ m = "default" THEN None ELSE t \o "." \o c \o m]]]

MCConfigs == {[mapper |-> "own", unsafe |-> FALSE, strict |-> TRUE],
              [mapper |-> "default", unsafe |-> TRUE, strict |-> FALSE]}

(* A DB as NewDb makes it and one with both the modes set, and result sets *)
(* of one column, which the default Mapper has a field for or not.         *)
MCModes == {Plain, [Plain EXCEPT !.unsafe = TRUE, !.strict = TRUE]}
MCResultSets == {<<"a">>, <<"b">>}

(* An element the default Mapper finds every name in, and one only the     *)
(* program's own does.                                                     *)
MCElements == {"both", "ownOnly"}
MCBinds == [m \in MCMappers |-> [e \in MCElements |-> e = "both" \/ m = "own"]]
=============================================================================
