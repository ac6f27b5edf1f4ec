--------------------------- MODULE MCTypeMapCache ---------------------------
(* Three goroutines on one Mapper; two types that share a name (a struct   *)
(* declared in two functions), one of another name that cannot be mapped.  *)
EXTENDS TypeMapCache

CONSTANTS p1, p2, p3, user1, user2, untagged

MCProcs == {p1, p2, p3}
MCTypes == {user1, user2, untagged}
MCTypeName == [t \in MCTypes |-> IF t = untagged THEN "main.untagged" ELSE "main.user"]
MCUnmappable == {untagged}
=============================================================================
