--------------------------- MODULE MCCompileCache ---------------------------
(* Three goroutines, so that one prepares a statement, one binds it in a   *)
(* transaction and one shares neither, over one query in two dialects and  *)
(* one query that does not compile; slices for two entries and three       *)
(* holders.                                                                *)
EXTENDS CompileCache, TLC

CONSTANTS p1, p2, p3, good, bad, s1, s2, s3, s4, s5, names

MCProcs == {p1, p2, p3}
MCQueries == {good, bad}
MCSlices == {s1, s2, s3, s4, s5}
MCCompiled ==
    [k \in [query : MCQueries, bindType : BindTypes] |->
        IF k.query = bad THEN SyntaxError
        ELSE [query |-> <<good, k.bindType>>, names |-> names]]

Symmetric == Permutations(MCProcs) \cup Permutations(MCSlices)
=============================================================================
