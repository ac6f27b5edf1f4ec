--------------------------- MODULE MCCompileNamed ---------------------------
(* All queries of up to seven bytes, in the four dialects: two parameters    *)
(* with text between them, "::", ":=", and every way to end a query.       *)
EXTENDS CompileNamed
=============================================================================
