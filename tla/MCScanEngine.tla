---------------------------- MODULE MCScanEngine ----------------------------
(* Two calls: two goroutines, or a loop over SelectIter and a call made by *)
(* its body.  Two buffers: both borrowed, one borrowed and one pooled, or  *)
(* both pooled; columns 1 or 2, so a pooled buffer may be too small.       *)
EXTENDS ScanEngine, TLC

CONSTANTS c1, c2, b1, b2

MCCalls == {c1, c2}
MCBufs == {b1, b2}
Symmetric == Permutations(MCCalls) \cup Permutations(MCBufs)
=============================================================================
