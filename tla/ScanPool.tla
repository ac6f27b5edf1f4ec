------------------------------ MODULE ScanPool ------------------------------
(***************************************************************************)
(* scanPool (engine.go): the sync.Pool of []any slices whose slots hold    *)
(* the field pointers rows.Scan writes through.  A buffer here is the      *)
(* backing array of a slice; its slots are one sequence, as long as the    *)
(* slice's capacity.  Calls borrow a buffer, point its first slots at the  *)
(* fields of a destination, and hand it back.                              *)
(***************************************************************************)
EXTENDS Naturals, Sequences

CONSTANTS
    Calls,     \* the scans that may borrow
    Bufs,      \* backing arrays; one neither pooled nor borrowed is garbage
    NoBuf, Nil

VARIABLES
    pool,      \* the buffers in scanPool
    slots,     \* slots[b]: the contents of b up to its capacity
    buf,       \* buf[c]: the buffer c has borrowed
    width      \* width[c]: the length of c's slice: its number of columns

poolVars == <<pool, slots, buf, width>>

PoolInit ==
    /\ pool = {}
    /\ slots = [b \in Bufs |-> <<>>]
    /\ buf = [c \in Calls |-> NoBuf]
    /\ width = [c \in Calls |-> 0]

Garbage == {b \in Bufs : b \notin pool /\ \A c \in Calls : buf[c] # b}

Nils(n) == [i \in 1..n |-> Nil]

Borrow(c, b, n) ==
    /\ buf' = [buf EXCEPT ![c] = b]
    /\ width' = [width EXCEPT ![c] = n]

(* getScanDest when the pool returns a slice that is large enough. *)
Reuse(c, n) ==
    \E b \in pool :
        /\ Len(slots[b]) >= n
        /\ pool' = pool \ {b}
        /\ Borrow(c, b, n)
        /\ UNCHANGED slots

(* getScanDest when the pool returns one that is too small, which is       *)
(* dropped, or nothing: sync.Pool may miss whatever it holds.              *)
Allocate(c, n) ==
    \E dropped \in SUBSET pool : \E b \in Garbage \cup dropped :
        /\ \A d \in dropped : Len(slots[d]) < n /\ dropped = {d}
        /\ pool' = pool \ dropped
        /\ slots' = [d \in Bufs |-> IF d = b THEN Nils(n)
                                    ELSE IF d \in dropped THEN <<>> ELSE slots[d]]
        /\ Borrow(c, b, n)

GetScanDest(c, n) == Reuse(c, n) \/ Allocate(c, n)

(* populateScanDest: every column gets a slot, a pointer into the          *)
(* destination dest or a discard slot.                                     *)
PopulateScanDest(c, dest) ==
    /\ slots' = [slots EXCEPT ![buf[c]] =
                    [i \in DOMAIN @ |-> IF i <= width[c] THEN <<c, dest>> ELSE @[i]]]
    /\ UNCHANGED <<pool, buf, width>>

HandBack(c) ==
    /\ pool' = pool \cup {buf[c]}
    /\ buf' = [buf EXCEPT ![c] = NoBuf]
    /\ width' = [width EXCEPT ![c] = 0]

PutWithoutClearing(c) == HandBack(c) /\ UNCHANGED slots

(* putScanDest: every slot up to the capacity is set to nil first. *)
PutScanDest(c) ==
    /\ slots' = [slots EXCEPT ![buf[c]] = Nils(Len(@))]
    /\ HandBack(c)

(* The garbage collector empties sync.Pools as it likes. *)
CollectPool ==
    /\ \E b \in pool : pool' = pool \ {b} /\ slots' = [slots EXCEPT ![b] = <<>>]
    /\ UNCHANGED <<buf, width>>
=============================================================================
