------------------------- MODULE ScanEngine_proofs -------------------------
(***************************************************************************)
(* Proofs about the query calls: a scan buffer has one user, its slots     *)
(* point into the row being read, results are complete or reported, and    *)
(* connections and buffers come back, for any number of calls, rows,       *)
(* columns, buffers and connections.                                       *)
(*                                                                         *)
(* The inductive invariant Inv says of every call what holds at its place *)
(* in the code, and of the pool what holds of every buffer.                *)
(***************************************************************************)
EXTENDS ScanEngine, SequenceTheorems, TLAPS

(* What is true of one call, place by place in its code. *)
BeforeRows(c) ==      \* no Rows yet
    pc[c] \in {"idle", "query"} =>
       /\ fetched[c] = 0 /\ got[c] = 0 /\ err[c] = "nil" /\ ~stopped[c]
       /\ pc[c] = "query" => rows[c] # "open"

Reading(c) ==         \* the rows are being read
    pc[c] \in {"prepare", "next", "populate", "scan", "body"} =>
       /\ err[c] = "nil" /\ ~stopped[c]
       /\ rows[c] \in {"open", "closed"}
       /\ fault[c] = IF rows[c] = "open" THEN "none" ELSE "read"

AtRow(c) ==           \* how many rows have gone where
    /\ pc[c] \in {"scan", "populate"} /\ ~(pc[c] = "populate" /\ op[c] = "RowStructScan")
          => fetched[c] = got[c] + 1
    /\ pc[c] = "populate" /\ op[c] = "RowStructScan" => fetched[c] = 0 /\ got[c] = 0
    /\ pc[c] \in {"prepare", "next", "body"} => fetched[c] = got[c]
    /\ pc[c] = "prepare" => got[c] = 0
    /\ pc[c] = "body" \/ stopped[c] => op[c] = "SelectIter"
    /\ pc[c] \in {"next", "populate", "scan"} /\ op[c] \in SingleRow => got[c] = 0

Ended(c) ==           \* what the error of a call that has read its rows says of them
    pc[c] \in {"put", "close", "report", "returned"} =>
       /\ err[c] = "nil" /\ ~stopped[c] =>
             /\ fault[c] # "close"
             /\ IF op[c] \in SingleRow
                THEN got[c] = 1 \/ (op[c] = "Get" /\ pc[c] # "returned" /\ got[c] = 0
                                       /\ total[c] = 0 /\ fault[c] = "eof")
                ELSE got[c] = total[c] /\ fault[c] = "eof"
       /\ err[c] = "norows" => total[c] = 0 /\ fault[c] \in {"eof", "close"}

Released(c) ==        \* who still holds a buffer, and whose rows may be open
    /\ pc[c] \in {"idle", "query", "prepare", "report", "returned"} => buf[c] = NoBuf
    /\ pc[c] = "close" /\ op[c] # "RowStructScan" => buf[c] = NoBuf
    /\ pc[c] = "populate" => buf[c] # NoBuf
    /\ pc[c] = "report" => op[c] = "SelectIter" /\ err[c] # "nil" /\ rows[c] # "open"
    /\ pc[c] = "put" /\ op[c] = "RowStructScan" => rows[c] # "open" \/ err[c] = "plan"
    /\ pc[c] = "returned" /\ rows[c] = "open"
          => op[c] = "RowStructScan" /\ err[c] \in {"dest", "plan"}

Counts(c) == got[c] <= fetched[c] /\ fetched[c] <= total[c]

CallInv(c) ==
    Counts(c) /\ BeforeRows(c) /\ Reading(c) /\ AtRow(c) /\ Ended(c) /\ Released(c)

(* What is true of the buffers: a borrowed one is long enough, and its     *)
(* first slots point to the row from populate until the row is read.       *)
Populated(c) ==
    buf[c] # NoBuf /\ (pc[c] = "scan" \/ (pc[c] = "next" /\ op[c] = "RowStructScan"))

LongEnough == \A c \in Calls : buf[c] # NoBuf => width[c] <= Len(slots[buf[c]])

SlotsFilled ==
    \A c \in Calls : Populated(c) =>
       \A i \in 1..width[c] : slots[buf[c]][i] = <<c, Target(c)>>

PoolInv == BufferHasOneUser /\ LongEnough /\ SlotsFilled /\ PoolIsClear

-----------------------------------------------------------------------------
CallVarsTyped ==
    /\ pc \in [Calls -> PCs]
    /\ op \in [Calls -> Ops]
    /\ parent \in [Calls -> Calls \cup {NoCall}]
    /\ rows \in [Calls -> {"none", "open", "closed"}]
    /\ total \in [Calls -> 0..MaxRows]
    /\ fetched \in [Calls -> 0..MaxRows]
    /\ got \in [Calls -> 0..MaxRows]
    /\ fault \in [Calls -> {"none", "eof", "read", "close"}]
    /\ err \in [Calls -> Errors]
    /\ stopped \in [Calls -> BOOLEAN]
    /\ late \in [Calls -> BOOLEAN]

Pointers == (Calls \X Nat) \cup {Nil}

PoolTyped ==
    /\ pool \subseteq Bufs
    /\ slots \in [Bufs -> Seq(Pointers)]
    /\ buf \in [Calls -> Bufs \cup {NoBuf}]
    /\ width \in [Calls -> Nat]

(* TypeOK, as the types of the calls' variables and of the pool's. *)
LEMMA TypeOKSplit == TypeOK <=> CallVarsTyped /\ PoolTyped
BY DEF TypeOK, CallVarsTyped, PoolTyped, Pointers

-----------------------------------------------------------------------------
(* The scan buffers, whatever the calls do.                                *)

(* n slots that are all nil make a buffer of length n. *)
LEMMA NilsAreSlots ==
    ASSUME NEW n \in Nat
    PROVE  Nils(n) \in Seq(Pointers) /\ Len(Nils(n)) = n /\ DOMAIN Nils(n) = 1..n
<1>1. Nils(n) \in [1..n -> Pointers]
  BY DEF Nils, Pointers
<1> QED
  BY <1>1, SeqDef DEF Nils

(* Overwriting slots of a buffer keeps its length. *)
LEMMA OverwriteKeepsLength ==
    ASSUME NEW s \in Seq(Pointers), NEW t \in [DOMAIN s -> Pointers]
    PROVE  t \in Seq(Pointers) /\ Len(t) = Len(s)
<1>1. DOMAIN s = 1..Len(s) /\ Len(s) \in Nat
  BY LenProperties
<1> QED
  BY <1>1, SeqDef

(* getScanDest keeps the types of the pool. *)
LEMMA GetScanDestTyped ==
    ASSUME PoolTyped, NEW c \in Calls, NEW n \in Nat, GetScanDest(c, n)
    PROVE  PoolTyped'
<1>1. CASE Reuse(c, n)
  BY <1>1 DEF Reuse, Borrow, PoolTyped
<1>2. CASE Allocate(c, n)
  <2>0. PICK dropped \in SUBSET pool : \E b \in Garbage \cup dropped :
           /\ pool' = pool \ dropped
           /\ slots' = [d \in Bufs |-> IF d = b THEN Nils(n)
                                       ELSE IF d \in dropped THEN <<>> ELSE slots[d]]
           /\ Borrow(c, b, n)
    BY <1>2 DEF Allocate
  <2>1. PICK b \in Garbage \cup dropped :
           /\ pool' = pool \ dropped
           /\ slots' = [d \in Bufs |-> IF d = b THEN Nils(n)
                                       ELSE IF d \in dropped THEN <<>> ELSE slots[d]]
           /\ Borrow(c, b, n)
    BY <2>0
  <2>2. b \in Bufs
    BY DEF Garbage, PoolTyped
  <2>3. <<>> \in Seq(Pointers) /\ Nils(n) \in Seq(Pointers)
    BY NilsAreSlots, EmptySeq
  <2>4. slots' \in [Bufs -> Seq(Pointers)]
    BY <2>1, <2>3 DEF PoolTyped
  <2> QED
    BY <2>1, <2>2, <2>4 DEF Borrow, PoolTyped
<1> QED
  BY <1>1, <1>2 DEF GetScanDest

(* populateScanDest points the first slots of c's buffer at r, keeps
   the length of the buffer, and touches no other. *)
LEMMA PopulateTyped ==
    ASSUME PoolTyped, NEW c \in Calls, NEW r \in Nat, buf[c] # NoBuf, PopulateScanDest(c, r)
    PROVE  /\ PoolTyped'
           /\ \A b \in Bufs \ {buf[c]} : slots'[b] = slots[b]
           /\ Len(slots'[buf[c]]) = Len(slots[buf[c]])
           /\ \A i \in 1..Len(slots[buf[c]]) : i <= width[c] => slots'[buf[c]][i] = <<c, r>>
<1> DEFINE s == slots[buf[c]]
<1> DEFINE t == [i \in DOMAIN s |-> IF i <= width[c] THEN <<c, r>> ELSE s[i]]
<1>1. s \in Seq(Pointers) /\ buf[c] \in Bufs
  BY DEF PoolTyped
<1>2. DOMAIN s = 1..Len(s) /\ s \in [1..Len(s) -> Pointers] /\ Len(s) \in Nat
  BY <1>1, LenProperties
<1>3. t \in [DOMAIN s -> Pointers]
  BY <1>2 DEF Pointers
<1>4. t \in Seq(Pointers) /\ Len(t) = Len(s)
  BY <1>1, <1>3, OverwriteKeepsLength
<1>5. slots' = [slots EXCEPT ![buf[c]] = t] /\ UNCHANGED <<pool, buf, width>>
  BY DEF PopulateScanDest
<1>6. slots'[buf[c]] = t
  BY <1>1, <1>5 DEF PoolTyped
<1>7. PoolTyped' /\ \A b \in Bufs \ {buf[c]} : slots'[b] = slots[b]
  BY <1>1, <1>4, <1>5 DEF PoolTyped
<1> QED
  BY <1>2, <1>4, <1>6, <1>7

(* putScanDest clears c's buffer, up to its capacity, and no other. *)
LEMMA PutTyped ==
    ASSUME PoolTyped, NEW c \in Calls, buf[c] # NoBuf, PutScanDest(c)
    PROVE  /\ PoolTyped'
           /\ \A b \in Bufs \ {buf[c]} : slots'[b] = slots[b]
           /\ \A i \in DOMAIN slots'[buf[c]] : slots'[buf[c]][i] = Nil
<1>1. slots[buf[c]] \in Seq(Pointers) /\ buf[c] \in Bufs
  BY DEF PoolTyped
<1>2. Len(slots[buf[c]]) \in Nat
  BY <1>1, LenProperties
<1>3. slots' = [slots EXCEPT ![buf[c]] = Nils(Len(slots[buf[c]]))]
  BY DEF PutScanDest
<1>4. Nils(Len(slots[buf[c]])) \in Seq(Pointers)
  BY <1>2, NilsAreSlots
<1>5. slots'[buf[c]] = Nils(Len(slots[buf[c]]))
  BY <1>1, <1>3 DEF PoolTyped
<1>6. \A i \in DOMAIN slots'[buf[c]] : slots'[buf[c]][i] = Nil
  BY <1>5 DEF Nils
<1>7. PoolTyped' /\ \A b \in Bufs \ {buf[c]} : slots'[b] = slots[b]
  BY <1>1, <1>3, <1>4 DEF PoolTyped, PutScanDest, HandBack
<1> QED
  BY <1>6, <1>7

(* The garbage collector keeps the types of the pool. *)
LEMMA CollectTyped ==
    ASSUME PoolTyped, CollectPool
    PROVE  PoolTyped'
BY EmptySeq DEF PoolTyped, CollectPool

-----------------------------------------------------------------------------
(* Next, action by action. *)
CallStep(c) ==
    \/ \E o \in Ops, d \in Calls \cup {NoCall} : Start(c, o, d)
    \/ Query(c) \/ QueryFails(c) \/ Step(c) \/ Continue(c) \/ Break(c) \/ Cancel(c)

(* The next-state relation, call by call. *)
LEMMA NextSplit == Next <=> (\E c \in Calls : CallStep(c)) \/ CollectGarbage
BY DEF Next, CallStep

(* What a step of one call leaves alone of another. *)
Same(e) ==
    /\ pc'[e] = pc[e] /\ op'[e] = op[e]
    /\ rows'[e] = rows[e] /\ total'[e] = total[e] /\ fetched'[e] = fetched[e]
    /\ got'[e] = got[e] /\ fault'[e] = fault[e] /\ err'[e] = err[e]
    /\ stopped'[e] = stopped[e] /\ buf'[e] = buf[e] /\ width'[e] = width[e]

(* A step of call c leaves what another call has as it is. *)
LEMMA OthersSame ==
    ASSUME CallVarsTyped, PoolTyped, NEW c \in Calls, CallStep(c), NEW e \in Calls \ {c}
    PROVE  Same(e)
<1>1. ASSUME NEW o, NEW d, Start(c, o, d) PROVE Same(e)
  BY <1>1 DEF CallVarsTyped, PoolTyped, Same, Start, Goto, Fail, poolVars
<1>2. ASSUME Query(c) PROVE Same(e)
  BY <1>2 DEF CallVarsTyped, PoolTyped, Same, Query, Goto, rowVars, callVars, Fail, poolVars
<1>3. ASSUME QueryFails(c) PROVE Same(e)
  BY <1>3 DEF CallVarsTyped, PoolTyped, Same, QueryFails, Goto, rowVars, callVars, Fail, poolVars
<1>4. ASSUME WrongDest(c) PROVE Same(e)
  BY <1>4 DEF CallVarsTyped, PoolTyped, Same, WrongDest, Goto, rowVars, callVars, Fail, poolVars
<1>5. ASSUME ColumnsFail(c) PROVE Same(e)
  BY <1>5 DEF CallVarsTyped, PoolTyped, Same, ColumnsFail, Goto, rowVars, callVars, Fail, poolVars
<1>6. ASSUME PlanFails(c) PROVE Same(e)
  BY <1>6 DEF CallVarsTyped, PoolTyped, Same, PlanFails, Goto, rowVars, callVars, Fail, poolVars
<1>7. ASSUME ScanDirectly(c) PROVE Same(e)
  BY <1>7 DEF CallVarsTyped, PoolTyped, Same, ScanDirectly, Goto, rowVars, callVars, Fail, poolVars
<1>8. ASSUME ScanStruct(c) PROVE Same(e)
  BY <1>8 DEF CallVarsTyped, PoolTyped, Same, ScanStruct, Goto, rowVars, callVars, Fail, poolVars, GetScanDest, Reuse, Allocate, Borrow
<1>9. ASSUME Populate(c) PROVE Same(e)
  BY <1>9 DEF CallVarsTyped, PoolTyped, Same, Populate, Goto, rowVars, callVars, Fail, poolVars, PopulateScanDest
<1>10. ASSUME PopulateFails(c) PROVE Same(e)
  BY <1>10 DEF CallVarsTyped, PoolTyped, Same, PopulateFails, Goto, rowVars, callVars, Fail, poolVars
<1>11. ASSUME NextRow(c) PROVE Same(e)
  BY <1>11 DEF CallVarsTyped, PoolTyped, Same, NextRow, Goto, rowVars, callVars, Fail, poolVars
<1>12. ASSUME NextEnds(c) PROVE Same(e)
  BY <1>12 DEF CallVarsTyped, PoolTyped, Same, NextEnds, Goto, rowVars, callVars, Fail, poolVars
<1>13. ASSUME ScanFails(c) PROVE Same(e)
  BY <1>13 DEF CallVarsTyped, PoolTyped, Same, ScanFails, Goto, rowVars, callVars, Fail, poolVars
<1>14. ASSUME Scan(c) PROVE Same(e)
  BY <1>14 DEF CallVarsTyped, PoolTyped, Same, Scan, Goto, rowVars, callVars, Fail, poolVars
<1>15. ASSUME Continue(c) PROVE Same(e)
  BY <1>15 DEF CallVarsTyped, PoolTyped, Same, Continue, Goto, rowVars, callVars, Fail, poolVars
<1>16. ASSUME Break(c) PROVE Same(e)
  BY <1>16 DEF CallVarsTyped, PoolTyped, Same, Break, Goto, rowVars, callVars, Fail, poolVars
<1>17. ASSUME Put(c) PROVE Same(e)
  BY <1>17 DEF CallVarsTyped, PoolTyped, Same, Put, Goto, rowVars, callVars, Fail, poolVars, PutScanDest, HandBack
<1>18. ASSUME Close(c) PROVE Same(e)
  BY <1>18 DEF CallVarsTyped, PoolTyped, Same, Close, Goto, rowVars, callVars, Fail, poolVars
<1>19. ASSUME Report(c) PROVE Same(e)
  BY <1>19 DEF CallVarsTyped, PoolTyped, Same, Report, Goto, rowVars, callVars, Fail, poolVars
<1>20. ASSUME Done(c) PROVE Same(e)
  BY <1>20 DEF CallVarsTyped, PoolTyped, Same, Done, Goto, rowVars, callVars, Fail, poolVars
<1>21. ASSUME Cancel(c) PROVE Same(e)
  BY <1>21 DEF CallVarsTyped, PoolTyped, Same, Cancel, Goto, rowVars, callVars, Fail, poolVars
<1> QED
  BY <1>1, <1>2, <1>3, <1>4, <1>5, <1>6, <1>7, <1>8, <1>9, <1>10, <1>11, <1>12, <1>13, <1>14, <1>15, <1>16, <1>17, <1>18, <1>19, <1>20, <1>21 DEF CallStep, Step

(* What CallInv says of a call depends on nothing but the call. *)
LEMMA SameKeepsCallInv ==
    ASSUME NEW e \in Calls, Same(e), CallInv(e)
    PROVE  CallInv(e)'
BY DEF Same, CallInv, Counts, BeforeRows, Reading, AtRow, Ended, Released

(* An idle call has the name of some function. *)
LEMMA AnyOpInOps == AnyOp \in Ops
BY OpsAssumption DEF AnyOp

(* A step of a call keeps what is true of it: its variables' types ... *)
LEMMA CallTypes ==
    ASSUME CallVarsTyped, NEW c \in Calls, CallInv(c), CallStep(c)
    PROVE  CallVarsTyped'
<1> USE DEF CallVarsTyped, PCs, Errors, Goto, Fail
<1>1. ASSUME NEW o \in Ops, NEW d \in Calls \cup {NoCall}, Start(c, o, d) PROVE CallVarsTyped'
  BY <1>1 DEF Start
<1>2. CASE Query(c)
  BY <1>2, BoundsAssumption DEF Query, rowVars, callVars
<1>3. CASE QueryFails(c)
  BY <1>3 DEF QueryFails, rowVars, callVars
<1>4. CASE WrongDest(c)
  BY <1>4 DEF WrongDest, rowVars, callVars
<1>5. CASE ColumnsFail(c)
  BY <1>5 DEF ColumnsFail, rowVars, callVars
<1>6. CASE PlanFails(c)
  BY <1>6 DEF PlanFails, rowVars, callVars
<1>7. CASE ScanDirectly(c)
  BY <1>7 DEF ScanDirectly, rowVars, callVars
<1>8. CASE ScanStruct(c)
  BY <1>8 DEF ScanStruct, rowVars, callVars
<1>9. CASE Populate(c)
  BY <1>9 DEF Populate, rowVars, callVars
<1>10. CASE PopulateFails(c)
  BY <1>10 DEF PopulateFails, rowVars, callVars
<1>11. CASE NextRow(c)
  BY <1>11, BoundsAssumption DEF NextRow, rowVars, callVars, CallInv, Counts
<1>12. CASE NextEnds(c)
  BY <1>12 DEF NextEnds, rowVars, callVars, Exit, EndError
<1>13. CASE ScanFails(c)
  BY <1>13 DEF ScanFails, rowVars, callVars, Exit
<1>14. CASE Scan(c)
  BY <1>14, BoundsAssumption DEF Scan, rowVars, callVars, Exit, CallInv, Counts, AtRow
<1>15. CASE Continue(c)
  BY <1>15 DEF Continue, rowVars, callVars
<1>16. CASE Break(c)
  BY <1>16 DEF Break, rowVars, callVars, Exit
<1>17. CASE Put(c)
  BY <1>17 DEF Put, rowVars, callVars, AfterPut
<1>18. CASE Close(c)
  BY <1>18 DEF Close, rowVars, callVars, AfterClose, CloseError
<1>19. CASE Report(c)
  BY <1>19 DEF Report, rowVars, callVars
<1>20. CASE Done(c)
  BY <1>20, BoundsAssumption, AnyOpInOps DEF Done, rowVars, callVars
<1>21. CASE Cancel(c)
  BY <1>21 DEF Cancel, rowVars, callVars
<1> QED
  BY <1>1, <1>2, <1>3, <1>4, <1>5, <1>6, <1>7, <1>8, <1>9, <1>10, <1>11, <1>12, <1>13, <1>14, <1>15, <1>16, <1>17, <1>18, <1>19, <1>20, <1>21 DEF CallStep, Step

(* ... and what holds at its place in the code. *)
LEMMA CallKeepsInv ==
    ASSUME CallVarsTyped, PoolTyped, NEW c \in Calls, CallInv(c), CallStep(c)
    PROVE  CallInv(c)'
<1> USE DistinctAssumption DEF CallVarsTyped, PoolTyped, Goto, Fail,
        CallInv, Counts, BeforeRows, Reading, AtRow, Ended, Released
<1>1. ASSUME NEW o \in Ops, NEW d \in Calls \cup {NoCall}, Start(c, o, d) PROVE CallInv(c)'
  BY <1>1 DEF Start, poolVars
<1>2. CASE Query(c)
  BY <1>2 DEF Query, rowVars, callVars, poolVars
<1>3. CASE QueryFails(c)
  BY <1>3 DEF QueryFails, rowVars, callVars, poolVars
<1>4. CASE WrongDest(c)
  BY <1>4 DEF WrongDest, rowVars, callVars, poolVars, SingleRow
<1>5. CASE ColumnsFail(c)
  BY <1>5 DEF ColumnsFail, rowVars, callVars, poolVars
<1>6. CASE PlanFails(c)
  BY <1>6 DEF PlanFails, rowVars, callVars, poolVars
<1>7. CASE ScanDirectly(c)
  BY <1>7 DEF ScanDirectly, rowVars, callVars, poolVars, SingleRow
<1>8. CASE ScanStruct(c)
  <2>1. PICK n \in 1..MaxCols : GetScanDest(c, n)
    BY <1>8 DEF ScanStruct
  <2>2. \E b \in Bufs : buf' = [buf EXCEPT ![c] = b]
    BY <2>1 DEF GetScanDest, Reuse, Allocate, Borrow, Garbage
  <2>3. buf'[c] # NoBuf
    BY <2>2
  <2> QED
    BY <1>8, <2>3 DEF ScanStruct, rowVars, callVars
<1>9. CASE Populate(c)
  BY <1>9 DEF Populate, rowVars, callVars, poolVars, PopulateScanDest, SingleRow
<1>10. CASE PopulateFails(c)
  BY <1>10 DEF PopulateFails, rowVars, callVars, poolVars
<1>11. CASE NextRow(c)
  BY <1>11 DEF NextRow, rowVars, callVars, poolVars, SingleRow
<1>12. CASE NextEnds(c)
  BY <1>12 DEF NextEnds, rowVars, callVars, Exit, EndError, poolVars, SingleRow
<1>13. CASE ScanFails(c)
  BY <1>13 DEF ScanFails, rowVars, callVars, Exit, poolVars, SingleRow
<1>14. CASE Scan(c)
  BY <1>14 DEF Scan, rowVars, callVars, Exit, poolVars, SingleRow
<1>15. CASE Continue(c)
  BY <1>15 DEF Continue, rowVars, callVars, poolVars, SingleRow
<1>16. CASE Break(c)
  BY <1>16 DEF Break, rowVars, callVars, Exit, poolVars
<1>17. CASE Put(c)
  BY <1>17 DEF Put, rowVars, callVars, AfterPut, poolVars, PutScanDest, HandBack
<1>18. CASE Close(c)
  <2> DEFINE found(e) == IF op[c] = "Get" /\ e = "nil" /\ got[c] = 0 THEN "norows" ELSE e
  <2>1. UNCHANGED <<op, total, fetched, got, stopped, buf>> /\ pc[c] = "close"
    BY <1>18 DEF Close, callVars, poolVars
  <2>2. rows'[c] = "closed"
    BY <1>18 DEF Close
  <2>3. \/ err'[c] = found(err[c]) /\ fault'[c] = fault[c]
        \/ err'[c] = found(IF err[c] = "nil" THEN "close" ELSE err[c]) /\ fault'[c] = "close"
    BY <1>18 DEF Close, CloseError
  <2>4. pc'[c] = IF op[c] = "RowStructScan" THEN "put"
                 ELSE IF op[c] = "SelectIter" /\ err'[c] # "nil" THEN "report" ELSE "returned"
    BY <1>18 DEF Close, AfterClose
  <2>5. Ended(c)'
    BY <2>1, <2>3, <2>4 DEF SingleRow
  <2>6. buf[c] = NoBuf \/ op[c] = "RowStructScan"
    BY <2>1
  <2>7. Released(c)'
    BY <2>1, <2>2, <2>4, <2>6
  <2> QED
    BY <2>1, <2>2, <2>4, <2>5, <2>7
<1>19. CASE Report(c)
  BY <1>19 DEF Report, rowVars, callVars, poolVars, SingleRow
<1>20. CASE Done(c)
  BY <1>20 DEF Done, rowVars, callVars, poolVars
<1>21. CASE Cancel(c)
  BY <1>21 DEF Cancel, rowVars, callVars, poolVars, SingleRow
<1> QED
  BY <1>1, <1>2, <1>3, <1>4, <1>5, <1>6, <1>7, <1>8, <1>9, <1>10, <1>11, <1>12, <1>13, <1>14, <1>15, <1>16, <1>17, <1>18, <1>19, <1>20, <1>21 DEF CallStep, Step

-----------------------------------------------------------------------------
(* The pool.  Outside ScanStruct, Populate, Put and CollectGarbage a step   *)
(* of a call leaves the buffers as they are.                               *)
Inv == CallVarsTyped /\ PoolTyped /\ (\A c \in Calls : CallInv(c)) /\ PoolInv

(* A step that leaves the buffers alone and brings no call to a place
   where its slots must be filled keeps PoolInv. *)
LEMMA SamePoolKeepsInv ==
    ASSUME Inv, NEW c \in Calls, CallStep(c), CallInv(c)', UNCHANGED poolVars,
           Populated(c)' => Populated(c) /\ Target(c)' = Target(c)
    PROVE  PoolInv'
<1>1. UNCHANGED <<pool, slots, buf, width>>
  BY DEF poolVars
<1>2. BufferHasOneUser' /\ LongEnough' /\ PoolIsClear'
  BY <1>1 DEF Inv, PoolInv, BufferHasOneUser, LongEnough, PoolIsClear
<1>3. ASSUME NEW e \in Calls
      PROVE  Populated(e)' => Populated(e) /\ Target(e)' = Target(e)
  <2>1. CASE e = c
    BY <2>1
  <2>2. CASE e # c
    <3>1. Same(e)
      BY <2>2, OthersSame DEF Inv
    <3> QED
      BY <3>1 DEF Same, Populated, Target
  <2> QED
    BY <2>1, <2>2
<1>4. SlotsFilled'
  BY <1>1, <1>3 DEF Inv, PoolInv, SlotsFilled
<1> QED
  BY <1>2, <1>4 DEF PoolInv

(* A borrowed buffer is nobody's and not in the pool, and long enough; the *)
(* pool keeps what it had.                                                 *)
LEMMA Borrowed ==
    ASSUME PoolTyped, BufferHasOneUser, NEW c \in Calls, NEW n \in Nat, GetScanDest(c, n)
    PROVE  \E b \in Bufs :
              /\ buf' = [buf EXCEPT ![c] = b] /\ width' = [width EXCEPT ![c] = n]
              /\ pool' \subseteq pool /\ b \notin pool'
              /\ \A d \in Calls \ {c} : buf[d] # b
              /\ Len(slots'[b]) >= n
              /\ \A d \in Bufs \ {b} :
                    (d \in pool' \/ \E e \in Calls : buf[e] = d) => slots'[d] = slots[d]
<1>1. CASE Reuse(c, n)
  <2>1. PICK b \in pool : Len(slots[b]) >= n /\ pool' = pool \ {b} /\ Borrow(c, b, n)
                          /\ UNCHANGED slots
    BY <1>1 DEF Reuse
  <2>2. b \in Bufs
    BY DEF PoolTyped
  <2>3. \A d \in Calls : buf[d] # b
    BY <2>1, DistinctAssumption DEF BufferHasOneUser, PoolTyped
  <2> QED
    BY <2>1, <2>2, <2>3 DEF Borrow
<1>2. CASE Allocate(c, n)
  <2>0. PICK dropped \in SUBSET pool : \E b \in Garbage \cup dropped :
           /\ pool' = pool \ dropped
           /\ slots' = [d \in Bufs |-> IF d = b THEN Nils(n)
                                       ELSE IF d \in dropped THEN <<>> ELSE slots[d]]
           /\ Borrow(c, b, n)
    BY <1>2 DEF Allocate
  <2>1. PICK b \in Garbage \cup dropped :
           /\ pool' = pool \ dropped
           /\ slots' = [d \in Bufs |-> IF d = b THEN Nils(n)
                                       ELSE IF d \in dropped THEN <<>> ELSE slots[d]]
           /\ Borrow(c, b, n)
    BY <2>0
  <2>2. b \in Bufs /\ b \notin pool'
    BY <2>1 DEF Garbage, PoolTyped
  <2>3. \A d \in Calls, p \in dropped \cup {b} : buf[d] # p
    BY <2>1, DistinctAssumption DEF Garbage, BufferHasOneUser, PoolTyped
  <2>4. slots'[b] = Nils(n) /\ Len(Nils(n)) = n
    BY <2>1, <2>2, NilsAreSlots
  <2>5. \A d \in Bufs \ {b} :
           (d \in pool' \/ \E e \in Calls : buf[e] = d) => slots'[d] = slots[d]
    BY <2>1, <2>3
  <2>6. pool' \subseteq pool /\ Len(slots'[b]) >= n
    BY <2>1, <2>4
  <2>7. buf' = [buf EXCEPT ![c] = b] /\ width' = [width EXCEPT ![c] = n]
    BY <2>1 DEF Borrow
  <2>8. \A d \in Calls \ {c} : buf[d] # b
    BY <2>3
  <2> QED
    BY <2>2, <2>5, <2>6, <2>7, <2>8
<1> QED
  BY <1>1, <1>2 DEF GetScanDest

(* Borrowing keeps PoolInv: the new user is the only one. *)
LEMMA ScanStructKeepsPool ==
    ASSUME Inv, NEW c \in Calls, ScanStruct(c)
    PROVE  PoolInv'
<1> USE DEF Inv, PoolInv
<1>1. PICK n \in 1..MaxCols : GetScanDest(c, n)
  BY DEF ScanStruct
<1>2. n \in Nat
  BY <1>1, BoundsAssumption
<1>3. PICK b \in Bufs :
          /\ buf' = [buf EXCEPT ![c] = b] /\ width' = [width EXCEPT ![c] = n]
          /\ pool' \subseteq pool /\ b \notin pool'
          /\ \A d \in Calls \ {c} : buf[d] # b
          /\ Len(slots'[b]) >= n
          /\ \A d \in Bufs \ {b} :
                (d \in pool' \/ \E e \in Calls : buf[e] = d) => slots'[d] = slots[d]
  BY <1>1, <1>2, Borrowed
<1>4. \A d \in Calls \ {c} : buf'[d] = buf[d] /\ width'[d] = width[d]
  BY <1>3 DEF PoolTyped
<1>5. buf'[c] = b /\ width'[c] = n
  BY <1>3 DEF PoolTyped
<1>6. \A d \in Calls \ {c} : buf[d] # NoBuf => slots'[buf[d]] = slots[buf[d]]
  BY <1>3 DEF PoolTyped
<1>7. BufferHasOneUser'
  BY <1>3, <1>4, <1>5 DEF BufferHasOneUser
<1>8. LongEnough'
  BY <1>2, <1>3, <1>4, <1>5, <1>6 DEF LongEnough
<1>9. PoolIsClear'
  BY <1>3 DEF PoolIsClear, PoolTyped
<1>10. ASSUME NEW e \in Calls, Populated(e)'
       PROVE  \A i \in 1..width'[e] : slots'[buf'[e]][i] = <<e, Target(e)'>>
  <2>1. e # c
    BY <1>10 DEF Populated, ScanStruct, Goto, CallVarsTyped, callVars
  <2>2. Populated(e) /\ Target(e)' = Target(e)
    BY <1>4, <1>10, <2>1 DEF Populated, Target, ScanStruct, Goto, CallVarsTyped, callVars, rowVars
  <2> QED
    BY <1>4, <1>6, <2>1, <2>2 DEF SlotsFilled, Populated
<1> QED
  BY <1>7, <1>8, <1>9, <1>10 DEF SlotsFilled

(* Filling the slots keeps PoolInv: no one else's slots change. *)
LEMMA PopulateKeepsPool ==
    ASSUME Inv, NEW c \in Calls, Populate(c), buf[c] # NoBuf
    PROVE  PoolInv'
<1> USE DEF Inv, PoolInv
<1>1. PopulateScanDest(c, Target(c)) /\ Target(c) \in Nat /\ Target(c)' = Target(c)
  BY DEF Populate, Target, CallVarsTyped, callVars, rowVars
<1>2. /\ \A b \in Bufs \ {buf[c]} : slots'[b] = slots[b]
      /\ Len(slots'[buf[c]]) = Len(slots[buf[c]])
      /\ \A i \in 1..Len(slots[buf[c]]) : i <= width[c] => slots'[buf[c]][i] = <<c, Target(c)>>
  BY <1>1, PopulateTyped
<1>3. UNCHANGED <<pool, buf, width>>
  BY <1>1 DEF PopulateScanDest
<1>4. \A e \in Calls \ {c} : buf[e] # NoBuf => slots'[buf[e]] = slots[buf[e]]
  BY <1>2 DEF BufferHasOneUser, PoolTyped
<1>5. BufferHasOneUser'
  BY <1>3 DEF BufferHasOneUser
<1>6. LongEnough'
  BY <1>2, <1>3, <1>4 DEF LongEnough
<1>7. PoolIsClear'
  BY <1>2, <1>3 DEF PoolIsClear, PoolTyped, BufferHasOneUser
<1>8. ASSUME NEW e \in Calls, Populated(e)'
      PROVE  \A i \in 1..width'[e] : slots'[buf'[e]][i] = <<e, Target(e)'>>
  <2>1. CASE e = c
    <3>1. width[c] \in Nat /\ Len(slots[buf[c]]) \in Nat
      BY LenProperties DEF PoolTyped
    <3>2. width[c] <= Len(slots[buf[c]])
      BY DEF LongEnough
    <3> QED
      BY <1>1, <1>2, <1>3, <2>1, <3>1, <3>2
  <2>2. CASE e # c
    <3>1. Populated(e) /\ Target(e)' = Target(e)
      BY <1>3, <1>8, <2>2 DEF Populated, Target, Populate, Goto, CallVarsTyped, callVars, rowVars
    <3> QED
      BY <1>3, <1>4, <2>2, <3>1 DEF SlotsFilled, Populated
  <2> QED
    BY <2>1, <2>2
<1> QED
  BY <1>5, <1>6, <1>7, <1>8 DEF SlotsFilled

(* Handing back keeps PoolInv: what enters the pool is clear. *)
LEMMA PutKeepsPool ==
    ASSUME Inv, NEW c \in Calls, Put(c), buf[c] # NoBuf
    PROVE  PoolInv'
<1> USE DEF Inv, PoolInv
<1>1. PutScanDest(c)
  BY DEF Put
<1>2. /\ \A b \in Bufs \ {buf[c]} : slots'[b] = slots[b]
      /\ \A i \in DOMAIN slots'[buf[c]] : slots'[buf[c]][i] = Nil
  BY <1>1, PutTyped
<1>3. /\ pool' = pool \cup {buf[c]}
      /\ buf' = [buf EXCEPT ![c] = NoBuf]
      /\ width' = [width EXCEPT ![c] = 0]
  BY <1>1 DEF PutScanDest, HandBack
<1>4. \A e \in Calls \ {c} :
         /\ buf'[e] = buf[e] /\ width'[e] = width[e]
         /\ buf[e] # NoBuf => slots'[buf[e]] = slots[buf[e]]
  BY <1>2, <1>3 DEF BufferHasOneUser, PoolTyped
<1>5. buf'[c] = NoBuf
  BY <1>3 DEF PoolTyped
<1>6. BufferHasOneUser'
  BY <1>3, <1>4, <1>5 DEF BufferHasOneUser
<1>7. LongEnough'
  BY <1>4, <1>5 DEF LongEnough
<1>8. PoolIsClear'
  BY <1>2, <1>3 DEF PoolIsClear, PoolTyped
<1>9. ASSUME NEW e \in Calls, Populated(e)'
      PROVE  \A i \in 1..width'[e] : slots'[buf'[e]][i] = <<e, Target(e)'>>
  <2>1. e # c
    BY <1>5, <1>9 DEF Populated
  <2>2. Populated(e) /\ Target(e)' = Target(e)
    BY <1>4, <1>9, <2>1 DEF Populated, Target, Put, Goto, CallVarsTyped, callVars, rowVars
  <2> QED
    BY <1>4, <2>1, <2>2 DEF SlotsFilled, Populated
<1> QED
  BY <1>6, <1>7, <1>8, <1>9 DEF SlotsFilled

(* The garbage collector takes only what no call holds. *)
LEMMA CollectKeepsPool ==
    ASSUME Inv, CollectGarbage
    PROVE  PoolInv'
<1> USE DEF Inv, PoolInv
<1>1. PICK b \in pool : pool' = pool \ {b} /\ slots' = [slots EXCEPT ![b] = <<>>]
  BY DEF CollectGarbage, CollectPool
<1>2. UNCHANGED <<buf, width, pc, op, fetched>>
  BY DEF CollectGarbage, CollectPool, callVars, rowVars
<1>3. \A e \in Calls : buf[e] # NoBuf => slots'[buf[e]] = slots[buf[e]]
  BY <1>1 DEF BufferHasOneUser, PoolTyped
<1>4. \A d \in pool' : slots'[d] = slots[d]
  BY <1>1 DEF PoolTyped
<1>5. BufferHasOneUser' /\ LongEnough' /\ PoolIsClear'
  BY <1>1, <1>2, <1>3, <1>4 DEF BufferHasOneUser, LongEnough, PoolIsClear
<1>6. SlotsFilled'
  BY <1>2, <1>3 DEF SlotsFilled, Populated, Target
<1> QED
  BY <1>5, <1>6

(* A step of a call keeps the types of the pool. *)
LEMMA CallKeepsPoolTyped ==
    ASSUME CallVarsTyped, PoolTyped, NEW c \in Calls, CallInv(c), CallStep(c)
    PROVE  PoolTyped'
<1>1. CASE ScanStruct(c)
  <2>1. PICK n \in 1..MaxCols : GetScanDest(c, n)
    BY <1>1 DEF ScanStruct
  <2>2. n \in Nat
    BY <2>1, BoundsAssumption
  <2> QED
    BY <2>1, <2>2, GetScanDestTyped
<1>2. CASE Populate(c)
  BY <1>2, PopulateTyped DEF Populate, Target, CallVarsTyped, CallInv, Released
<1>3. CASE Put(c)
  BY <1>3, PutTyped DEF Put, PoolTyped, poolVars
<1>4. ASSUME NEW o \in Ops, NEW d \in Calls \cup {NoCall}, Start(c, o, d) PROVE PoolTyped'
  BY <1>4 DEF Start, PoolTyped, poolVars
<1>5. CASE Query(c)
  BY <1>5 DEF Query, PoolTyped, poolVars
<1>6. CASE QueryFails(c)
  BY <1>6 DEF QueryFails, PoolTyped, poolVars
<1>7. CASE WrongDest(c)
  BY <1>7 DEF WrongDest, PoolTyped, poolVars
<1>8. CASE ColumnsFail(c)
  BY <1>8 DEF ColumnsFail, PoolTyped, poolVars
<1>9. CASE PlanFails(c)
  BY <1>9 DEF PlanFails, PoolTyped, poolVars
<1>10. CASE ScanDirectly(c)
  BY <1>10 DEF ScanDirectly, PoolTyped, poolVars
<1>11. CASE PopulateFails(c)
  BY <1>11 DEF PopulateFails, PoolTyped, poolVars
<1>12. CASE NextRow(c)
  BY <1>12 DEF NextRow, PoolTyped, poolVars
<1>13. CASE NextEnds(c)
  BY <1>13 DEF NextEnds, PoolTyped, poolVars
<1>14. CASE ScanFails(c)
  BY <1>14 DEF ScanFails, PoolTyped, poolVars
<1>15. CASE Scan(c)
  BY <1>15 DEF Scan, PoolTyped, poolVars
<1>16. CASE Continue(c)
  BY <1>16 DEF Continue, PoolTyped, poolVars
<1>17. CASE Break(c)
  BY <1>17 DEF Break, PoolTyped, poolVars
<1>18. CASE Close(c)
  BY <1>18 DEF Close, PoolTyped, poolVars
<1>19. CASE Report(c)
  BY <1>19 DEF Report, PoolTyped, poolVars
<1>20. CASE Done(c)
  BY <1>20 DEF Done, PoolTyped, poolVars
<1>21. CASE Cancel(c)
  BY <1>21 DEF Cancel, PoolTyped, poolVars
<1> QED
  BY <1>1, <1>2, <1>3, <1>4, <1>5, <1>6, <1>7, <1>8, <1>9, <1>10, <1>11, <1>12, <1>13, <1>14, <1>15, <1>16, <1>17, <1>18, <1>19, <1>20, <1>21 DEF CallStep, Step

-----------------------------------------------------------------------------
(* The steps of a call that do not touch the pool fill no slots either. *)
LEMMA CallKeepsPool ==
    ASSUME Inv, NEW c \in Calls, CallStep(c), CallInv(c)'
    PROVE  PoolInv'
<1> USE DEF Inv
<1> DEFINE Idle == UNCHANGED poolVars /\ (Populated(c)' => Populated(c) /\ Target(c)' = Target(c))
<1> SUFFICES ASSUME ~ScanStruct(c), ~(Populate(c) /\ buf[c] # NoBuf), ~(Put(c) /\ buf[c] # NoBuf)
             PROVE  Idle
  BY SamePoolKeepsInv, ScanStructKeepsPool, PopulateKeepsPool, PutKeepsPool
<1>1. ASSUME NEW o \in Ops, NEW d \in Calls \cup {NoCall}, Start(c, o, d) PROVE Idle
  BY <1>1 DEF Populated, Target, CallVarsTyped, Goto, Start, poolVars
<1>2. CASE Query(c)
  BY <1>2 DEF Populated, Target, CallVarsTyped, Goto, Query, poolVars, callVars, rowVars
<1>3. CASE QueryFails(c)
  BY <1>3 DEF Populated, Target, CallVarsTyped, Goto, QueryFails, poolVars, callVars, rowVars
<1>4. CASE WrongDest(c)
  BY <1>4 DEF Populated, Target, CallVarsTyped, Goto, WrongDest, poolVars, callVars, rowVars
<1>5. CASE ColumnsFail(c)
  BY <1>5 DEF Populated, Target, CallVarsTyped, Goto, ColumnsFail, poolVars, callVars, rowVars
<1>6. CASE PlanFails(c)
  BY <1>6 DEF Populated, Target, CallVarsTyped, Goto, PlanFails, poolVars, callVars, rowVars
<1>7. CASE ScanDirectly(c)
  BY <1>7 DEF Populated, Target, CallVarsTyped, Goto, ScanDirectly, poolVars, callVars, rowVars, CallInv, Released
<1>8. CASE PopulateFails(c)
  BY <1>8 DEF Populated, Target, CallVarsTyped, Goto, PopulateFails, poolVars, callVars, rowVars
<1>9. CASE NextRow(c)
  BY <1>9 DEF Populated, Target, CallVarsTyped, Goto, NextRow, poolVars, callVars, rowVars, SingleRow
<1>10. CASE NextEnds(c)
  BY <1>10 DEF Populated, Target, CallVarsTyped, Goto, NextEnds, poolVars, callVars, rowVars, Exit
<1>11. CASE ScanFails(c)
  BY <1>11 DEF Populated, Target, CallVarsTyped, Goto, ScanFails, poolVars, callVars, rowVars, Exit
<1>12. CASE Scan(c)
  BY <1>12 DEF Populated, Target, CallVarsTyped, Goto, Scan, poolVars, callVars, rowVars, Exit
<1>13. CASE Continue(c)
  BY <1>13 DEF Populated, Target, CallVarsTyped, Goto, Continue, poolVars, callVars, rowVars, CallInv, AtRow, SingleRow
<1>14. CASE Break(c)
  BY <1>14 DEF Populated, Target, CallVarsTyped, Goto, Break, poolVars, callVars, rowVars, Exit
<1>15. CASE Close(c)
  BY <1>15 DEF Populated, Target, CallVarsTyped, Goto, Close, poolVars, callVars, rowVars, AfterClose
<1>16. CASE Report(c)
  BY <1>16 DEF Populated, Target, CallVarsTyped, Goto, Report, poolVars, callVars, rowVars
<1>17. CASE Done(c)
  BY <1>17 DEF Populated, Target, CallVarsTyped, Goto, Done, poolVars, callVars, rowVars
<1>18. CASE Cancel(c)
  BY <1>18 DEF Populated, Target, CallVarsTyped, Goto, Cancel, poolVars, callVars, rowVars
<1>19. CASE Populate(c)
  BY <1>19 DEF Populate, CallInv, Released
<1>20. CASE Put(c) /\ buf[c] = NoBuf
  BY <1>20 DEF Put, Populated, poolVars, AfterPut, Goto, CallVarsTyped, callVars, rowVars
<1> QED
  BY <1>1, <1>2, <1>3, <1>4, <1>5, <1>6, <1>7, <1>8, <1>9, <1>10, <1>11, <1>12, <1>13, <1>14, <1>15, <1>16, <1>17, <1>18, <1>19, <1>20 DEF CallStep, Step

-----------------------------------------------------------------------------
(* The invariant. *)
LEMMA InvInit == Init => Inv
<1> SUFFICES ASSUME Init PROVE Inv
  OBVIOUS
<1>1. CallVarsTyped
  BY AnyOpInOps, BoundsAssumption DEF Init, CallVarsTyped, PCs, Errors
<1>2. PoolTyped
  BY EmptySeq DEF Init, PoolInit, PoolTyped
<1>3. ASSUME NEW c \in Calls PROVE CallInv(c)
  BY DEF Init, PoolInit, CallInv, Counts, BeforeRows, Reading, AtRow, Ended, Released
<1>4. PoolInv
  BY DEF Init, PoolInit, PoolInv, BufferHasOneUser, LongEnough, SlotsFilled, Populated, PoolIsClear
<1> QED
  BY <1>1, <1>2, <1>3, <1>4 DEF Inv

(* Every step keeps Inv: case by case, and for a step of a call by the
   lemmas above, for the call itself and for the others. *)
LEMMA InvNext == Inv /\ [Next]_vars => Inv'
<1> SUFFICES ASSUME Inv, [Next]_vars PROVE Inv'
  OBVIOUS
<1>1. CASE UNCHANGED vars
  BY <1>1 DEF vars, poolVars, Inv, CallVarsTyped, PoolTyped, CallInv, Counts, BeforeRows, Reading,
     AtRow, Ended, Released, PoolInv, BufferHasOneUser, LongEnough, SlotsFilled, Populated,
     PoolIsClear, Target
<1>2. CASE CollectGarbage
  <2>1. PoolInv'
    BY <1>2, CollectKeepsPool
  <2>2. PoolTyped'
    BY <1>2, CollectTyped DEF CollectGarbage, Inv
  <2>3. UNCHANGED <<pc, callVars, rowVars, got, err, stopped, late, buf, width>>
    BY <1>2 DEF CollectGarbage, CollectPool
  <2>4. CallVarsTyped'
    BY <2>3 DEF callVars, rowVars, Inv, CallVarsTyped
  <2>5. ASSUME NEW e \in Calls PROVE CallInv(e)'
    BY <2>3, SameKeepsCallInv DEF Same, callVars, rowVars, Inv
  <2> QED
    BY <2>1, <2>2, <2>4, <2>5 DEF Inv
<1>3. ASSUME NEW c \in Calls, CallStep(c) PROVE Inv'
  <2>1. CallVarsTyped'
    BY <1>3, CallTypes DEF Inv
  <2>2. PoolTyped'
    BY <1>3, CallKeepsPoolTyped DEF Inv
  <2>3. ASSUME NEW e \in Calls PROVE CallInv(e)'
    <3>1. CASE e = c
      BY <1>3, <3>1, CallKeepsInv DEF Inv
    <3>2. CASE e # c
      BY <1>3, <3>2, OthersSame, SameKeepsCallInv DEF Inv
    <3> QED
      BY <3>1, <3>2
  <2>4. PoolInv'
    BY <1>3, <2>3, CallKeepsPool
  <2> QED
    BY <2>1, <2>2, <2>3, <2>4 DEF Inv
<1> QED
  BY <1>1, <1>2, <1>3, NextSplit

(* Inv holds in every reachable state; the theorems below are its parts. *)
THEOREM Invariance == Spec => []Inv
BY InvInit, InvNext, PTL DEF Spec

(* Every variable keeps its type; no call hands over more rows than it was  *)
(* given (TypeOK bounds got by MaxRows).                                   *)
THEOREM TypeCorrect == Spec => []TypeOK
<1>1. Inv => TypeOK
  BY TypeOKSplit DEF Inv
<1> QED
  BY <1>1, Invariance, PTL

(* No two calls, concurrent or nested, share a scan buffer, and none that  *)
(* is held is in scanPool.                                                 *)
THEOREM BuffersAreExclusive == Spec => []BufferHasOneUser
<1>1. Inv => BufferHasOneUser
  BY DEF Inv, PoolInv
<1> QED
  BY <1>1, Invariance, PTL

(* What rows.Scan writes through points into the row being read.           *)
THEOREM RowsGoWhereTheyShould == Spec => []SlotsPointToThisRow
<1>1. Inv => SlotsPointToThisRow
  BY DEF Inv, PoolInv, SlotsFilled, Populated, SlotsPointToThisRow
<1> QED
  BY <1>1, Invariance, PTL

(* scanPool keeps no pointer into a caller's struct.                       *)
THEOREM PoolKeepsNothingAlive == Spec => []PoolIsClear
<1>1. Inv => PoolIsClear
  BY DEF Inv, PoolInv
<1> QED
  BY <1>1, Invariance, PTL

(* A call that returns has given its buffer back, and its connection too,  *)
(* but for StructScan on a Row that fails before Row.Scan.                 *)
THEOREM CallsRelease == Spec => []ReleasedOnReturn
<1>1. Inv => ReleasedOnReturn
  BY DEF Inv, CallInv, Released, ReleasedOnReturn
<1> QED
  BY <1>1, Invariance, PTL

(* A call that returns no error has handed over the whole result.          *)
THEOREM ResultsAreComplete == Spec => []NilMeansComplete
<1>1. Inv => NilMeansComplete
  BY DEF Inv, CallInv, Ended, NilMeansComplete
<1> QED
  BY <1>1, Invariance, PTL

(* ErrNoRows is returned for an empty result only, never for a failure.    *)
THEOREM NoRowsIsNoError == Spec => []NoRowsMeansEmpty
<1>1. Inv => NoRowsMeansEmpty
  BY DEF Inv, CallInv, Ended, NoRowsMeansEmpty
<1> QED
  BY <1>1, Invariance, PTL
=============================================================================
