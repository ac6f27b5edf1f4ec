----------------------------- MODULE FieldScan ------------------------------
(***************************************************************************)
(* What the StructMap of FieldMap is for: rows scanned into structs        *)
(* through raw addresses (populateScanDest and AddrByTraversal), and       *)
(* fields read back by reflection (FieldByIndexesReadOnly, when they are   *)
(* bound as named arguments).  The two go by different parts of a          *)
(* FieldInfo, Traversal and Offset here and Index there, and must meet.    *)
(*                                                                         *)
(* Memory is a sequence of objects, each with its words; an address is an  *)
(* object and a word in it.  A row has a column for every field that can   *)
(* be scanned, and each value tells its row and column apart.              *)
(***************************************************************************)
EXTENDS FieldMap, FiniteSets, SequencesExt

CONSTANTS
    Size(_, _),   \* the words of a type in a shape
    Nil,          \* what new memory holds: nil, or a zero value
    MaxRows       \* bound: the rows of the result

ASSUME NilAssumption == Nil \notin Nat
ASSUME MaxRowsAssumption == MaxRows \in Nat

(* The compiler's layout: every value has its words, a pointer and a       *)
(* scalar one, and the fields of a struct lie apart in the words of it.    *)
Width(s, f) == IF f.ptr THEN 1 ELSE Size(s, f.type)
ASSUME LayoutAssumption ==
    \A s \in Shapes :
        /\ \A t \in Types \cup {Scalar} : Size(s, t) \in Nat
        /\ Size(s, Scalar) = 1
        /\ \A t \in Types : \A i \in DOMAIN s[t] :
              s[t][i].off + Width(s, s[t][i]) <= Size(s, t)
        /\ \A t \in Types : \A i, j \in DOMAIN s[t] :
              \/ i = j
              \/ s[t][i].off + Width(s, s[t][i]) <= s[t][j].off
              \/ s[t][j].off + Width(s, s[t][j]) <= s[t][i].off

VARIABLES
    heap,         \* the objects: [type, words]
    dest,         \* the struct to scan into, or 0
    row,          \* the rows read
    scanDest,     \* the slots filled so far: column -> address
    kept          \* what the caller has kept: [obj, row, dest]

scanVars == <<heap, dest, row, scanDest, kept>>
vars == <<shape, stack, visited, names, paths, errors,
          heap, dest, row, scanDest, kept>>

Columns == {c \in DOMAIN paths : names[c].targetType = Scalar}

Words0(t) == [w \in 0..(Size(shape, t) - 1) |-> Nil]
New(h, t) == Append(h, [type |-> t, words |-> Words0(t)])

(* reflect.New, if the pointer at a word is nil. *)
Fill(h, obj, w, t) ==
    IF h[obj].words[w] # Nil THEN h
    ELSE [New(h, t) EXCEPT ![obj].words[w] = Len(h) + 1]

(* One step of a traversal: past an offset, or to where a pointer points. *)
Follow(at, s) ==
    LET w == at.word + s.off
        filled == Fill(at.heap, at.obj, w, s.type)
    IN IF s.type = NoType THEN [at EXCEPT !.word = w]
       ELSE [heap |-> filled, obj |-> filled[at.obj].words[w], word |-> 0]
AddrByTraversal(h, base, steps) ==
    FoldLeft(Follow, [heap |-> h, obj |-> base, word |-> 0], steps)

(* The slot of a column: base + offset, or the traversal past a pointer. *)
SlotAlwaysByOffset(h, base, fi) == [heap |-> h, obj |-> base, word |-> fi.offset]
Slot(h, base, fi) ==
    IF fi.isPtrPath THEN AddrByTraversal(h, base, fi.traversal)
    ELSE [heap |-> h, obj |-> base, word |-> fi.offset]

(* v.Field(i) of reflection, through a pointer: by the declaration. *)
FieldOf(at, i) ==
    LET f == shape[at.type][i] IN
    [at EXCEPT !.word = at.word + f.off, !.type = f.type, !.ptr = f.ptr]
DerefAt(h, at) ==
    IF ~at.ptr THEN at
    ELSE [at EXCEPT !.obj = h[at.obj].words[at.word], !.word = 0, !.ptr = FALSE]

(* FieldByIndexesReadOnly, and database/sql's look behind a pointer it is  *)
(* given as an argument: the value, Nil past a nil pointer.                *)
Value(h, at) == IF at.obj = Nil THEN at ELSE DerefAt(h, at)
Enter(h, at, i) ==
    LET v == Value(h, at) IN IF v.obj = Nil THEN v ELSE FieldOf(v, i)
ReadOnly(h, base, index) ==
    LET end == Value(h, FoldLeft(LAMBDA at, i : Enter(h, at, i),
                                 [obj |-> base, word |-> 0, type |-> Root, ptr |-> FALSE],
                                 index))
    IN IF end.obj = Nil THEN Nil ELSE h[end.obj].words[end.word]

(* FieldByIndexes: the same way, with nil pointers filled in.              *)
EnterFilled(at, i) ==
    LET f == FieldOf(DerefAt(at.heap, at), i)
    IN IF f.ptr THEN [f EXCEPT !.heap = Fill(f.heap, f.obj, f.word, f.type)] ELSE f
FieldByIndexes(h, base, index) ==
    FoldLeft(EnterFilled, [heap |-> h, obj |-> base, word |-> 0, type |-> Root,
                           ptr |-> FALSE], index)

Init ==
    /\ MapInit
    /\ heap = <<>> /\ dest = 0 /\ row = 0
    /\ scanDest = [c \in {} |-> Nil] /\ kept = <<>>

Map == MapNext /\ UNCHANGED scanVars

(* Select, Get and the generic calls make a new struct for every row; a    *)
(* caller of Rows.StructScan may do so or go on with the one it has.       *)
Idle == Mapped /\ scanDest = [c \in {} |-> Nil]
NewDest ==
    /\ Idle /\ row < MaxRows
    /\ dest = 0 \/ \E k \in DOMAIN kept : kept[k].dest = dest
    /\ heap' = New(heap, Root)
    /\ dest' = Len(heap) + 1
    /\ UNCHANGED <<mapVars, row, scanDest, kept>>

(* The caller reaches a field of its struct by name: Mapper.FieldByName    *)
(* (here before the first row, which is when it finds nil pointers).       *)
FieldByName(c) ==
    /\ Idle /\ dest # 0 /\ row = 0
    /\ heap' = FieldByIndexes(heap, dest, names[c].index).heap
    /\ UNCHANGED <<mapVars, dest, row, scanDest, kept>>

(* populateScanDest: the slots of a row, one column at a time. *)
Unfilled == Columns \ DOMAIN scanDest
Populate ==
    /\ Mapped /\ dest # 0 /\ row < MaxRows /\ Unfilled # {}
    /\ LET c == CHOOSE c \in Unfilled : TRUE
           slot == Slot(heap, dest, names[c])
       IN /\ heap' = slot.heap
          /\ scanDest' = [d \in DOMAIN scanDest \cup {c} |->
                            IF d = c THEN [obj |-> slot.obj, word |-> slot.word]
                            ELSE scanDest[d]]
    /\ UNCHANGED <<mapVars, dest, row, kept>>

(* rows.Scan writes through the slots; the caller keeps the row, the struct*)
(* itself or a copy of it.                                                 *)
WordsAfter(o) ==
    [w \in DOMAIN heap[o].words |->
        IF \E c \in Columns : scanDest[c] = [obj |-> o, word |-> w]
        THEN <<row + 1, CHOOSE c \in Columns : scanDest[c] = [obj |-> o, word |-> w]>>
        ELSE heap[o].words[w]]
Scan(copied) ==
    LET after == [o \in DOMAIN heap |-> [heap[o] EXCEPT !.words = WordsAfter(o)]]
    IN /\ Mapped /\ dest # 0 /\ row < MaxRows /\ Unfilled = {} /\ Columns # {}
       /\ heap' = IF copied THEN Append(after, after[dest]) ELSE after
       /\ kept' = Append(kept, [obj |-> IF copied THEN Len(heap) + 1 ELSE dest,
                                row |-> row + 1, dest |-> dest])
       /\ row' = row + 1
       /\ scanDest' = [c \in {} |-> Nil]
       /\ UNCHANGED <<mapVars, dest>>

Finished == Mapped /\ (row = MaxRows \/ Columns = {}) /\ UNCHANGED vars

Next ==
    \/ Map \/ NewDest \/ Populate \/ Finished
    \/ \E c \in Columns : FieldByName(c)
    \/ \E copied \in BOOLEAN : Scan(copied)

Spec == Init /\ [][Next]_vars
FairSpec == Spec /\ WF_vars(Map)
-----------------------------------------------------------------------------
TypeOK ==
    /\ MapTypeOK
    /\ \A o \in DOMAIN heap : heap[o].type \in Types \cup {Scalar}
    /\ dest \in 0..Len(heap) /\ row \in 0..MaxRows
    /\ DOMAIN scanDest \subseteq Columns
    /\ \A k \in DOMAIN kept : kept[k].obj \in DOMAIN heap

(* The StructMap by the declarations alone, with no stack and no guard.    *)
(* A field is the sequence of positions that leads to it.                  *)
TypeAt(p) == FoldLeft(LAMBDA t, i : shape[t][i].type, Root, p)
At(p) == shape[TypeAt(Front(p))][Last(p)]
Before(p) == {SubSeq(p, 1, n) : n \in 0..(Len(p) - 1)}
(* Its own fields are mapped, unless its type contains it. *)
Flattened(p) == TypeAt(p) \in Types /\ \A q \in Before(p) : TypeAt(q) # TypeAt(p)
Positions == UNION {[1..n -> UNION {DOMAIN shape[t] : t \in Types}] : n \in 1..Cardinality(Types)}
Declared ==
    {p \in Positions :
        \A n \in DOMAIN p : LET q == SubSeq(p, 1, n) IN
            /\ Flattened(Front(q)) /\ p[n] \in DOMAIN shape[TypeAt(Front(q))]
            /\ ~Ignored(At(q))}
Column(p) ==
    LET Name(n) == LET f == At(SubSeq(p, 1, n)) IN IF Embedded(f) THEN <<>> ELSE f.name
    IN FlattenSeq([n \in DOMAIN p |-> Name(n)])
OfColumns == {p \in Declared : ~Embedded(At(p))}
(* The order of registration: a struct after its fields. *)
Earlier(p, q) ==
    \/ IsStrictPrefix(q, p)
    \/ \E n \in DOMAIN p \cap DOMAIN q :
          SubSeq(p, 1, n - 1) = SubSeq(q, 1, n - 1) /\ p[n] < q[n]
FieldNamed(c) ==
    LET full == {p \in OfColumns : Column(p) = c}
        bare == {p \in OfColumns : At(p).name = c}
    IN IF full # {} THEN CHOOSE p \in full : \A q \in full \ {p} : Earlier(q, p)
       ELSE CHOOSE p \in bare : \A q \in bare \ {p} : Earlier(p, q)

(* Every field the declarations reach is in the map under its path, and    *)
(* under its bare name; of several the last one has the path and the first *)
(* one the bare name; bad tags are reported wherever they are.             *)
MappedAsDeclared ==
    Mapped /\ heap = <<>> =>
        /\ DOMAIN paths = {Column(p) : p \in OfColumns}
        /\ DOMAIN names = DOMAIN paths \cup {At(p).name : p \in OfColumns}
        /\ \A c \in DOMAIN names : names[c].index = FieldNamed(c)
        /\ errors = {p \in Declared : At(p).tag \in {"invalid", "empty"}}

(* A row the caller keeps is what the driver delivered for it: every field,*)
(* read back by reflection, has the value of its own column.  Later rows   *)
(* change it in one place only: behind the pointers of a struct that the   *)
(* caller scans into again and has kept a copy of.                         *)
LastInto(d) == Max({k.row : k \in {kept[i] : i \in {j \in DOMAIN kept : kept[j].dest = d}}})
RowsAreKept ==
    \A i \in DOMAIN kept : \A c \in Columns :
        ReadOnly(heap, kept[i].obj, names[c].index) =
            <<IF names[c].isPtrPath \/ kept[i].obj = kept[i].dest
              THEN LastInto(kept[i].dest) ELSE kept[i].row, c>>

(* The flattening ends, for types that contain themselves too. *)
FlatteningEnds == <>Mapped
=============================================================================
