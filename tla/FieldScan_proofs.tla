-------------------------- MODULE FieldScan_proofs --------------------------
(***************************************************************************)
(* Proofs about FieldMap and FieldScan, for any declarations of any number *)
(* of types, any layout of them in memory and any number of rows: the      *)
(* recursion is bounded by the types, what lies behind a pointer is marked,*)
(* full paths win over bare names, the map is the one the declarations     *)
(* describe, and what a caller keeps of a row is what the driver delivered.*)
(***************************************************************************)
EXTENDS FieldScan, SequenceTheorems, FiniteSetTheorems, TLAPS

Inv == MapTypeOK /\ GuardIsThePath /\ PointersAreMarked /\ PathWinsOverBareName
-----------------------------------------------------------------------------
(* A map with one more entry is a map. *)
LEMMA PutIsMap ==
    ASSUME NEW map, IsMap(map), NEW c \in Seq(Words), NEW fi \in FieldInfo
    PROVE  IsMap(Put(map, c, fi)) /\ DOMAIN Put(map, c, fi) = DOMAIN map \cup {c}
  BY DEF IsMap, Put

(* The top of a non-empty stack, and the field it is at. *)
LEMMA TopType ==
    ASSUME MapTypeOK, stack # <<>>
    PROVE  Len(stack) \in Nat \ {0} /\ Len(stack) \in DOMAIN stack /\ Top \in Frame
  BY EmptySeq, LenProperties, ElementOfSeq DEF MapTypeOK, Top

LEMMA CurrentType ==
    ASSUME MapTypeOK, MoreFields
    PROVE  Current \in Field /\ Top.i \in Nat
<1>1. Top \in Frame
  BY TopType DEF MoreFields
<1>2. shape[Top.type] \in Seq(Field)
  BY <1>1 DEF MapTypeOK, Frame
<1> QED
  BY <1>1, <1>2, ElementOfSeq, LenProperties DEF MoreFields, Current, Fields, Frame

(* A field adds a step through a pointer just when it is one. *)
LEMMA WayType ==
    ASSUME NEW f \in Field
    PROVE  /\ Way(f) \in Seq(Step)
           /\ f.ptr <=> \E k \in DOMAIN Way(f) : Way(f)[k].type # NoType
<1> DEFINE a == [off |-> f.off, type |-> NoType]
           b == [off |-> 0, type |-> f.type]
<1>1. a \in Step /\ b \in Step /\ a.type = NoType /\ b.type # NoType
  BY TypesAssumption DEF Step, Field
<1>2. f.ptr \in BOOLEAN
  BY DEF Field
<1> HIDE DEF a, b
<1>3. CASE f.ptr
  <2>1. Way(f) = <<a>> \o <<b>>
    BY <1>3 DEF Way, a, b
  <2>2. <<a>> \in Seq(Step) /\ <<b>> \in Seq(Step) /\ Len(<<a>>) = 1 /\ Len(<<b>>) = 1
    BY <1>1
  <2>3. /\ Way(f) \in Seq(Step) /\ Len(Way(f)) = 2
        /\ Way(f)[2] = <<b>>[1]
    BY <2>1, <2>2, ConcatProperties
  <2>4. 2 \in DOMAIN Way(f)
    BY <2>3, LenProperties
  <2> QED
    BY <1>1, <1>3, <2>3, <2>4
<1>4. CASE ~f.ptr
  <2>1. Way(f) = <<a>>
    <3>1. Way(f) = <<a>> \o <<>>
      BY <1>4 DEF Way, a
    <3>2. <<a>> \in Seq(Step)
      BY <1>1
    <3> QED
      BY <3>1, <3>2, ConcatEmptySeq
  <2> QED
    BY <1>1, <1>4, <2>1
<1> QED
  BY <1>2, <1>3, <1>4

(* What a field becomes is a FieldInfo, marked when its parent is.         *)
LEMMA FieldInfoType ==
    ASSUME MapTypeOK, MoreFields, Marked(Top.parent)
    PROVE  /\ NewField(Current) \in FieldInfo /\ Named(Current) \in FieldInfo
           /\ Marked(NewField(Current)) /\ Marked(Named(Current))
<1> DEFINE f == Current
           p == Top.parent
           w == p.traversal \o Way(f)
<1>1. f \in Field /\ Top.i \in Nat /\ Top \in Frame
  BY CurrentType, TopType DEF MoreFields
<1>2. p \in FieldInfo /\ Top.prefix \in Seq(Words)
  BY <1>1 DEF Frame
<1>3. Way(f) \in Seq(Step) /\ p.traversal \in Seq(Step) /\ f.ptr \in BOOLEAN
      /\ p.isPtrPath \in BOOLEAN
  BY <1>1, <1>2, WayType DEF FieldInfo, Field
<1>4. /\ w \in Seq(Step)
      /\ Len(w) = Len(p.traversal) + Len(Way(f))
      /\ \A k \in 1..Len(p.traversal) + Len(Way(f)) :
           w[k] = IF k <= Len(p.traversal) THEN p.traversal[k]
                  ELSE Way(f)[k - Len(p.traversal)]
  BY <1>3, ConcatProperties
<1>5. /\ Len(p.traversal) \in Nat /\ DOMAIN p.traversal = 1..Len(p.traversal)
      /\ Len(Way(f)) \in Nat /\ DOMAIN Way(f) = 1..Len(Way(f))
      /\ DOMAIN w = 1..Len(w)
  BY <1>3, <1>4, LenProperties
<1>6. BehindPointer(f) <=> \E k \in DOMAIN w : w[k].type # NoType
  <2>1. p.isPtrPath <=> \E k \in 1..Len(p.traversal) : p.traversal[k].type # NoType
    BY <1>5 DEF Marked
  <2>2. f.ptr <=> \E k \in 1..Len(Way(f)) : Way(f)[k].type # NoType
    BY <1>1, <1>5, WayType
  <2>3. ASSUME NEW k \in 1..Len(p.traversal), p.traversal[k].type # NoType
        PROVE  \E j \in DOMAIN w : w[j].type # NoType
    <3>1. k \in DOMAIN w /\ w[k] = p.traversal[k]
      BY <1>4, <1>5
    <3> QED
      BY <2>3, <3>1
  <2>4. ASSUME NEW k \in 1..Len(Way(f)), Way(f)[k].type # NoType
        PROVE  \E j \in DOMAIN w : w[j].type # NoType
    <3> DEFINE j == Len(p.traversal) + k
    <3>1. j \in DOMAIN w /\ ~(j <= Len(p.traversal)) /\ j - Len(p.traversal) = k
      BY <1>4, <1>5
    <3>2. w[j] = Way(f)[k]
      BY <1>4, <1>5, <3>1
    <3> QED
      BY <2>4, <3>1, <3>2
  <2>5. ASSUME NEW j \in DOMAIN w, w[j].type # NoType
        PROVE  \/ \E k \in 1..Len(p.traversal) : p.traversal[k].type # NoType
               \/ \E k \in 1..Len(Way(f)) : Way(f)[k].type # NoType
    BY <1>4, <1>5, <2>5
  <2> QED
    BY <2>1, <2>2, <2>3, <2>4, <2>5 DEF BehindPointer
<1>7. Append(p.index, Top.i) \in Seq(Nat)
  BY <1>1, <1>2 DEF FieldInfo
<1>8. f.name \in Seq(Words) /\ Top.prefix \o f.name \in Seq(Words)
  BY <1>1, <1>2, ConcatProperties DEF Field
<1>9. NewField(f).targetType \in Types \cup {Scalar} /\ NewField(f).offset \in Nat
      /\ BehindPointer(f) \in BOOLEAN
  BY <1>1, <1>2, <1>3 DEF NewField, Field, FieldInfo, BehindPointer
<1>10. NewField(f) \in FieldInfo
  BY <1>4, <1>7, <1>9, EmptySeq DEF NewField, FieldInfo
<1>11. /\ Named(f) \in FieldInfo
       /\ Named(f).traversal = w /\ Named(f).isPtrPath = BehindPointer(f)
       /\ NewField(f).traversal = w /\ NewField(f).isPtrPath = BehindPointer(f)
  BY <1>8, <1>10 DEF Named, NewField, FieldInfo
<1> QED
  BY <1>6, <1>10, <1>11 DEF Marked

(* To register a field keeps what is known of the maps. *)
MapsInv ==
    /\ IsMap(names) /\ IsMap(paths)
    /\ \A c \in DOMAIN names : Marked(names[c])
    /\ PathWinsOverBareName
LEMMA RegisterKeeps ==
    ASSUME MapsInv, NEW fi \in FieldInfo, Marked(fi), Register(fi)
    PROVE  MapsInv'
<1> DEFINE wp == Put(names, fi.path, fi)
<1>1. fi.path \in Seq(Words) /\ fi.name \in Seq(Words)
  BY DEF FieldInfo
<1>2. IsMap(wp) /\ DOMAIN wp = DOMAIN names \cup {fi.path}
  BY <1>1, PutIsMap DEF MapsInv
<1>3. IsMap(paths') /\ DOMAIN paths' = DOMAIN paths \cup {fi.path}
  BY <1>1, PutIsMap DEF MapsInv, Register
<1>4. IsMap(names') /\ DOMAIN names' = DOMAIN names \cup {fi.path, fi.name}
  <2>1. CASE fi.name \in DOMAIN wp
    BY <1>2, <2>1 DEF Register
  <2>2. CASE fi.name \notin DOMAIN wp
    <3>1. names' = Put(wp, fi.name, fi)
      BY <2>2 DEF Register
    <3> HIDE DEF wp
    <3>2. IsMap(Put(wp, fi.name, fi)) /\ DOMAIN Put(wp, fi.name, fi) = DOMAIN wp \cup {fi.name}
      BY <1>1, <1>2, PutIsMap
    <3> QED
      BY <1>2, <3>1, <3>2
  <2> QED
    BY <2>1, <2>2
<1>5. \A c \in DOMAIN names' :
        names'[c] = IF c = fi.path \/ c \notin DOMAIN names THEN fi ELSE names[c]
  BY DEF Register, Put
<1>6. \A c \in DOMAIN paths' : paths'[c] = IF c = fi.path THEN fi ELSE paths[c]
  BY DEF Register, Put
<1>7. (\A c \in DOMAIN names : Marked(names[c]))'
  <2> SUFFICES ASSUME NEW c \in DOMAIN names' PROVE Marked(names'[c])
    BY DEF Marked
  <2>1. names'[c] = fi \/ (c \in DOMAIN names /\ names'[c] = names[c])
    BY <1>5
  <2> QED
    BY <2>1 DEF MapsInv
<1>8. PathWinsOverBareName'
  <2> SUFFICES ASSUME NEW c \in DOMAIN paths'
               PROVE  c \in DOMAIN names' /\ names'[c] = paths'[c]
    BY DEF PathWinsOverBareName
  <2>1. c = fi.path \/ (c \in DOMAIN paths /\ c \in DOMAIN names /\ names[c] = paths[c])
    BY <1>3 DEF MapsInv, PathWinsOverBareName
  <2> QED
    BY <1>4, <1>5, <1>6, <2>1
<1> QED
  BY <1>3, <1>4, <1>7, <1>8 DEF MapsInv, IsMap
-----------------------------------------------------------------------------
(* The stack of one call of flattenFields. *)
LEMMA InitInv == MapInit => Inv
<1> SUFFICES ASSUME MapInit PROVE Inv
  OBVIOUS
<1> DEFINE frame == [type |-> Root, parent |-> Tree, prefix |-> <<>>, i |-> 1]
<1>1. Tree \in FieldInfo /\ Marked(Tree)
  BY TypesAssumption DEF Tree, FieldInfo, Marked
<1>2. frame \in Frame /\ frame.type = Root /\ frame.parent = Tree
  BY <1>1, TypesAssumption DEF Frame
<1> HIDE DEF frame
<1>3. stack = <<frame>> /\ stack \in Seq(Frame) /\ DOMAIN stack = {1}
  BY <1>2 DEF MapInit, frame
<1>4. names = [c \in {} |-> Tree] /\ paths = [c \in {} |-> Tree] /\ errors = {}
      /\ visited = {Root} /\ shape \in [Types -> Seq(Field)]
  BY ShapesAssumption DEF MapInit
<1>5. IsMap(names) /\ IsMap(paths) /\ DOMAIN names = {} /\ DOMAIN paths = {}
  BY <1>4 DEF IsMap
<1> QED
  BY <1>1, <1>2, <1>3, <1>4, <1>5, TypesAssumption
     DEF Inv, MapTypeOK, GuardIsThePath, PointersAreMarked, PathWinsOverBareName

(* The loop goes on: only the position of the top frame changes. *)
SameFrame(a, b) == a.type = b.type /\ a.parent = b.parent /\ a.prefix = b.prefix
LEMMA NextFieldKeeps ==
    ASSUME MapTypeOK, MoreFields, NextField
    PROVE  /\ stack' \in Seq(Frame) /\ DOMAIN stack' = DOMAIN stack
           /\ \A k \in DOMAIN stack : SameFrame(stack'[k], stack[k])
<1> DEFINE frame == [Top EXCEPT !.i = Top.i + 1]
<1>1. Top \in Frame /\ Top.i \in Nat /\ Len(stack) \in DOMAIN stack
  BY TopType, CurrentType DEF MoreFields
<1>2. frame \in Frame /\ frame.type = Top.type /\ frame.parent = Top.parent
      /\ frame.prefix = Top.prefix
  BY <1>1 DEF Frame
<1>3. stack' = [stack EXCEPT ![Len(stack)] = frame]
  BY DEF NextField, Top
<1>4. stack \in Seq(Frame) /\ DOMAIN stack = 1..Len(stack)
  BY LenProperties DEF MapTypeOK
<1> HIDE DEF frame
<1>5. stack' \in Seq(Frame) /\ DOMAIN stack' = DOMAIN stack
  BY <1>1, <1>2, <1>3, <1>4, ExceptSeq, LenProperties
<1> QED
  BY <1>1, <1>2, <1>3, <1>4, <1>5 DEF Top, SameFrame

(* So does the guard, and what is known of the frames' parents. *)
LEMMA SameFrames ==
    ASSUME DOMAIN stack' = DOMAIN stack, visited' = visited,
           \A k \in DOMAIN stack : SameFrame(stack'[k], stack[k]),
           GuardIsThePath, \A k \in DOMAIN stack : Marked(stack[k].parent)
    PROVE  GuardIsThePath' /\ (\A k \in DOMAIN stack : Marked(stack[k].parent))'
  BY DEF GuardIsThePath, Marked, SameFrame

LEMMA ValidateKeeps ==
    ASSUME MapTypeOK, MoreFields, Validate(Current)
    PROVE  errors' \subseteq Seq(Nat)
<1>1. Top \in Frame /\ Top.i \in Nat
  BY TopType, CurrentType DEF MoreFields
<1>2. Append(Top.parent.index, Top.i) \in Seq(Nat)
  BY <1>1 DEF Frame, FieldInfo
<1> QED
  BY <1>2 DEF Validate, MapTypeOK

(* The innermost parent is marked as it should be. *)
LEMMA TopIsMarked ==
    ASSUME MapTypeOK, stack # <<>>, \A k \in DOMAIN stack : Marked(stack[k].parent)
    PROVE  Marked(Top.parent)
  BY TopType DEF Top

(* The call that returns is gone; the others are as they were.             *)
LEMMA ReturnKeeps ==
    ASSUME MapTypeOK, Return
    PROVE  /\ stack' \in Seq(Frame) /\ DOMAIN stack' = 1..(Len(stack) - 1)
           /\ \A k \in 1..(Len(stack) - 1) : SameFrame(stack'[k], stack[k])
<1> DEFINE n == Len(stack) - 1
<1>a. stack # <<>> /\ Top \in Frame /\ Len(stack) \in Nat \ {0}
      /\ Len(stack) \in DOMAIN stack
  BY TopType DEF Return, Leave
<1>b. stack \in Seq(Frame) /\ DOMAIN stack = 1..Len(stack)
  BY LenProperties DEF MapTypeOK
<1>1. CASE Len(stack) = 1
  BY <1>1, EmptySeq DEF Return, Leave
<1>2. CASE Len(stack) # 1
  <2> DEFINE rest == SubSeq(stack, 1, n)
             caller == [Caller EXCEPT !.i = Caller.i + 1]
  <2>1. n \in Nat \ {0} /\ n \in 1..n /\ n \in DOMAIN stack /\ 1..n \subseteq DOMAIN stack
    BY <1>a, <1>b, <1>2
  <2>2. /\ rest \in Seq(Frame) /\ Len(rest) = n
        /\ \A k \in 1..n : rest[k] = stack[k]
    <3>1. \A k \in 1..n : stack[k] \in Frame
      BY <1>b, <2>1, ElementOfSeq
    <3> HIDE DEF n
    <3> QED
      BY <2>1, <3>1, SubSeqProperties
  <2>3. stack' = [rest EXCEPT ![n].i = Caller.i + 1]
    BY <1>2 DEF Return, Leave
  <2>4. rest[n] \in Frame /\ rest[n] = Caller
    BY <1>b, <2>1, <2>2, ElementOfSeq DEF Caller
  <2>5. caller \in Frame /\ SameFrame(caller, rest[n])
    <3>1. Caller \in Frame
      BY <2>4
    <3> HIDE DEF rest
    <3> QED
      BY <2>4, <3>1 DEF Frame, SameFrame
  <2>6. stack' = [rest EXCEPT ![n] = caller]
    BY <2>3, <2>4
  <2> HIDE DEF rest, caller, n
  <2>7. /\ stack' \in Seq(Frame) /\ Len(stack') = n
        /\ \A k \in 1..n : stack'[k] = IF k = n THEN caller ELSE rest[k]
    BY <2>1, <2>2, <2>5, <2>6, ExceptSeq
  <2>8. DOMAIN stack' = 1..n /\ \A k \in 1..n : SameFrame(stack'[k], stack[k])
    BY <2>2, <2>5, <2>7, LenProperties DEF SameFrame
  <2> QED
    BY <2>7, <2>8 DEF n
<1> QED
  BY <1>1, <1>2

(* A step keeps the invariant. *)
LEMMA NextInv == Inv /\ [MapNext]_mapVars => Inv'
<1> SUFFICES ASSUME Inv, [MapNext]_mapVars PROVE Inv'
  OBVIOUS
<1> USE DEF Inv
<1>0. MapsInv /\ \A k \in DOMAIN stack : Marked(stack[k].parent)
  BY DEF MapTypeOK, PointersAreMarked, MapsInv
<1>1. CASE SkipField
  <2>1. /\ stack' \in Seq(Frame) /\ DOMAIN stack' = DOMAIN stack
        /\ \A k \in DOMAIN stack : SameFrame(stack'[k], stack[k])
    BY <1>1, NextFieldKeeps DEF SkipField
  <2>2. UNCHANGED <<shape, visited, names, paths, errors>>
    BY <1>1 DEF SkipField
  <2>3. GuardIsThePath' /\ (\A k \in DOMAIN stack : Marked(stack[k].parent))'
    BY <1>0, <2>1, <2>2, SameFrames
  <2> QED
    BY <2>1, <2>2, <2>3
       DEF MapTypeOK, PointersAreMarked, PathWinsOverBareName, Marked, IsMap
<1>2. CASE MapLeaf
  <2>1. /\ stack' \in Seq(Frame) /\ DOMAIN stack' = DOMAIN stack
        /\ \A k \in DOMAIN stack : SameFrame(stack'[k], stack[k])
    BY <1>2, NextFieldKeeps DEF MapLeaf
  <2>2. UNCHANGED <<shape, visited>> /\ errors' \subseteq Seq(Nat)
    BY <1>2, ValidateKeeps DEF MapLeaf
  <2>3. GuardIsThePath' /\ (\A k \in DOMAIN stack : Marked(stack[k].parent))'
    BY <1>0, <2>1, <2>2, SameFrames
  <2>4. MapsInv'
    <3>1. CASE UNCHANGED <<names, paths>>
      BY <1>0, <3>1 DEF MapsInv, IsMap, Marked, PathWinsOverBareName
    <3>2. CASE Register(Named(Current))
      <4>1. Marked(Top.parent)
        BY <1>0, <1>2, TopIsMarked DEF MapLeaf, MoreFields
      <4>2. Named(Current) \in FieldInfo /\ Marked(Named(Current))
        BY <1>2, <4>1, FieldInfoType DEF MapLeaf
      <4> QED
        BY <1>0, <3>2, <4>2, RegisterKeeps
    <3> QED
      BY <1>2, <3>1, <3>2 DEF MapLeaf
  <2> QED
    BY <2>1, <2>2, <2>3, <2>4 DEF MapTypeOK, PointersAreMarked, MapsInv
<1>3. CASE Descend
  <2> DEFINE fi == IF Embedded(Current) THEN NewField(Current) ELSE Named(Current)
             prefix == IF Embedded(Current) THEN Top.prefix ELSE fi.path
             frame == [type |-> Current.type, parent |-> fi, prefix |-> prefix, i |-> 1]
  <2>1. MoreFields /\ Current.type \in Types /\ Current.type \notin visited
    BY <1>3 DEF Descend, DescendIf, CutOff
  <2>2. Marked(Top.parent) /\ Top \in Frame
    BY <1>0, <2>1, TopIsMarked, TopType DEF MoreFields
  <2>3. fi \in FieldInfo /\ Marked(fi)
    BY <2>1, <2>2, FieldInfoType
  <2>4. prefix \in Seq(Words)
    BY <2>2, <2>3 DEF Frame, FieldInfo
  <2>5. stack' = Append(stack, frame)
    BY <1>3 DEF Descend, DescendIf
  <2>6. frame \in Frame /\ frame.type = Current.type /\ frame.parent = fi
    BY <2>1, <2>3, <2>4 DEF Frame
  <2>7. visited' = visited \cup {Current.type} /\ UNCHANGED <<shape, names, paths>>
    BY <1>3 DEF Descend, DescendIf
  <2>8. errors' \subseteq Seq(Nat)
    BY <1>3, <2>1, ValidateKeeps DEF Descend, DescendIf
  <2> HIDE DEF fi, prefix, frame
  <2>9. stack \in Seq(Frame) /\ Len(stack) \in Nat /\ DOMAIN stack = 1..Len(stack)
    BY LenProperties DEF MapTypeOK
  <2>10. /\ stack' \in Seq(Frame) /\ DOMAIN stack' = 1..(Len(stack) + 1)
         /\ \A k \in DOMAIN stack : stack'[k] = stack[k]
         /\ stack'[Len(stack) + 1] = frame
    BY <2>5, <2>6, <2>9
  <2>11. GuardIsThePath'
    <3>1. \A k \in DOMAIN stack' : k \in DOMAIN stack \/ k = Len(stack) + 1
      BY <2>9, <2>10
    <3>2. \A k \in DOMAIN stack : stack[k].type \in visited
      BY DEF GuardIsThePath
    <3>3. visited' = {stack'[k].type : k \in DOMAIN stack'}
      BY <2>6, <2>7, <2>9, <2>10, <3>1 DEF GuardIsThePath
    <3>4. \A k, l \in DOMAIN stack' : stack'[k].type = stack'[l].type => k = l
      BY <2>1, <2>6, <2>10, <3>1, <3>2 DEF GuardIsThePath
    <3> QED
      BY <3>3, <3>4 DEF GuardIsThePath
  <2>12. (\A k \in DOMAIN stack : Marked(stack[k].parent))'
    <3> SUFFICES ASSUME NEW k \in DOMAIN stack' PROVE Marked(stack'[k].parent)
      BY DEF Marked
    <3> QED
      BY <1>0, <2>3, <2>6, <2>9, <2>10
  <2>13. visited' \subseteq Types
    BY <2>1, <2>7 DEF MapTypeOK
  <2> QED
    BY <2>7, <2>8, <2>10, <2>11, <2>12, <2>13
       DEF MapTypeOK, PointersAreMarked, PathWinsOverBareName, Marked, IsMap
<1>4. CASE Return
  <2>1. stack # <<>> /\ Top \in Frame /\ Len(stack) \in Nat \ {0}
        /\ Len(stack) \in DOMAIN stack
    BY <1>4, TopType DEF Return, Leave
  <2>2. MapsInv'
    <3>1. CASE UNCHANGED <<names, paths>>
      BY <1>0, <3>1 DEF MapsInv, IsMap, Marked, PathWinsOverBareName
    <3>2. CASE Register(Top.parent)
      BY <1>0, <2>1, <3>2, RegisterKeeps, TopIsMarked DEF Frame
    <3> QED
      BY <1>4, <3>1, <3>2 DEF Return, Leave
  <2>3. visited' = visited \ {Top.type} /\ UNCHANGED <<shape, errors>>
    BY <1>4 DEF Return, Leave
  <2>4. stack \in Seq(Frame) /\ DOMAIN stack = 1..Len(stack)
    BY LenProperties DEF MapTypeOK
  <2> DEFINE n == Len(stack) - 1
  <2>5. /\ stack' \in Seq(Frame) /\ DOMAIN stack' = 1..n
        /\ \A k \in 1..n : SameFrame(stack'[k], stack[k])
    BY <1>4, ReturnKeeps
  <2>6. 1..n \subseteq DOMAIN stack /\ Len(stack) \notin 1..n
        /\ \A k \in DOMAIN stack : k \in 1..n \/ k = Len(stack)
    BY <2>1, <2>4
  <2> HIDE DEF n
  <2>p. \A k \in 1..n :
           stack'[k].type = stack[k].type /\ stack'[k].parent = stack[k].parent
    BY <2>5 DEF SameFrame
  <2>7. GuardIsThePath'
    <3>1. \A k \in 1..n : stack[k].type # Top.type
      BY <2>1, <2>6 DEF GuardIsThePath, Top
    <3>2. visited' = {stack'[k].type : k \in DOMAIN stack'}
      BY <2>3, <2>5, <2>p, <2>6, <3>1 DEF GuardIsThePath, Top
    <3>3. \A k, l \in DOMAIN stack' : stack'[k].type = stack'[l].type => k = l
      BY <2>5, <2>p, <2>6 DEF GuardIsThePath
    <3> QED
      BY <3>2, <3>3 DEF GuardIsThePath
  <2>8. (\A k \in DOMAIN stack : Marked(stack[k].parent))'
    <3> SUFFICES ASSUME NEW k \in DOMAIN stack' PROVE Marked(stack'[k].parent)
      BY DEF Marked
    <3> QED
      BY <1>0, <2>5, <2>p, <2>6
  <2> QED
    BY <2>2, <2>3, <2>5, <2>7, <2>8 DEF MapTypeOK, PointersAreMarked, MapsInv
<1>5. CASE UNCHANGED mapVars
  BY <1>5 DEF mapVars, MapTypeOK, GuardIsThePath, PointersAreMarked,
              PathWinsOverBareName, Marked, IsMap
<1> QED
  BY <1>1, <1>2, <1>3, <1>4, <1>5 DEF MapNext

LEMMA InvHolds == MapSpec => []Inv
<1>1. MapInit => Inv
  BY InitInv
<1>2. Inv /\ [MapNext]_mapVars => Inv'
  BY NextInv
<1> QED
  BY <1>1, <1>2, PTL DEF MapSpec
LEMMA Bounded ==
    ASSUME IsFiniteSet(Types), Inv
    PROVE  Len(stack) \in Nat /\ Cardinality(Types) \in Nat /\ Len(stack) <= Cardinality(Types)
<1> DEFINE n == Len(stack)
           f == [k \in 1..n |-> stack[k].type]
<1>1. n \in Nat /\ DOMAIN stack = 1..n /\ stack \in Seq(Frame)
  BY LenProperties DEF Inv, MapTypeOK
<1>2. \A k \in 1..n : stack[k].type \in Types
  <2>1. \A k \in 1..n : stack[k] \in Frame
    BY <1>1, ElementOfSeq
  <2> HIDE DEF n
  <2> QED
    BY <2>1 DEF Frame
<1>3. f \in [1..n -> Types] /\ \A k, l \in 1..n : f[k] = f[l] => k = l
  BY <1>1, <1>2 DEF Inv, GuardIsThePath
<1>4. IsFiniteSet(1..n) /\ Cardinality(1..n) = n
  BY <1>1, FS_Interval
<1> HIDE DEF n, f
<1>5. f \in Injection(1..n, Types)
  BY <1>3 DEF Injection, IsInjective
<1>6. Cardinality(1..n) <= Cardinality(Types)
  BY <1>4, <1>5, FS_Injection
<1>7. Cardinality(Types) \in Nat
  BY FS_CardinalityType
<1> QED
  BY <1>1, <1>4, <1>6, <1>7 DEF n

-----------------------------------------------------------------------------
(* Every variable of the flattening keeps its type: whatever the maps hold *)
(* is a FieldInfo with a path, a traversal and a type to scan into.        *)
THEOREM MapTypeCorrect == MapSpec => []MapTypeOK
<1>1. Inv => MapTypeOK
  BY DEF Inv
<1> QED
  BY <1>1, InvHolds, PTL

(* flattenFields never flattens a type inside itself, and its guard holds  *)
(* the types it is in and no other.                                        *)
THEOREM GuardHolds == MapSpec => []GuardIsThePath
<1>1. Inv => GuardIsThePath
  BY DEF Inv
<1> QED
  BY <1>1, InvHolds, PTL

(* The recursion of flattenFields is no deeper than there are types.       *)
THEOREM RecursionIsBounded ==
    ASSUME IsFiniteSet(Types)
    PROVE  MapSpec => [](Len(stack) <= Cardinality(Types))
<1>1. Inv => Len(stack) <= Cardinality(Types)
  BY Bounded
<1> QED
  BY <1>1, InvHolds, PTL

(* Whatever the path by value, by embedding or through pointers, a field is*)
(* marked exactly when its traversal goes through a pointer: no address is *)
(* computed from an offset that lies in another object.                    *)
THEOREM MarksAreRight == MapSpec => []PointersAreMarked
<1>1. Inv => PointersAreMarked
  BY DEF Inv
<1> QED
  BY <1>1, InvHolds, PTL

(* Names agrees with Paths on every full path.                             *)
THEOREM FullPathsWin == MapSpec => []PathWinsOverBareName
<1>1. Inv => PathWinsOverBareName
  BY DEF Inv
<1> QED
  BY <1>1, InvHolds, PTL

-----------------------------------------------------------------------------
(* Induction, and folds over sequences one element after the other.        *)

(* Induction over the natural numbers, for sets. *)
LEMMA Least ==
    ASSUME NEW T \in SUBSET Nat, NEW n \in T
    PROVE  \E m \in T : \A k \in T : m <= k
<1> DEFINE R == {ss \in Nat \X Nat : ss[1] < ss[2]}
<1>1. IsWellFoundedOn(R, Nat)
  BY NatLessThanWellFounded DEF OpToRel
<1>2. \E x \in T : \A y \in T : <<y, x>> \notin R
  <2> HIDE DEF R
  <2> QED
    BY <1>1, WFMin
<1>3. PICK m \in T : \A k \in T : <<k, m>> \notin R
  BY <1>2
<1>4. ASSUME NEW k \in T, k < m
      PROVE  FALSE
  <2>1. <<k, m>> \in R
    BY <1>4
  <2> QED
    BY <1>3, <2>1
<1>5. \A k \in T : m <= k
  BY <1>4
<1> QED
  BY <1>5

LEMMA Induction ==
    ASSUME NEW T, 0 \in T, \A n \in Nat : n \in T => n + 1 \in T
    PROVE  \A n \in Nat : n \in T
<1> SUFFICES ASSUME NEW n \in Nat, n \notin T
             PROVE  FALSE
  OBVIOUS
<1>1. PICK m \in Nat \ T : \A k \in Nat \ T : m <= k
  BY Least
<1>2. m # 0 /\ m - 1 \in Nat /\ m - 1 \in T
  BY <1>1
<1> QED
  BY <1>1, <1>2


(* The folds of FieldScan, one element at a time.  The first argument says *)
(* which one it is.                                                        *)
Op(k, h, a, x) ==
    CASE k = 1 -> Follow(a, x)
      [] k = 2 -> Enter(h, a, x)
      [] k = 3 -> EnterFilled(a, x)
      [] OTHER -> h[a][x].type

IsFold(k, h, b, s, n, e) ==
    e = [u \in SUBSET (1..n) |->
            IF u = {} THEN b ELSE Op(k, h, e[u \ {Max(u)}], s[Max(u)])]

LEMMA MaxIs ==
    ASSUME NEW n \in Nat, NEW u \in SUBSET (1..n + 1), n + 1 \in u
    PROVE  Max(u) = n + 1
<1>1. \E m \in u : \A y \in u : m >= y
  <2>1. \A y \in u : n + 1 >= y
    OBVIOUS
  <2> QED
    BY <2>1
<1>2. Max(u) \in u /\ \A y \in u : Max(u) >= y
  BY <1>1 DEF Max
<1>3. Max(u) \in 1..n + 1 /\ Max(u) >= n + 1
  BY <1>2
<1> HIDE DEF Max
<1> QED
  BY <1>3

LEMMA FoldExists ==
    ASSUME NEW k, NEW h, NEW b, NEW s
    PROVE  \A n \in Nat : \E e : IsFold(k, h, b, s, n, e)
<1> DEFINE T == {n \in Nat : \E e : IsFold(k, h, b, s, n, e)}
<1>1. 0 \in T
  <2> DEFINE e == [u \in SUBSET (1..0) |-> b]
  <2>1. \A u \in SUBSET (1..0) : u = {}
    OBVIOUS
  <2>2. IsFold(k, h, b, s, 0, e)
    BY <2>1 DEF IsFold
  <2> QED
    BY <2>2
<1>2. ASSUME NEW n \in Nat, n \in T
      PROVE  n + 1 \in T
  <2>1. PICK e : IsFold(k, h, b, s, n, e)
    BY <1>2
  <2> DEFINE P == SUBSET (1..n)
             Q == SUBSET (1..n + 1)
             f == [u \in Q |-> IF n + 1 \in u THEN Op(k, h, e[u \ {n + 1}], s[n + 1])
                               ELSE e[u]]
  <2>2. P \subseteq Q /\ \A u \in P : n + 1 \notin u
    OBVIOUS
  <2>3. \A u \in P : f[u] = e[u]
    BY <2>2
  <2>4. \A u \in P : e[u] = IF u = {} THEN b ELSE Op(k, h, e[u \ {Max(u)}], s[Max(u)])
    <3> HIDE DEF f
    <3> QED
      BY <2>1 DEF IsFold
  <2>5. ASSUME NEW u \in Q
        PROVE  f[u] = IF u = {} THEN b ELSE Op(k, h, f[u \ {Max(u)}], s[Max(u)])
    <3>1. CASE n + 1 \in u
      <4>1. Max(u) = n + 1 /\ u # {}
        BY <3>1, MaxIs
      <4>2. u \ {n + 1} \in P
        OBVIOUS
      <4>3. f[u] = Op(k, h, e[u \ {n + 1}], s[n + 1])
        BY <3>1
      <4>4. f[u \ {n + 1}] = e[u \ {n + 1}]
        BY <2>3, <4>2
      <4> HIDE DEF f, Q, P
      <4> QED
        BY <4>1, <4>3, <4>4
    <3>2. CASE n + 1 \notin u
      <4>1. u \in P /\ u \ {Max(u)} \in P
        <5>1. \A y \in u : y \in 1..n
          BY <3>2
        <5> QED
          BY <5>1
      <4>2. f[u] = e[u] /\ f[u \ {Max(u)}] = e[u \ {Max(u)}]
        BY <2>3, <4>1
      <4> HIDE DEF f, Q, P
      <4> QED
        BY <2>4, <4>1, <4>2
    <3> QED
      BY <3>1, <3>2
  <2>6. f = [u \in Q |-> IF u = {} THEN b ELSE Op(k, h, f[u \ {Max(u)}], s[Max(u)])]
    <3>1. f = [u \in Q |-> f[u]]
      OBVIOUS
    <3> HIDE DEF f, Q
    <3> QED
      BY <2>5, <3>1
  <2>7. IsFold(k, h, b, s, n + 1, f)
    <3> HIDE DEF f
    <3> QED
      BY <2>6 DEF IsFold
  <2> QED
    BY <2>7
<1>3. \A n \in Nat : n \in T
  <2> HIDE DEF T
  <2> QED
    BY <1>1, <1>2, Induction
<1> QED
  BY <1>3

(* The value after every element. *)
Along(k, h, b, s, n, e) ==
    /\ e[1..0] = b
    /\ \A i \in 1..n : e[1..i] = Op(k, h, e[1..(i - 1)], s[i])

LEMMA FoldSteps ==
    ASSUME NEW k, NEW h, NEW b, NEW s, NEW n \in Nat, NEW e, IsFold(k, h, b, s, n, e)
    PROVE  Along(k, h, b, s, n, e)
<1>1. \A u \in SUBSET (1..n) : 
        e[u] = IF u = {} THEN b ELSE Op(k, h, e[u \ {Max(u)}], s[Max(u)])
  BY DEF IsFold
<1>2. e[1..0] = b
  <2>1. 1..0 = {} /\ 1..0 \in SUBSET (1..n)
    OBVIOUS
  <2> QED
    BY <1>1, <2>1
<1>3. ASSUME NEW i \in 1..n
      PROVE  e[1..i] = Op(k, h, e[1..(i - 1)], s[i])
  <2> DEFINE u == 1..i
  <2>1. u \in SUBSET (1..n) /\ u # {} /\ i \in u
    OBVIOUS
  <2>2. Max(u) = i
    <3>1. i - 1 \in Nat /\ u \in SUBSET (1..(i - 1) + 1) /\ (i - 1) + 1 = i
      OBVIOUS
    <3> HIDE DEF u
    <3> QED
      BY <2>1, <3>1, MaxIs
  <2>3. u \ {i} = 1..(i - 1)
    OBVIOUS
  <2> HIDE DEF u
  <2>4. e[u] = Op(k, h, e[u \ {Max(u)}], s[Max(u)])
    BY <1>1, <2>1
  <2>5. e[u] = Op(k, h, e[1..(i - 1)], s[i])
    BY <2>2, <2>3, <2>4
  <2> QED
    BY <2>5 DEF u
<1> QED
  BY <1>2, <1>3 DEF Along

(* It depends on the elements up to there only. *)
LEMMA FoldSame ==
    ASSUME NEW k, NEW h, NEW b, NEW s, NEW t, NEW n \in Nat, NEW m \in Nat, n <= m,
           NEW e, IsFold(k, h, b, s, n, e), NEW f, IsFold(k, h, b, t, m, f),
           \A i \in 1..n : s[i] = t[i]
    PROVE  e[1..n] = f[1..n]
<1> DEFINE T == {i \in Nat : i <= n => e[1..i] = f[1..i]}
<1>1. /\ e[1..0] = b /\ \A i \in 1..n : e[1..i] = Op(k, h, e[1..(i - 1)], s[i])
      /\ f[1..0] = b /\ \A i \in 1..m : f[1..i] = Op(k, h, f[1..(i - 1)], t[i])
  <2>1. Along(k, h, b, s, n, e) /\ Along(k, h, b, t, m, f)
    BY FoldSteps
  <2> QED
    BY <2>1 DEF Along
<1>2. 0 \in T
  BY <1>1
<1>3. ASSUME NEW i \in Nat, i \in T
      PROVE  i + 1 \in T
  <2> SUFFICES ASSUME i + 1 <= n
               PROVE  e[1..i + 1] = f[1..i + 1]
    OBVIOUS
  <2>1. i + 1 \in 1..n /\ i + 1 \in 1..m /\ (i + 1) - 1 = i
    OBVIOUS
  <2>2. e[1..i] = f[1..i] /\ s[i + 1] = t[i + 1]
    BY <1>3, <2>1
  <2>3. e[1..i + 1] = Op(k, h, e[1..((i + 1) - 1)], s[i + 1])
    BY <1>1, <2>1
  <2>4. f[1..i + 1] = Op(k, h, f[1..((i + 1) - 1)], t[i + 1])
    BY <1>1, <2>1
  <2> QED
    BY <2>1, <2>2, <2>3, <2>4
<1>4. \A i \in Nat : i \in T
  <2> HIDE DEF T
  <2> QED
    BY <1>2, <1>3, Induction
<1> QED
  BY <1>4

(* t is s and one more element. *)
Longer(s, x, t, n, m) ==
    n \in Nat /\ m = n + 1 /\ t[m] = x /\ \A i \in 1..n : s[i] = t[i]

LEMMA FoldAppend ==
    ASSUME NEW k, NEW h, NEW b, NEW s, NEW x, NEW t, NEW n, NEW m, Longer(s, x, t, n, m),
           NEW e, IsFold(k, h, b, s, n, e), NEW f, IsFold(k, h, b, t, m, f)
    PROVE  f[1..m] = Op(k, h, e[1..n], x)
<1>1. n \in Nat /\ m = n + 1 /\ t[m] = x /\ \A i \in 1..n : s[i] = t[i]
  BY DEF Longer
<1>2. m \in Nat /\ n <= m /\ m - 1 = n /\ m \in 1..m
  BY <1>1
<1>3. Along(k, h, b, t, m, f)
  BY <1>2, FoldSteps
<1>4. f[1..m] = Op(k, h, f[1..(m - 1)], t[m])
  BY <1>2, <1>3 DEF Along
<1>5. e[1..n] = f[1..n]
  BY <1>1, <1>2, FoldSame
<1> QED
  BY <1>1, <1>2, <1>4, <1>5

-----------------------------------------------------------------------------
(* The traversals and the walks of FieldScan as such folds.                *)

(* Where the fields of an index lead to, read only. *)
ReadFrom(h, at, index) == FoldLeft(LAMBDA a, i : Enter(h, a, i), at, index)

LEMMA FollowFold ==
    ASSUME NEW h, NEW b, NEW S, NEW s \in Seq(S)
    PROVE  \E e : IsFold(1, h, b, s, Len(s), e) /\ FoldLeft(Follow, b, s) = e[1..Len(s)]
<1> DEFINE n == Len(s)
           F(e) == [u \in SUBSET DOMAIN s |->
                      IF u = {} THEN b ELSE Follow(e[u \ {Max(u)}], s[Max(u)])]
           e == CHOOSE e : e = F(e)
<1>1. n \in Nat /\ DOMAIN s = 1..n
  OBVIOUS
<1>2. \A a, x : Op(1, h, a, x) = Follow(a, x)
  BY DEF Op
<1>3. \A f : IsFold(1, h, b, s, n, f) <=> f = F(f)
  <2> SUFFICES ASSUME NEW f
               PROVE  IsFold(1, h, b, s, n, f) <=> f = F(f)
    OBVIOUS
  <2> HIDE DEF n
  <2> QED
    BY <1>1, <1>2 DEF IsFold
<1>4. \E f : f = F(f)
  <2>1. \E f : IsFold(1, h, b, s, n, f)
    BY <1>1, FoldExists
  <2> HIDE DEF F, n
  <2> QED
    BY <1>3, <2>1
<1>5. e = F(e)
  <2> HIDE DEF F
  <2> QED
    BY <1>4
<1>6. FoldLeft(Follow, b, s) = e[DOMAIN s]
  BY DEF FoldLeft, MapThenFoldSet
<1>7. IsFold(1, h, b, s, n, e)
  <2> HIDE DEF F, e, n
  <2> QED
    BY <1>3, <1>5
<1> QED
  BY <1>1, <1>6, <1>7

LEMMA EnterFold ==
    ASSUME NEW h, NEW b, NEW S, NEW s \in Seq(S)
    PROVE  \E e : IsFold(2, h, b, s, Len(s), e) /\ ReadFrom(h, b, s) = e[1..Len(s)]
<1> DEFINE n == Len(s)
           F(e) == [u \in SUBSET DOMAIN s |->
                      IF u = {} THEN b ELSE Enter(h, e[u \ {Max(u)}], s[Max(u)])]
           e == CHOOSE e : e = F(e)
<1>1. n \in Nat /\ DOMAIN s = 1..n
  OBVIOUS
<1>2. \A a, x : Op(2, h, a, x) = Enter(h, a, x)
  BY DEF Op
<1>3. \A f : IsFold(2, h, b, s, n, f) <=> f = F(f)
  <2> SUFFICES ASSUME NEW f
               PROVE  IsFold(2, h, b, s, n, f) <=> f = F(f)
    OBVIOUS
  <2> HIDE DEF n
  <2> QED
    BY <1>1, <1>2 DEF IsFold
<1>4. \E f : f = F(f)
  <2>1. \E f : IsFold(2, h, b, s, n, f)
    BY <1>1, FoldExists
  <2> HIDE DEF F, n
  <2> QED
    BY <1>3, <2>1
<1>5. e = F(e)
  <2> HIDE DEF F
  <2> QED
    BY <1>4
<1>6. ReadFrom(h, b, s) = e[DOMAIN s]
  BY DEF FoldLeft, MapThenFoldSet, ReadFrom
<1>7. IsFold(2, h, b, s, n, e)
  <2> HIDE DEF F, e, n
  <2> QED
    BY <1>3, <1>5
<1> QED
  BY <1>1, <1>6, <1>7

LEMMA EnterFilledFold ==
    ASSUME NEW h, NEW b, NEW S, NEW s \in Seq(S)
    PROVE  \E e : IsFold(3, h, b, s, Len(s), e) /\ FoldLeft(EnterFilled, b, s) = e[1..Len(s)]
<1> DEFINE n == Len(s)
           F(e) == [u \in SUBSET DOMAIN s |->
                      IF u = {} THEN b ELSE EnterFilled(e[u \ {Max(u)}], s[Max(u)])]
           e == CHOOSE e : e = F(e)
<1>1. n \in Nat /\ DOMAIN s = 1..n
  OBVIOUS
<1>2. \A a, x : Op(3, h, a, x) = EnterFilled(a, x)
  BY DEF Op
<1>3. \A f : IsFold(3, h, b, s, n, f) <=> f = F(f)
  <2> SUFFICES ASSUME NEW f
               PROVE  IsFold(3, h, b, s, n, f) <=> f = F(f)
    OBVIOUS
  <2> HIDE DEF n
  <2> QED
    BY <1>1, <1>2 DEF IsFold
<1>4. \E f : f = F(f)
  <2>1. \E f : IsFold(3, h, b, s, n, f)
    BY <1>1, FoldExists
  <2> HIDE DEF F, n
  <2> QED
    BY <1>3, <2>1
<1>5. e = F(e)
  <2> HIDE DEF F
  <2> QED
    BY <1>4
<1>6. FoldLeft(EnterFilled, b, s) = e[DOMAIN s]
  BY DEF FoldLeft, MapThenFoldSet
<1>7. IsFold(3, h, b, s, n, e)
  <2> HIDE DEF F, e, n
  <2> QED
    BY <1>3, <1>5
<1> QED
  BY <1>1, <1>6, <1>7

Read(h, base, index) ==
    ReadFrom(h, [obj |-> base, word |-> 0, type |-> Root, ptr |-> FALSE], index)

LEMMA FollowSteps ==
    ASSUME NEW h, NEW base
    PROVE  /\ AddrByTraversal(h, base, <<>>) = [heap |-> h, obj |-> base, word |-> 0]
           /\ \A s \in Seq(Step) : \A x \in Step :
                AddrByTraversal(h, base, Append(s, x)) = Follow(AddrByTraversal(h, base, s), x)
<1> DEFINE b == [heap |-> h, obj |-> base, word |-> 0]
<1>1. ASSUME NEW s \in Seq(Step)
      PROVE  \E e : IsFold(1, h, b, s, Len(s), e) /\ AddrByTraversal(h, base, s) = e[1..Len(s)]
  <2> HIDE DEF b
  <2>1. \E e : IsFold(1, h, b, s, Len(s), e) /\ FoldLeft(Follow, b, s) = e[1..Len(s)]
    BY FollowFold
  <2> QED
    BY <2>1 DEF AddrByTraversal, b
<1>2. AddrByTraversal(h, base, <<>>) = b
  <2>1. <<>> \in Seq(Step) /\ Len(<<>>) = 0
    OBVIOUS
  <2>2. PICK e : IsFold(1, h, b, <<>>, 0, e) /\ AddrByTraversal(h, base, <<>>) = e[1..0]
    <3> HIDE DEF b
    <3> QED
      BY <1>1, <2>1
  <2>3. Along(1, h, b, <<>>, 0, e)
    <3> HIDE DEF b
    <3> QED
      BY <2>2, FoldSteps
  <2> HIDE DEF b
  <2> QED
    BY <2>2, <2>3 DEF Along
<1>3. ASSUME NEW s \in Seq(Step), NEW x \in Step
      PROVE  AddrByTraversal(h, base, Append(s, x)) = Follow(AddrByTraversal(h, base, s), x)
  <2>1. Append(s, x) \in Seq(Step) /\ Len(Append(s, x)) = Len(s) + 1
    OBVIOUS
  <2> DEFINE t == Append(s, x)
             n == Len(s) + 1
  <2>2. PICK e : IsFold(1, h, b, s, Len(s), e) /\ AddrByTraversal(h, base, s) = e[1..Len(s)]
    <3> HIDE DEF b
    <3> QED
      BY <1>1
  <2>3. PICK f : IsFold(1, h, b, t, n, f) /\ AddrByTraversal(h, base, t) = f[1..n]
    <3> HIDE DEF b
    <3> QED
      BY <1>1, <2>1
  <2>4. Longer(s, x, t, Len(s), n)
    BY <2>1 DEF Longer
  <2>5. f[1..n] = Op(1, h, e[1..Len(s)], x)
    <3> HIDE DEF b, t, n
    <3> QED
      BY <2>2, <2>3, <2>4, FoldAppend
  <2> HIDE DEF b, t, n
  <2>6. AddrByTraversal(h, base, t) = Op(1, h, AddrByTraversal(h, base, s), x)
    BY <2>2, <2>3, <2>5
  <2> QED
    BY <2>6 DEF Op, t
<1> HIDE DEF b
<1>4. AddrByTraversal(h, base, <<>>) = [heap |-> h, obj |-> base, word |-> 0]
  BY <1>2 DEF b
<1> QED
  BY <1>3, <1>4

LEMMA EnterSteps ==
    ASSUME NEW h, NEW base
    PROVE  /\ Read(h, base, <<>>) = [obj |-> base, word |-> 0, type |-> Root, ptr |-> FALSE]
           /\ \A s \in Seq(Nat) : \A x \in Nat :
                Read(h, base, Append(s, x)) = Enter(h, Read(h, base, s), x)
<1> DEFINE b == [obj |-> base, word |-> 0, type |-> Root, ptr |-> FALSE]
<1>1. ASSUME NEW s \in Seq(Nat)
      PROVE  \E e : IsFold(2, h, b, s, Len(s), e) /\ Read(h, base, s) = e[1..Len(s)]
  <2> HIDE DEF b
  <2>1. \E e : IsFold(2, h, b, s, Len(s), e) /\ ReadFrom(h, b, s) = e[1..Len(s)]
    BY EnterFold
  <2> QED
    BY <2>1 DEF Read, b
<1>2. Read(h, base, <<>>) = b
  <2>1. <<>> \in Seq(Nat) /\ Len(<<>>) = 0
    OBVIOUS
  <2>2. PICK e : IsFold(2, h, b, <<>>, 0, e) /\ Read(h, base, <<>>) = e[1..0]
    <3> HIDE DEF b
    <3> QED
      BY <1>1, <2>1
  <2>3. Along(2, h, b, <<>>, 0, e)
    <3> HIDE DEF b
    <3> QED
      BY <2>2, FoldSteps
  <2> HIDE DEF b
  <2> QED
    BY <2>2, <2>3 DEF Along
<1>3. ASSUME NEW s \in Seq(Nat), NEW x \in Nat
      PROVE  Read(h, base, Append(s, x)) = Enter(h, Read(h, base, s), x)
  <2>1. Append(s, x) \in Seq(Nat) /\ Len(Append(s, x)) = Len(s) + 1
    OBVIOUS
  <2> DEFINE t == Append(s, x)
             n == Len(s) + 1
  <2>2. PICK e : IsFold(2, h, b, s, Len(s), e) /\ Read(h, base, s) = e[1..Len(s)]
    <3> HIDE DEF b
    <3> QED
      BY <1>1
  <2>3. PICK f : IsFold(2, h, b, t, n, f) /\ Read(h, base, t) = f[1..n]
    <3> HIDE DEF b
    <3> QED
      BY <1>1, <2>1
  <2>4. Longer(s, x, t, Len(s), n)
    BY <2>1 DEF Longer
  <2>5. f[1..n] = Op(2, h, e[1..Len(s)], x)
    <3> HIDE DEF b, t, n
    <3> QED
      BY <2>2, <2>3, <2>4, FoldAppend
  <2> HIDE DEF b, t, n
  <2>6. Read(h, base, t) = Op(2, h, Read(h, base, s), x)
    BY <2>2, <2>3, <2>5
  <2> QED
    BY <2>6 DEF Op, t
<1> HIDE DEF b
<1>4. Read(h, base, <<>>) = [obj |-> base, word |-> 0, type |-> Root, ptr |-> FALSE]
  BY <1>2 DEF b
<1> QED
  BY <1>3, <1>4

LEMMA EnterFilledSteps ==
    ASSUME NEW h, NEW base
    PROVE  /\ FieldByIndexes(h, base, <<>>) = [heap |-> h, obj |-> base, word |-> 0, type |-> Root, ptr |-> FALSE]
           /\ \A s \in Seq(Nat) : \A x \in Nat :
                FieldByIndexes(h, base, Append(s, x)) = EnterFilled(FieldByIndexes(h, base, s), x)
<1> DEFINE b == [heap |-> h, obj |-> base, word |-> 0, type |-> Root, ptr |-> FALSE]
<1>1. ASSUME NEW s \in Seq(Nat)
      PROVE  \E e : IsFold(3, h, b, s, Len(s), e) /\ FieldByIndexes(h, base, s) = e[1..Len(s)]
  <2> HIDE DEF b
  <2>1. \E e : IsFold(3, h, b, s, Len(s), e) /\ FoldLeft(EnterFilled, b, s) = e[1..Len(s)]
    BY EnterFilledFold
  <2> QED
    BY <2>1 DEF FieldByIndexes, b
<1>2. FieldByIndexes(h, base, <<>>) = b
  <2>1. <<>> \in Seq(Nat) /\ Len(<<>>) = 0
    OBVIOUS
  <2>2. PICK e : IsFold(3, h, b, <<>>, 0, e) /\ FieldByIndexes(h, base, <<>>) = e[1..0]
    <3> HIDE DEF b
    <3> QED
      BY <1>1, <2>1
  <2>3. Along(3, h, b, <<>>, 0, e)
    <3> HIDE DEF b
    <3> QED
      BY <2>2, FoldSteps
  <2> HIDE DEF b
  <2> QED
    BY <2>2, <2>3 DEF Along
<1>3. ASSUME NEW s \in Seq(Nat), NEW x \in Nat
      PROVE  FieldByIndexes(h, base, Append(s, x)) = EnterFilled(FieldByIndexes(h, base, s), x)
  <2>1. Append(s, x) \in Seq(Nat) /\ Len(Append(s, x)) = Len(s) + 1
    OBVIOUS
  <2> DEFINE t == Append(s, x)
             n == Len(s) + 1
  <2>2. PICK e : IsFold(3, h, b, s, Len(s), e) /\ FieldByIndexes(h, base, s) = e[1..Len(s)]
    <3> HIDE DEF b
    <3> QED
      BY <1>1
  <2>3. PICK f : IsFold(3, h, b, t, n, f) /\ FieldByIndexes(h, base, t) = f[1..n]
    <3> HIDE DEF b
    <3> QED
      BY <1>1, <2>1
  <2>4. Longer(s, x, t, Len(s), n)
    BY <2>1 DEF Longer
  <2>5. f[1..n] = Op(3, h, e[1..Len(s)], x)
    <3> HIDE DEF b, t, n
    <3> QED
      BY <2>2, <2>3, <2>4, FoldAppend
  <2> HIDE DEF b, t, n
  <2>6. FieldByIndexes(h, base, t) = Op(3, h, FieldByIndexes(h, base, s), x)
    BY <2>2, <2>3, <2>5
  <2> QED
    BY <2>6 DEF Op, t
<1> HIDE DEF b
<1>4. FieldByIndexes(h, base, <<>>) = [heap |-> h, obj |-> base, word |-> 0, type |-> Root, ptr |-> FALSE]
  BY <1>2 DEF b
<1> QED
  BY <1>3, <1>4

(***************************************************************************)
(* The ways into a struct by the declarations s alone: a node for every    *)
(* sequence of positions that leads to a field, and one for the struct     *)
(* itself.  home and off say where the field is: in the object that the    *)
(* last pointer before it leads to, at a word; obj and word say where its  *)
(* value is, behind the field's own pointer.                               *)
(***************************************************************************)
NodeSet == [path : Seq(Nat), type : Types \cup {Scalar}, ptr : BOOLEAN,
            home : Seq(Nat), off : Nat, obj : Seq(Nat), word : Nat,
            trav : Seq(Step), prefix : Seq(Words), marked : BOOLEAN]

Start == [path |-> <<>>, type |-> Root, ptr |-> FALSE,
          home |-> <<>>, off |-> 0, obj |-> <<>>, word |-> 0,
          trav |-> <<>>, prefix |-> <<>>, marked |-> FALSE]

Below(s, a, i) ==
    LET f == s[a.type][i] IN
    [path |-> Append(a.path, i), type |-> f.type, ptr |-> f.ptr,
     home |-> a.obj, off |-> a.word + f.off,
     obj |-> IF f.ptr THEN Append(a.path, i) ELSE a.obj,
     word |-> IF f.ptr THEN 0 ELSE a.word + f.off,
     trav |-> a.trav \o Way(f),
     prefix |-> IF Embedded(f) THEN a.prefix ELSE a.prefix \o f.name,
     marked |-> a.marked \/ f.ptr]

Closed(s, N) ==
    /\ Start \in N
    /\ \A a \in N : a.type \in Types =>
          \A i \in DOMAIN s[a.type] : Below(s, a, i) \in N

Nodes(s) == {n \in NodeSet : \A N \in SUBSET NodeSet : Closed(s, N) => n \in N}

(* p is the beginning of q. *)
Under(p, q) == Len(p) <= Len(q) /\ \A k \in 1..Len(p) : p[k] = q[k]

Declarations == [Types -> Seq(Field)]

LEMMA StartType == Start \in NodeSet
  BY TypesAssumption DEF Start, NodeSet

LEMMA FieldType ==
    ASSUME NEW s \in Declarations, NEW t \in Types, NEW i \in DOMAIN s[t]
    PROVE  i \in Nat \ {0} /\ s[t][i] \in Field
<1>1. s[t] \in Seq(Field)
  BY DEF Declarations
<1> QED
  BY <1>1, ElementOfSeq, LenProperties

LEMMA BelowType ==
    ASSUME NEW s \in Declarations, NEW a \in NodeSet, a.type \in Types,
           NEW i \in DOMAIN s[a.type]
    PROVE  /\ Below(s, a, i) \in NodeSet
           /\ i \in Nat \ {0} /\ s[a.type][i] \in Field
<1> DEFINE f == s[a.type][i]
<1>1. i \in Nat \ {0} /\ f \in Field
  BY FieldType
<1>2. Way(f) \in Seq(Step)
  BY <1>1, WayType
<1>3. /\ a.path \in Seq(Nat) /\ a.obj \in Seq(Nat) /\ a.word \in Nat
      /\ a.trav \in Seq(Step) /\ a.prefix \in Seq(Words) /\ a.marked \in BOOLEAN
  BY DEF NodeSet
<1>4. /\ f.type \in Types \cup {Scalar} /\ f.ptr \in BOOLEAN /\ f.off \in Nat
      /\ f.name \in Seq(Words)
  BY <1>1 DEF Field
<1>5. Append(a.path, i) \in Seq(Nat)
  BY <1>1, <1>3
<1>6. a.trav \o Way(f) \in Seq(Step)
  BY <1>2, <1>3, ConcatProperties
<1>7. a.prefix \o f.name \in Seq(Words)
  BY <1>3, <1>4, ConcatProperties
<1> HIDE DEF f
<1>8. a.word + f.off \in Nat
  BY <1>3, <1>4
<1> DEFINE p == Append(a.path, i)
           w == a.trav \o Way(f)
           x == a.prefix \o f.name
           o == a.word + f.off
<1>9. p \in Seq(Nat) /\ w \in Seq(Step) /\ x \in Seq(Words) /\ o \in Nat
  BY <1>5, <1>6, <1>7, <1>8
<1> HIDE DEF p, w, x, o
<1>10. [path |-> p, type |-> f.type, ptr |-> f.ptr,
        home |-> a.obj, off |-> o,
        obj |-> IF f.ptr THEN p ELSE a.obj,
        word |-> IF f.ptr THEN 0 ELSE o,
        trav |-> w, prefix |-> IF Embedded(f) THEN a.prefix ELSE x,
        marked |-> a.marked \/ f.ptr] \in NodeSet
  BY <1>3, <1>4, <1>9 DEF NodeSet
<1> QED
  BY <1>1, <1>10 DEF Below, p, w, x, o, f

LEMMA NodesAreNodes ==
    ASSUME NEW s
    PROVE  Nodes(s) \subseteq NodeSet
  BY DEF Nodes

LEMMA NodesClosed ==
    ASSUME NEW s \in Declarations
    PROVE  Closed(s, Nodes(s))
<1>1. Start \in Nodes(s)
  BY StartType DEF Nodes, Closed
<1>2. ASSUME NEW a \in Nodes(s), a.type \in Types, NEW i \in DOMAIN s[a.type]
      PROVE  Below(s, a, i) \in Nodes(s)
  <2>1. Below(s, a, i) \in NodeSet
    BY <1>2, BelowType, NodesAreNodes
  <2>2. ASSUME NEW N \in SUBSET NodeSet, Closed(s, N)
        PROVE  Below(s, a, i) \in N
    <3>1. a \in N
      BY <2>2 DEF Nodes
    <3> QED
      BY <1>2, <2>2, <3>1 DEF Closed
  <2> QED
    BY <2>1, <2>2 DEF Nodes
<1> QED
  BY <1>1, <1>2 DEF Closed

LEMMA NodeInduction ==
    ASSUME NEW s \in Declarations, NEW N, Start \in N,
           \A a \in Nodes(s) : a \in N /\ a.type \in Types =>
              \A i \in DOMAIN s[a.type] : Below(s, a, i) \in N
    PROVE  Nodes(s) \subseteq N
<1> DEFINE M == Nodes(s) \cap N
<1>1. M \in SUBSET NodeSet
  BY NodesAreNodes
<1>2. Closed(s, M)
  BY NodesClosed DEF Closed
<1> HIDE DEF M
<1>3. Nodes(s) \subseteq M
  BY <1>1, <1>2 DEF Nodes
<1> QED
  BY <1>3 DEF M

(* A node is the struct, or a field of another node. *)
LEMMA NodeCases ==
    ASSUME NEW s \in Declarations, NEW n \in Nodes(s)
    PROVE  \/ n = Start
           \/ \E a \in Nodes(s) : a.type \in Types /\
                 \E i \in DOMAIN s[a.type] : n = Below(s, a, i)
<1> DEFINE N == {m \in Nodes(s) :
                   \/ m = Start
                   \/ \E a \in Nodes(s) : a.type \in Types /\
                         \E i \in DOMAIN s[a.type] : m = Below(s, a, i)}
<1>1. Closed(s, Nodes(s))
  BY NodesClosed
<1>2. Start \in N
  BY <1>1 DEF Closed
<1>3. ASSUME NEW a \in Nodes(s), a.type \in Types, NEW i \in DOMAIN s[a.type]
      PROVE  Below(s, a, i) \in N
  <2>1. Below(s, a, i) \in Nodes(s)
    BY <1>1, <1>3 DEF Closed
  <2> QED
    BY <1>3, <2>1
<1>4. Nodes(s) \subseteq N
  <2> HIDE DEF N
  <2> QED
    BY <1>2, <1>3, NodeInduction
<1> QED
  BY <1>4

LEMMA BelowNode ==
    ASSUME NEW s \in Declarations, NEW a \in Nodes(s), a.type \in Types,
           NEW i \in DOMAIN s[a.type]
    PROVE  Below(s, a, i) \in Nodes(s)
  BY NodesClosed DEF Closed

LEMMA AppendSame ==
    ASSUME NEW p \in Seq(Nat), NEW q \in Seq(Nat), NEW i \in Nat, NEW j \in Nat,
           Append(p, i) = Append(q, j)
    PROVE  p = q /\ i = j
<1>1. Len(p) = Len(q) /\ Len(p) \in Nat
  <2>1. Len(Append(p, i)) = Len(p) + 1 /\ Len(Append(q, j)) = Len(q) + 1
    OBVIOUS
  <2>2. Len(p) \in Nat /\ Len(q) \in Nat
    OBVIOUS
  <2> QED
    BY <2>1, <2>2
<1>2. ASSUME NEW k \in 1..Len(p)
      PROVE  p[k] = q[k]
  <2>1. Append(p, i)[k] = p[k] /\ Append(q, j)[k] = q[k]
    BY <1>1
  <2> QED
    BY <2>1
<1>3. i = j
  <2>1. Append(p, i)[Len(p) + 1] = i /\ Append(q, j)[Len(q) + 1] = j
    OBVIOUS
  <2> QED
    BY <1>1, <2>1
<1> QED
  BY <1>1, <1>2, <1>3, SeqEqual

(* The positions tell nodes apart. *)
LEMMA NodeUnique ==
    ASSUME NEW s \in Declarations, NEW n \in Nodes(s), NEW m \in Nodes(s),
           n.path = m.path
    PROVE  n = m
<1> DEFINE N == {a \in Nodes(s) : \A b \in Nodes(s) : b.path = a.path => b = a}
<1>1. \A a \in Nodes(s) : a.path \in Seq(Nat)
  BY NodesAreNodes DEF NodeSet
<1>2. ASSUME NEW a, NEW i \in Nat, a.path \in Seq(Nat)
      PROVE  Below(s, a, i).path # Start.path
  <2>1. Below(s, a, i).path = Append(a.path, i)
    BY DEF Below
  <2>2. Len(Append(a.path, i)) = Len(a.path) + 1 /\ Len(a.path) \in Nat
    BY <1>2
  <2>3. Start.path = <<>> /\ Len(<<>>) = 0
    BY DEF Start
  <2> DEFINE p == Append(a.path, i)
  <2> HIDE DEF p
  <2>4. Len(p) # 0
    BY <2>2 DEF p
  <2>5. p # <<>>
    BY <2>3, <2>4
  <2> QED
    BY <2>1, <2>3, <2>5 DEF p
<1>3. Start \in N
  <2>1. Start \in Nodes(s)
    BY NodesClosed DEF Closed
  <2>2. ASSUME NEW b \in Nodes(s), b.path = Start.path
        PROVE  b = Start
    BY <1>1, <1>2, <2>2, NodeCases, FieldType
  <2> QED
    BY <2>1, <2>2
<1>4. ASSUME NEW a \in Nodes(s), a \in N, a.type \in Types, NEW i \in DOMAIN s[a.type]
      PROVE  Below(s, a, i) \in N
  <2>1. Below(s, a, i) \in Nodes(s)
    BY <1>4, BelowNode
  <2>2. ASSUME NEW b \in Nodes(s), b.path = Below(s, a, i).path
        PROVE  b = Below(s, a, i)
    <3>1. b # Start
      <4>1. Below(s, a, i).path # Start.path
        BY <1>1, <1>2, <1>4, FieldType
      <4> QED
        BY <2>2, <4>1
    <3>2. PICK c, j : /\ c \in Nodes(s) /\ c.type \in Types /\ j \in DOMAIN s[c.type]
                         /\ b = Below(s, c, j)
      BY <3>1, NodeCases
    <3>3. Append(c.path, j) = Append(a.path, i)
      <4>1. Below(s, c, j).path = Append(c.path, j) /\ Below(s, a, i).path = Append(a.path, i)
        BY DEF Below
      <4> QED
        BY <2>2, <3>2, <4>1
    <3>4. i \in Nat /\ j \in Nat
      BY <1>4, <3>2, FieldType
    <3>5. c.path = a.path /\ j = i
      <4>1. a.path \in Seq(Nat) /\ c.path \in Seq(Nat)
        BY <1>1, <3>2
      <4> QED
        BY <3>3, <3>4, <4>1, AppendSame
    <3>6. c = a
      BY <1>4, <3>2, <3>5
    <3> QED
      BY <3>2, <3>5, <3>6
  <2> QED
    BY <2>1, <2>2
<1>5. Nodes(s) \subseteq N
  <2> HIDE DEF N
  <2> QED
    BY <1>3, <1>4, NodeInduction
<1> QED
  BY <1>5

-----------------------------------------------------------------------------
(* The nodes on the way to a node, and where its value is.                 *)

(* A node of every length on the way to a node.                            *)
LEMMA PrefixNode ==
    ASSUME NEW s \in Declarations, NEW n \in Nodes(s), NEW k \in 0..Len(n.path)
    PROVE  \E m \in Nodes(s) : Len(m.path) = k /\ Under(m.path, n.path)
<1> DEFINE N == {a \in Nodes(s) : \A l \in 0..Len(a.path) :
                   \E m \in Nodes(s) : Len(m.path) = l /\ Under(m.path, a.path)}
<1>1. \A a \in Nodes(s) : a.path \in Seq(Nat)
  BY NodesAreNodes DEF NodeSet
<1>2. ASSUME NEW a \in Nodes(s)
      PROVE  Under(a.path, a.path)
  BY <1>1 DEF Under
<1>3. Start \in N
  <2>1. Start \in Nodes(s) /\ Len(Start.path) = 0
    BY NodesClosed DEF Closed, Start
  <2> QED
    BY <1>2, <2>1
<1>4. ASSUME NEW a \in Nodes(s), a \in N, a.type \in Types, NEW i \in DOMAIN s[a.type]
      PROVE  Below(s, a, i) \in N
  <2> DEFINE b == Below(s, a, i)
  <2>1. b \in Nodes(s) /\ i \in Nat
    BY <1>4, BelowNode, FieldType
  <2>2. b.path = Append(a.path, i)
    BY DEF Below
  <2> HIDE DEF b
  <2>3. a.path \in Seq(Nat) /\ Len(b.path) = Len(a.path) + 1
    BY <1>1, <2>1, <2>2
  <2>4. \A x \in 1..Len(a.path) : b.path[x] = a.path[x]
    BY <2>1, <2>2, <2>3
  <2>5. ASSUME NEW l \in 0..Len(b.path)
        PROVE  \E m \in Nodes(s) : Len(m.path) = l /\ Under(m.path, b.path)
    <3>1. CASE l = Len(b.path)
      BY <1>2, <2>1, <3>1
    <3>2. CASE l # Len(b.path)
      <4>1. l \in 0..Len(a.path)
        BY <2>3, <3>2
      <4>2. PICK m \in Nodes(s) : Len(m.path) = l /\ Under(m.path, a.path)
        BY <1>4, <4>1
      <4>3. Under(m.path, b.path)
        <5>1. Len(m.path) <= Len(a.path) /\ Len(m.path) \in Nat /\ Len(a.path) \in Nat
              /\ \A x \in 1..Len(m.path) : m.path[x] = a.path[x]
          BY <2>3, <4>1, <4>2 DEF Under
        <5> QED
          BY <2>3, <2>4, <5>1 DEF Under
      <4> QED
        BY <4>2, <4>3
    <3> QED
      BY <3>1, <3>2
  <2>6. Below(s, a, i) \in Nodes(s) /\ \A l \in 0..Len(Below(s, a, i).path) :
          \E m \in Nodes(s) : Len(m.path) = l /\ Under(m.path, Below(s, a, i).path)
    BY <2>1, <2>5 DEF b
  <2> QED
    BY <2>6
<1>5. Nodes(s) \subseteq N
  <2> HIDE DEF N
  <2> QED
    BY <1>3, <1>4, NodeInduction
<1> QED
  BY <1>5

LEMMA UnderSame ==
    ASSUME NEW p \in Seq(Nat), NEW q \in Seq(Nat), Under(p, q), Len(p) = Len(q)
    PROVE  p = q
  BY SeqEqual DEF Under

LEMMA UnderTwo ==
    ASSUME NEW p \in Seq(Nat), NEW q \in Seq(Nat), NEW r \in Seq(Nat),
           Under(p, r), Under(q, r), Len(p) <= Len(q)
    PROVE  Under(p, q)
<1>1. Len(p) \in Nat /\ Len(q) \in Nat /\ Len(r) \in Nat
  OBVIOUS
<1>2. Len(q) <= Len(r) /\ (\A k \in 1..Len(p) : p[k] = r[k]) /\ \A k \in 1..Len(q) : q[k] = r[k]
  BY DEF Under
<1> QED
  BY <1>1, <1>2 DEF Under

LEMMA UnderTrans ==
    ASSUME NEW p \in Seq(Nat), NEW q \in Seq(Nat), NEW r \in Seq(Nat),
           Under(p, q), Under(q, r)
    PROVE  Under(p, r)
<1>1. Len(p) \in Nat /\ Len(q) \in Nat /\ Len(r) \in Nat
  OBVIOUS
<1>2. /\ Len(p) <= Len(q) /\ Len(q) <= Len(r)
      /\ (\A k \in 1..Len(p) : p[k] = q[k]) /\ \A k \in 1..Len(q) : q[k] = r[k]
  BY DEF Under
<1> QED
  BY <1>1, <1>2 DEF Under

LEMMA UnderAppend ==
    ASSUME NEW p \in Seq(Nat), NEW q \in Seq(Nat), NEW i \in Nat
    PROVE  /\ Under(p, Append(p, i))
           /\ Under(q, Append(p, i)) <=> q = Append(p, i) \/ Under(q, p)
<1> DEFINE a == Append(p, i)
<1>1. a \in Seq(Nat) /\ Len(a) = Len(p) + 1 /\ Len(p) \in Nat /\ Len(q) \in Nat
  OBVIOUS
<1>2. \A k \in 1..Len(p) : p[k] = a[k]
  OBVIOUS
<1> HIDE DEF a
<1>3. Under(p, a)
  BY <1>1, <1>2 DEF Under
<1>4. ASSUME Under(q, a)
      PROVE  q = a \/ Under(q, p)
  <2>1. CASE Len(q) = Len(a)
    BY <1>1, <1>4, <2>1, UnderSame
  <2>2. CASE Len(q) # Len(a)
    <3>1. Len(q) <= Len(p)
      BY <1>1, <1>4, <2>2 DEF Under
    <3> QED
      BY <1>1, <1>3, <1>4, <3>1, UnderTwo
  <2> QED
    BY <2>1, <2>2
<1>5. ASSUME q = a \/ Under(q, p)
      PROVE  Under(q, a)
  <2>1. CASE q = a
    BY <1>1, <2>1 DEF Under
  <2>2. CASE Under(q, p)
    BY <1>1, <1>3, <2>2, UnderTrans
  <2> QED
    BY <1>5, <2>1, <2>2
<1> QED
  BY <1>3, <1>4, <1>5 DEF a

(* From a node the way to a longer one goes on with a field of it.         *)
LEMMA NextDown ==
    ASSUME NEW s \in Declarations, NEW m \in Nodes(s), NEW n \in Nodes(s),
           Under(m.path, n.path), m # n
    PROVE  /\ Len(m.path) < Len(n.path)
           /\ m.type \in Types
           /\ n.path[Len(m.path) + 1] \in DOMAIN s[m.type]
           /\ Below(s, m, n.path[Len(m.path) + 1]) \in Nodes(s)
           /\ Under(Below(s, m, n.path[Len(m.path) + 1]).path, n.path)
<1>1. \A a \in Nodes(s) : a.path \in Seq(Nat) /\ Len(a.path) \in Nat
  <2>1. \A a \in Nodes(s) : a.path \in Seq(Nat)
    BY NodesAreNodes DEF NodeSet
  <2> QED
    BY <2>1
<1> DEFINE l == Len(m.path)
<1>2. l < Len(n.path) /\ l + 1 \in 0..Len(n.path) /\ l \in Nat
  <2>1. l <= Len(n.path) /\ l \in Nat /\ Len(n.path) \in Nat
    BY <1>1 DEF Under
  <2>2. l # Len(n.path)
    BY <1>1, NodeUnique, UnderSame
  <2> HIDE DEF l
  <2> QED
    BY <2>1, <2>2
<1>3. PICK c \in Nodes(s) : Len(c.path) = l + 1 /\ Under(c.path, n.path)
  <2> HIDE DEF l
  <2> QED
    BY <1>2, PrefixNode
<1>4. c # Start
  BY <1>2, <1>3 DEF Start
<1>5. PICK b, j : b \in Nodes(s) /\ b.type \in Types /\ j \in DOMAIN s[b.type] /\ c = Below(s, b, j)
  BY <1>4, NodeCases
<1>6. c.path = Append(b.path, j) /\ j \in Nat
  <2>1. Below(s, b, j).path = Append(b.path, j)
    BY DEF Below
  <2> QED
    BY <1>5, <2>1, FieldType
<1>7. Len(b.path) = l /\ c.path[l + 1] = j
  <2>1. b.path \in Seq(Nat) /\ Len(b.path) \in Nat
    BY <1>1, <1>5
  <2>2. Len(c.path) = Len(b.path) + 1 /\ c.path[Len(b.path) + 1] = j
    BY <1>6, <2>1
  <2> HIDE DEF l
  <2> QED
    BY <1>2, <1>3, <2>1, <2>2
<1>8. b = m
  <2>1. b.path \in Seq(Nat) /\ c.path \in Seq(Nat) /\ n.path \in Seq(Nat) /\ m.path \in Seq(Nat)
    BY <1>1, <1>5
  <2>2. Under(b.path, c.path)
    BY <1>6, <2>1, UnderAppend
  <2>3. Under(b.path, n.path)
    BY <1>3, <2>1, <2>2, UnderTrans
  <2>4. Under(b.path, m.path)
    BY <1>2, <1>7, <2>1, <2>3, UnderTwo
  <2> QED
    BY <1>5, <1>7, <2>1, <2>4, NodeUnique, UnderSame
<1>9. n.path[l + 1] = j
  <2>1. c.path[l + 1] = n.path[l + 1]
    <3>1. l + 1 \in 1..Len(c.path)
      BY <1>2, <1>3
    <3> HIDE DEF l
    <3> QED
      BY <1>3, <3>1 DEF Under
  <2> QED
    BY <1>7, <2>1
<1> QED
  BY <1>2, <1>3, <1>5, <1>8, <1>9

(* The home of a field is on the way to it.                                *)
LEMMA Home ==
    ASSUME NEW s \in Declarations, NEW n \in Nodes(s)
    PROVE  /\ n.path \in Seq(Nat) /\ n.home \in Seq(Nat) /\ n.obj \in Seq(Nat)
           /\ Under(n.home, n.path) /\ Under(n.obj, n.path)
           /\ n # Start => Len(n.home) < Len(n.path)
           /\ n.obj = (IF n.ptr THEN n.path ELSE n.home)
           /\ n.word = (IF n.ptr THEN 0 ELSE n.off)
           /\ n.off \in Nat /\ n.word \in Nat /\ n.ptr \in BOOLEAN
           /\ n.type \in Types \cup {Scalar}
           /\ n.marked <=> n.obj # <<>>
<1> DEFINE P(a) == /\ Under(a.home, a.path) /\ Under(a.obj, a.path)
                   /\ a # Start => Len(a.home) < Len(a.path)
                   /\ a.obj = (IF a.ptr THEN a.path ELSE a.home)
                   /\ a.word = (IF a.ptr THEN 0 ELSE a.off)
                   /\ a.marked <=> a.obj # <<>>
           N == {a \in Nodes(s) : P(a)}
<1>1. \A a \in Nodes(s) :
        /\ a.path \in Seq(Nat) /\ a.home \in Seq(Nat) /\ a.obj \in Seq(Nat)
        /\ a.off \in Nat /\ a.word \in Nat /\ a.ptr \in BOOLEAN
        /\ a.type \in Types \cup {Scalar} /\ a.marked \in BOOLEAN
  BY NodesAreNodes DEF NodeSet
<1>2. Start \in N
  <2>1. Start \in Nodes(s)
    BY NodesClosed DEF Closed
  <2>2. Under(<<>>, <<>>)
    BY DEF Under
  <2>3. P(Start)
    BY <2>2 DEF Start
  <2> QED
    BY <2>1, <2>3
<1>3. ASSUME NEW a \in Nodes(s), a \in N, a.type \in Types, NEW i \in DOMAIN s[a.type]
      PROVE  Below(s, a, i) \in N
  <2> DEFINE b == Below(s, a, i)
             f == s[a.type][i]
  <2>1. b \in Nodes(s) /\ i \in Nat /\ f.ptr \in BOOLEAN
    BY <1>3, BelowNode, FieldType DEF Field
  <2>2. /\ b.path = Append(a.path, i) /\ b.home = a.obj /\ b.ptr = f.ptr
        /\ b.obj = (IF f.ptr THEN Append(a.path, i) ELSE a.obj)
        /\ b.off = a.word + f.off
        /\ b.word = (IF f.ptr THEN 0 ELSE a.word + f.off)
        /\ b.marked = (a.marked \/ f.ptr)
    BY DEF Below
  <2> HIDE DEF b, f
  <2>3. P(a) /\ a.path \in Seq(Nat) /\ a.obj \in Seq(Nat) /\ a.marked \in BOOLEAN
    BY <1>1, <1>3
  <2>4. Under(a.path, b.path) /\ Under(b.path, b.path) /\ b.path \in Seq(Nat)
    <3>1. b.path \in Seq(Nat)
      BY <1>1, <2>1
    <3>2. Under(a.path, b.path)
      BY <2>1, <2>2, <2>3, UnderAppend
    <3>3. Under(b.path, b.path)
      BY <2>1, <2>2, <2>3, <3>1, UnderAppend
    <3> QED
      BY <3>1, <3>2, <3>3
  <2>5. Under(a.obj, b.path)
    BY <2>3, <2>4, UnderTrans
  <2>6. Len(b.path) = Len(a.path) + 1 /\ Len(a.path) \in Nat /\ Len(a.obj) <= Len(a.path)
        /\ Len(a.obj) \in Nat
    BY <2>1, <2>2, <2>3 DEF Under
  <2>7. Len(a.obj) < Len(b.path)
    BY <2>6
  <2>8. b.path # <<>>
    <3>1. Len(b.path) # 0
      BY <2>6
    <3> QED
      BY <3>1
  <2>9. b.marked <=> b.obj # <<>>
    BY <2>1, <2>2, <2>3, <2>8
  <2>10. P(b)
    BY <2>2, <2>4, <2>5, <2>7, <2>9
  <2> HIDE DEF P
  <2>11. P(Below(s, a, i)) /\ Below(s, a, i) \in Nodes(s)
    BY <2>1, <2>10 DEF b
  <2> QED
    BY <2>11
<1>4. Nodes(s) \subseteq N
  <2> HIDE DEF N
  <2> QED
    BY <1>2, <1>3, NodeInduction
<1>5. P(n)
  <2> HIDE DEF P
  <2> QED
    BY <1>4
<1> QED
  BY <1>1, <1>5

-----------------------------------------------------------------------------
(* No two fields that hold a word share it: the layout.                    *)

(* The words of a field. *)
Span(s, n) == IF n.ptr THEN 1 ELSE Size(s, n.type)

(* A field below c in the same object lies in the words of c. *)
Within(s, c, n) ==
    n.home = c.home /\ c.off <= n.off /\ n.off + Span(s, n) <= c.off + Span(s, c)

(* Two fields of a struct lie apart. *)
ApartIn(s, m, n) == m.off + Span(s, m) <= n.off \/ n.off + Span(s, n) <= m.off

LEMMA Laid ==
    ASSUME NEW s \in Shapes
    PROVE  /\ s \in Declarations
           /\ \A t \in Types \cup {Scalar} : Size(s, t) \in Nat
           /\ Size(s, Scalar) = 1
  BY LayoutAssumption, ShapesAssumption DEF Declarations

LEMMA SpanType ==
    ASSUME NEW s \in Shapes, NEW n \in Nodes(s)
    PROVE  Span(s, n) \in Nat /\ (n.ptr \/ n.type = Scalar => Span(s, n) = 1)
<1>1. n.type \in Types \cup {Scalar}
  BY NodesAreNodes DEF NodeSet
<1> QED
  BY <1>1, Laid DEF Span

(* Where a field of a node is in the node's value. *)
LEMMA BelowLaid ==
    ASSUME NEW s \in Shapes, NEW a \in Nodes(s), a.type \in Types,
           NEW i \in DOMAIN s[a.type], NEW b, b = Below(s, a, i)
    PROVE  /\ b \in Nodes(s) /\ b.home = a.obj
           /\ a.word <= b.off /\ b.off + Span(s, b) <= a.word + Size(s, a.type)
<1>1. s \in Declarations
  BY Laid
<1> DEFINE f == s[a.type][i]
<1>2. b \in Nodes(s) /\ f \in Field
  BY <1>1, BelowNode, FieldType
<1>3. f.off + Width(s, f) <= Size(s, a.type)
  BY LayoutAssumption
<1>4. b.home = a.obj /\ b.off = a.word + f.off /\ b.ptr = f.ptr /\ b.type = f.type
  BY DEF Below
<1> HIDE DEF f
<1>5. Span(s, b) = Width(s, f)
  BY <1>4 DEF Span, Width
<1>6. a.word \in Nat /\ f.off \in Nat /\ Width(s, f) \in Nat /\ Size(s, a.type) \in Nat
  <2>1. a.word \in Nat /\ f.off \in Nat
    BY <1>2, NodesAreNodes DEF NodeSet, Field
  <2>2. Width(s, f) \in Nat
    BY <1>2, <1>5, SpanType
  <2>3. Size(s, a.type) \in Nat
    BY Laid
  <2> QED
    BY <2>1, <2>2, <2>3
<1> QED
  BY <1>2, <1>3, <1>4, <1>5, <1>6

LEMMA BelowApart ==
    ASSUME NEW s \in Shapes, NEW a \in Nodes(s), a.type \in Types,
           NEW i \in DOMAIN s[a.type], NEW j \in DOMAIN s[a.type], i # j,
           NEW b, b = Below(s, a, i), NEW c, c = Below(s, a, j)
    PROVE  ApartIn(s, b, c)
<1>1. s \in Declarations
  BY Laid
<1> DEFINE f == s[a.type][i]
           g == s[a.type][j]
<1>2. b \in Nodes(s) /\ f \in Field /\ c \in Nodes(s) /\ g \in Field
  BY <1>1, BelowNode, FieldType
<1>3. f.off + Width(s, f) <= g.off \/ g.off + Width(s, g) <= f.off
  BY LayoutAssumption
<1>4. /\ b.off = a.word + f.off /\ b.ptr = f.ptr /\ b.type = f.type
      /\ c.off = a.word + g.off /\ c.ptr = g.ptr /\ c.type = g.type
  BY DEF Below
<1> HIDE DEF f, g
<1>5. Span(s, b) = Width(s, f) /\ Span(s, c) = Width(s, g)
  BY <1>4 DEF Span, Width
<1>6. a.word \in Nat /\ f.off \in Nat /\ g.off \in Nat
  BY <1>2, NodesAreNodes DEF NodeSet, Field
<1>7. Width(s, f) \in Nat /\ Width(s, g) \in Nat
  BY <1>2, <1>5, SpanType
<1> DEFINE u == Width(s, f)
           v == Width(s, g)
<1>8. u \in Nat /\ v \in Nat /\ Span(s, b) = u /\ Span(s, c) = v
      /\ (f.off + u <= g.off \/ g.off + v <= f.off)
  BY <1>3, <1>5, <1>7
<1> HIDE DEF u, v
<1> QED
  BY <1>4, <1>6, <1>8 DEF ApartIn

(* What is below a node is in its words, or behind a pointer below it.     *)
LEMMA Nested ==
    ASSUME NEW s \in Shapes, NEW c \in Nodes(s), NEW n \in Nodes(s), Under(c.path, n.path)
    PROVE  \/ Within(s, c, n) /\ (c.ptr => n = c)
           \/ Under(c.path, n.home)
<1> DEFINE P(m) == Under(c.path, m.path) =>
                      \/ Within(s, c, m) /\ (c.ptr => m = c)
                      \/ Under(c.path, m.home)
           N == {m \in Nodes(s) : P(m)}
<1>0. s \in Declarations
  BY Laid
<1>c. /\ c.path \in Seq(Nat) /\ c.off \in Nat /\ Span(s, c) \in Nat
  BY <1>0, Home, SpanType
<1>1. ASSUME NEW m \in Nodes(s), m.path = c.path
      PROVE  P(m)
  <2>1. m = c
    BY <1>0, <1>1, NodeUnique
  <2>2. Within(s, c, c)
    BY <1>c DEF Within
  <2> QED
    BY <2>1, <2>2
<1>2. Start \in N
  <2>1. Start \in Nodes(s) /\ Start.path = <<>>
    BY <1>0, NodesClosed DEF Closed, Start
  <2>2. P(Start)
    <3>1. SUFFICES ASSUME Under(c.path, Start.path) PROVE P(Start)
      OBVIOUS
    <3>2. c.path = Start.path
      <4>1. Len(c.path) <= 0 /\ Len(c.path) \in Nat
        BY <1>c, <2>1, <3>1 DEF Under
      <4>2. c.path = <<>>
        BY <1>c, <4>1
      <4> QED
        BY <2>1, <4>2
    <3> HIDE DEF P
    <3> QED
      BY <1>1, <2>1, <3>2
  <2> QED
    BY <2>1, <2>2
<1>3. ASSUME NEW a \in Nodes(s), a \in N, a.type \in Types, NEW i \in DOMAIN s[a.type]
      PROVE  Below(s, a, i) \in N
  <2> DEFINE b == Below(s, a, i)
  <2>1. /\ b \in Nodes(s) /\ b.home = a.obj
        /\ a.word <= b.off /\ b.off + Span(s, b) <= a.word + Size(s, a.type)
    BY <1>3, BelowLaid
  <2>2. b.path = Append(a.path, i)
    BY DEF Below
  <2>3. i \in Nat
    BY <1>0, <1>3, FieldType
  <2> HIDE DEF b
  <2>4. /\ a.path \in Seq(Nat) /\ a.obj = (IF a.ptr THEN a.path ELSE a.home)
        /\ a.word = (IF a.ptr THEN 0 ELSE a.off) /\ a.off \in Nat /\ b.off \in Nat
    BY <1>0, <2>1, Home
  <2>5. P(b)
    <3>1. CASE ~Under(c.path, b.path)
      BY <3>1
    <3>2. CASE c.path = b.path
      <4> HIDE DEF P
      <4> QED
        BY <1>1, <2>1, <3>2
    <3>3. CASE Under(c.path, a.path)
      <4>1. CASE a.ptr
        BY <2>1, <2>4, <3>3, <4>1
      <4>2. CASE ~a.ptr /\ Under(c.path, a.home)
        BY <2>1, <2>4, <4>2
      <4>3. CASE ~a.ptr /\ Within(s, c, a) /\ (c.ptr => a = c)
        <5>1. ~c.ptr
          BY <4>3
        <5>2. Span(s, a) = Size(s, a.type)
          BY <4>3 DEF Span
        <5>3. /\ a.home = c.home /\ c.off <= a.off
              /\ a.off + Span(s, a) <= c.off + Span(s, c)
          BY <4>3 DEF Within
        <5>4. b.home = c.home /\ a.off <= b.off /\ b.off + Span(s, b) <= a.off + Span(s, a)
          BY <2>1, <2>4, <4>3, <5>2, <5>3
        <5>5. Span(s, a) \in Nat /\ Span(s, b) \in Nat
          BY <2>1, SpanType
        <5>6. Within(s, c, b)
          BY <1>c, <2>4, <5>3, <5>4, <5>5 DEF Within
        <5> QED
          BY <5>1, <5>6
      <4> QED
        BY <1>3, <3>3, <4>1, <4>2, <4>3
    <3>4. Under(c.path, b.path) => c.path = b.path \/ Under(c.path, a.path)
      BY <1>c, <2>2, <2>3, <2>4, UnderAppend
    <3> HIDE DEF P
    <3> QED
      BY <3>1, <3>2, <3>3, <3>4
  <2> HIDE DEF P
  <2>6. P(Below(s, a, i)) /\ Below(s, a, i) \in Nodes(s)
    BY <2>1, <2>5 DEF b
  <2> QED
    BY <2>6
<1>4. Nodes(s) \subseteq N
  <2> HIDE DEF N
  <2> QED
    BY <1>0, <1>2, <1>3, NodeInduction
<1>5. P(n)
  <2> HIDE DEF P
  <2> QED
    BY <1>4
<1> QED
  BY <1>5

(* Two sequences of which none begins the other differ somewhere first.    *)
LEMMA FirstDifference ==
    ASSUME NEW p \in Seq(Nat), NEW q \in Seq(Nat), ~Under(p, q), ~Under(q, p)
    PROVE  \E k \in 1..Len(p) : /\ k <= Len(q) /\ p[k] # q[k]
                                /\ \A l \in 1..(k - 1) : p[l] = q[l]
<1> DEFINE T == {k \in Nat : k \in 1..Len(p) /\ k <= Len(q) /\ p[k] # q[k]}
<1>1. Len(p) \in Nat /\ Len(q) \in Nat
  OBVIOUS
<1>2. \E k : k \in T
  <2>1. CASE Len(p) <= Len(q)
    <3>1. PICK k \in 1..Len(p) : p[k] # q[k]
      BY <2>1 DEF Under
    <3>2. k \in T
      BY <1>1, <2>1, <3>1
    <3> HIDE DEF T
    <3> QED
      BY <3>2
  <2>2. CASE Len(q) <= Len(p)
    <3>1. PICK k \in 1..Len(q) : p[k] # q[k]
      BY <2>2 DEF Under
    <3>2. k \in T
      BY <1>1, <2>2, <3>1
    <3> HIDE DEF T
    <3> QED
      BY <3>2
  <2> QED
    BY <1>1, <2>1, <2>2
<1>3. PICK k \in T : \A l \in T : k <= l
  <2>1. T \in SUBSET Nat
    OBVIOUS
  <2> HIDE DEF T
  <2> QED
    BY <1>2, <2>1, Least
<1>4. \A l \in 1..(k - 1) : p[l] = q[l]
  <2> SUFFICES ASSUME NEW l \in 1..(k - 1), p[l] # q[l] PROVE FALSE
    OBVIOUS
  <2>1. l \in T /\ ~(k <= l)
    BY <1>1, <1>3
  <2> QED
    BY <1>3, <2>1
<1> QED
  BY <1>3, <1>4

(* Fields of one object that do not contain each other lie apart.          *)
LEMMA Apart ==
    ASSUME NEW s \in Shapes, NEW m \in Nodes(s), NEW n \in Nodes(s),
           ~Under(m.path, n.path), ~Under(n.path, m.path), m.home = n.home
    PROVE  ApartIn(s, m, n)
<1>0. s \in Declarations
  BY Laid
<1>1. /\ m.path \in Seq(Nat) /\ n.path \in Seq(Nat) /\ m.home \in Seq(Nat)
      /\ Under(m.home, m.path) /\ Under(n.home, n.path)
      /\ m.off \in Nat /\ n.off \in Nat
  BY <1>0, Home
<1>2. PICK k \in 1..Len(m.path) : /\ k <= Len(n.path) /\ m.path[k] # n.path[k]
                                  /\ \A l \in 1..(k - 1) : m.path[l] = n.path[l]
  BY <1>1, FirstDifference
<1>3. k \in Nat /\ k - 1 \in 0..Len(m.path) /\ (k - 1) + 1 = k /\ k - 1 < Len(m.path)
      /\ k - 1 < Len(n.path) /\ Len(m.path) \in Nat /\ Len(n.path) \in Nat
  <2>1. Len(m.path) \in Nat /\ Len(n.path) \in Nat
    BY <1>1
  <2>2. k \in 1..Len(m.path) /\ k <= Len(n.path)
    BY <1>2
  <2> QED
    BY <2>1, <2>2
<1>4. PICK r \in Nodes(s) : Len(r.path) = k - 1 /\ Under(r.path, m.path)
  BY <1>0, <1>3, PrefixNode
<1>5. Under(r.path, n.path)
  BY <1>2, <1>3, <1>4 DEF Under
<1>6. r # m /\ r # n
  BY <1>3, <1>4
<1> DEFINE i == m.path[k]
           j == n.path[k]
           b == Below(s, r, i)
           c == Below(s, r, j)
<1>7. r.type \in Types /\ i \in DOMAIN s[r.type] /\ b \in Nodes(s) /\ Under(b.path, m.path)
  BY <1>0, <1>3, <1>4, <1>6, NextDown
<1>8. j \in DOMAIN s[r.type] /\ c \in Nodes(s) /\ Under(c.path, n.path)
  BY <1>0, <1>3, <1>4, <1>5, <1>6, NextDown
<1>9. b.path = Append(r.path, i) /\ c.path = Append(r.path, j) /\ i # j
      /\ i \in Nat /\ j \in Nat /\ b.home = r.obj /\ c.home = r.obj
  <2>1. b.path = Append(r.path, i) /\ c.path = Append(r.path, j)
        /\ b.home = r.obj /\ c.home = r.obj
    BY DEF Below
  <2>2. i # j
    BY <1>2
  <2> QED
    BY <1>0, <1>7, <1>8, <2>1, <2>2, FieldType
<1>10. ApartIn(s, b, c)
  <2> HIDE DEF i, j
  <2> QED
    BY <1>7, <1>8, <1>9, BelowApart
<1> HIDE DEF b, c
<1>11. b.path[k] = i /\ c.path[k] = j /\ Len(b.path) = k /\ Len(c.path) = k
  <2>1. r.path \in Seq(Nat)
    BY <1>0, Home
  <2> HIDE DEF i, j
  <2> QED
    BY <1>3, <1>4, <1>9, <2>1
<1>12. ~Under(b.path, n.path) /\ ~Under(c.path, m.path)
  <2>1. ~(n.path[k] = i) /\ ~(m.path[k] = j)
    BY <1>2
  <2>2. k \in 1..k
    BY <1>2
  <2> HIDE DEF i, j
  <2> QED
    BY <1>11, <2>1, <2>2 DEF Under
<1>13. /\ b.path \in Seq(Nat) /\ c.path \in Seq(Nat) /\ b.off \in Nat /\ c.off \in Nat
       /\ Span(s, b) \in Nat /\ Span(s, c) \in Nat /\ Span(s, m) \in Nat /\ Span(s, n) \in Nat
  BY <1>0, <1>7, <1>8, Home, SpanType
<1>14. Within(s, b, m)
  <2>1. CASE Under(b.path, m.home)
    BY <1>1, <1>12, <1>13, <2>1, UnderTrans
  <2> QED
    BY <1>7, <2>1, Nested
<1>15. Within(s, c, n)
  <2>1. CASE Under(c.path, n.home)
    BY <1>1, <1>12, <1>13, <2>1, UnderTrans
  <2> QED
    BY <1>8, <2>1, Nested
<1>16. /\ b.off <= m.off /\ m.off + Span(s, m) <= b.off + Span(s, b)
       /\ c.off <= n.off /\ n.off + Span(s, n) <= c.off + Span(s, c)
       /\ b.off + Span(s, b) <= c.off \/ c.off + Span(s, c) <= b.off
  BY <1>10, <1>14, <1>15 DEF Within, ApartIn
<1>17. m.off + Span(s, m) <= n.off \/ n.off + Span(s, n) <= m.off
  <2>0. m.off \in Nat /\ n.off \in Nat
    BY <1>1
  <2>1. CASE b.off + Span(s, b) <= c.off
    <3>1. m.off + Span(s, m) <= n.off
      BY <1>13, <1>16, <2>0, <2>1
    <3> QED
      BY <3>1
  <2>2. CASE c.off + Span(s, c) <= b.off
    <3>1. n.off + Span(s, n) <= m.off
      BY <1>13, <1>16, <2>0, <2>2
    <3> QED
      BY <3>1
  <2> QED
    BY <1>16, <2>1, <2>2
<1> QED
  BY <1>17 DEF ApartIn

IsCell(n) == n.ptr \/ n.type = Scalar

(* A word that holds a pointer or a scalar is the field of one node only.  *)
LEMMA OneCell ==
    ASSUME NEW s \in Shapes, NEW m \in Nodes(s), NEW n \in Nodes(s),
           IsCell(m), IsCell(n), m.home = n.home, m.off = n.off
    PROVE  m = n
<1>0. s \in Declarations /\ m \in NodeSet /\ n \in NodeSet
  BY Laid, NodesAreNodes
<1>1. Span(s, m) = 1 /\ Span(s, n) = 1 /\ m.off \in Nat
  BY <1>0, SpanType, Home DEF IsCell
<1>2. ASSUME NEW a \in Nodes(s), NEW b \in Nodes(s), IsCell(a), a.home = b.home,
             Under(a.path, b.path), a # b
      PROVE  FALSE
  <2>1. a.type \in Types
    BY <1>0, <1>2, NextDown
  <2>2. a.ptr
    BY <1>2, <2>1, TypesAssumption DEF IsCell
  <2>3. Under(a.path, a.home)
    BY <1>2, <2>2, Nested
  <2>4. a # Start
    BY <2>2 DEF Start
  <2>5. Len(a.home) < Len(a.path) /\ Len(a.path) <= Len(a.home)
        /\ a.home \in Seq(Nat) /\ a.path \in Seq(Nat)
    BY <1>0, <2>3, <2>4, Home DEF Under
  <2>6. Len(a.home) \in Nat /\ Len(a.path) \in Nat
    BY <2>5
  <2> QED
    BY <2>5, <2>6
<1>3. ~ApartIn(s, m, n)
  BY <1>1 DEF ApartIn
<1>4. Under(m.path, n.path) \/ Under(n.path, m.path)
  BY <1>3, Apart
<1> QED
  BY <1>2, <1>4

(* The word of a scalar is the value of one node only, and no pointer.     *)
LEMMA OneScalar ==
    ASSUME NEW s \in Shapes, NEW m \in Nodes(s), NEW n \in Nodes(s),
           m.type = Scalar, n.type = Scalar, m.obj = n.obj, m.word = n.word
    PROVE  m = n
<1>0. s \in Declarations
  BY Laid
<1>1. ASSUME NEW a \in Nodes(s), NEW b \in Nodes(s), a.type = Scalar,
             a.ptr, a.obj = b.obj, ~b.ptr
      PROVE  FALSE
  <2>1. a.path = b.home /\ Under(b.home, b.path) /\ b # a
    BY <1>0, <1>1, Home
  <2> QED
    BY <1>0, <1>1, <2>1, NextDown, TypesAssumption
<1>2. CASE m.ptr /\ n.ptr
  BY <1>0, <1>2, Home, NodeUnique
<1>3. CASE ~m.ptr /\ ~n.ptr
  <2>1. m.home = n.home /\ m.off = n.off
    BY <1>0, <1>3, Home
  <2> QED
    BY <2>1, OneCell DEF IsCell
<1>4. m.ptr \in BOOLEAN /\ n.ptr \in BOOLEAN
  BY <1>0, Home
<1> QED
  BY <1>1, <1>2, <1>3, <1>4

LEMMA NoPointerThere ==
    ASSUME NEW s \in Shapes, NEW m \in Nodes(s), NEW n \in Nodes(s),
           m.type = Scalar, n.ptr, m.obj = n.home
    PROVE  m.word # n.off
<1>0. s \in Declarations
  BY Laid
<1>1. CASE m.ptr
  <2>1. m.path = n.home /\ Under(n.home, n.path) /\ n # Start
    BY <1>0, <1>1, Home DEF Start
  <2>2. Len(n.home) < Len(n.path)
    BY <1>0, <2>1, Home
  <2>3. m # n
    <3>1. n.home \in Seq(Nat) /\ Len(n.home) \in Nat
      BY <1>0, Home
    <3> QED
      BY <2>1, <2>2, <3>1
  <2> QED
    BY <1>0, <2>1, <2>3, NextDown, TypesAssumption
<1>2. CASE ~m.ptr
  <2>1. m.home = n.home /\ m.word = m.off
    BY <1>0, <1>2, Home
  <2> QED
    BY <1>2, <2>1, OneCell DEF IsCell
<1>3. m.ptr \in BOOLEAN
  BY <1>0, Home
<1> QED
  BY <1>1, <1>2, <1>3

(* Every field lies in the words of its object.                            *)
LEMMA InRange ==
    ASSUME NEW s \in Shapes, NEW n \in Nodes(s)
    PROVE  \E m \in Nodes(s) : /\ m.path = n.home /\ m.obj = m.path
                               /\ n.off + Span(s, n) <= Size(s, m.type)
<1> DEFINE N == {a \in Nodes(s) :
                   \E m \in Nodes(s) : /\ m.path = a.home /\ m.obj = m.path
                                       /\ a.off + Span(s, a) <= Size(s, m.type)}
<1>0. s \in Declarations
  BY Laid
<1>1. Start \in N
  <2>1. Start \in Nodes(s)
    BY <1>0, NodesClosed DEF Closed
  <2>2. Start.path = Start.home /\ Start.obj = Start.path /\ Start.off = 0
        /\ Span(s, Start) = Size(s, Start.type) /\ Start.type \in Types
    BY TypesAssumption DEF Start, Span
  <2>3. Size(s, Start.type) \in Nat
    BY <2>2, Laid
  <2>4. Start.off + Span(s, Start) <= Size(s, Start.type)
    BY <2>2, <2>3
  <2> QED
    BY <2>1, <2>2, <2>4
<1>2. ASSUME NEW a \in Nodes(s), a \in N, a.type \in Types, NEW i \in DOMAIN s[a.type]
      PROVE  Below(s, a, i) \in N
  <2> DEFINE b == Below(s, a, i)
  <2>1. /\ b \in Nodes(s) /\ b.home = a.obj
        /\ a.word <= b.off /\ b.off + Span(s, b) <= a.word + Size(s, a.type)
    BY <1>2, BelowLaid
  <2> HIDE DEF b
  <2>2. /\ a.obj = (IF a.ptr THEN a.path ELSE a.home)
        /\ a.word = (IF a.ptr THEN 0 ELSE a.off) /\ a.off \in Nat /\ b.off \in Nat
        /\ a.ptr \in BOOLEAN /\ a.word \in Nat
    BY <1>0, <2>1, Home
  <2>3. Span(s, b) \in Nat /\ Span(s, a) \in Nat /\ Size(s, a.type) \in Nat
    BY <1>2, <2>1, SpanType, Laid
  <2>4. \E m \in Nodes(s) : /\ m.path = b.home /\ m.obj = m.path
                            /\ b.off + Span(s, b) <= Size(s, m.type)
    <3>1. CASE a.ptr
      <4>1. a.path = b.home /\ a.obj = a.path /\ b.off + Span(s, b) <= Size(s, a.type)
        BY <2>1, <2>2, <2>3, <3>1
      <4> QED
        BY <4>1
    <3>2. CASE ~a.ptr
      <4>1. PICK m \in Nodes(s) : /\ m.path = a.home /\ m.obj = m.path
                                  /\ a.off + Span(s, a) <= Size(s, m.type)
        BY <1>2
      <4>2. Size(s, m.type) \in Nat
        BY <1>0, Home, Laid
      <4>3. Span(s, a) = Size(s, a.type) /\ a.word = a.off
        BY <2>2, <3>2 DEF Span
      <4>4. b.off + Span(s, b) <= Size(s, m.type)
        BY <2>1, <2>2, <2>3, <4>1, <4>2, <4>3
      <4> QED
        BY <2>1, <2>2, <3>2, <4>1, <4>4
    <3> QED
      BY <2>2, <3>1, <3>2
  <2>5. Below(s, a, i) \in Nodes(s) /\
        \E m \in Nodes(s) : /\ m.path = Below(s, a, i).home /\ m.obj = m.path
                            /\ Below(s, a, i).off + Span(s, Below(s, a, i)) <= Size(s, m.type)
    BY <2>1, <2>4 DEF b
  <2> QED
    BY <2>5
<1>3. Nodes(s) \subseteq N
  <2> HIDE DEF N
  <2> QED
    BY <1>0, <1>1, <1>2, NodeInduction
<1> QED
  BY <1>3

LEMMA ScalarInRange ==
    ASSUME NEW s \in Shapes, NEW n \in Nodes(s), n.type = Scalar
    PROVE  \E m \in Nodes(s) : /\ m.path = n.obj /\ m.obj = m.path
                               /\ n.word \in 0..(Size(s, m.type) - 1)
<1>0. s \in Declarations /\ n.off \in Nat /\ n.ptr \in BOOLEAN
  BY Laid, Home
<1>1. CASE n.ptr
  <2>1. n.path = n.obj /\ n.word = 0
    BY <1>0, <1>1, Home
  <2>2. n.word \in 0..(Size(s, n.type) - 1)
    BY <2>1, Laid
  <2> QED
    BY <2>1, <2>2
<1>2. CASE ~n.ptr
  <2>1. n.obj = n.home /\ n.word = n.off
    BY <1>0, <1>2, Home
  <2>2. PICK m \in Nodes(s) : /\ m.path = n.home /\ m.obj = m.path
                              /\ n.off + Span(s, n) <= Size(s, m.type)
    BY InRange
  <2>3. Span(s, n) = 1 /\ Size(s, m.type) \in Nat
    BY <1>0, Home, SpanType, Laid
  <2>4. n.word \in 0..(Size(s, m.type) - 1)
    BY <1>0, <2>1, <2>2, <2>3
  <2> QED
    BY <2>1, <2>2, <2>4
<1> QED
  BY <1>0, <1>1, <1>2

-----------------------------------------------------------------------------
(* What the flattening puts in the maps describes nodes.                   *)

(* A FieldInfo that is right about the way to a node.                      *)
Describes(fi, n) ==
    /\ fi.index = n.path /\ fi.traversal = n.trav /\ fi.targetType = n.type
    /\ fi.isPtrPath = n.marked /\ (~n.marked => fi.offset = n.word)

(* The call of flattenFields for the value of a node, and an entry of the  *)
(* maps for a node.                                                        *)
IsFrameOf(fr, n) ==
    /\ Describes(fr.parent, n) /\ fr.type = n.type /\ fr.prefix = n.prefix
    /\ fr.parent.path # <<>> => fr.parent.path = n.prefix
IsEntryOf(fi, n) == Describes(fi, n) /\ fi.path = n.prefix

FramesAreNodes ==
    \A k \in DOMAIN stack : \E n \in Nodes(shape) : IsFrameOf(stack[k], n)
EntriesAreNodes ==
    /\ \A c \in DOMAIN names : \E n \in Nodes(shape) : IsEntryOf(names[c], n)
    /\ \A c \in DOMAIN paths : paths[c].path = c

LEMMA ShapeType ==
    ASSUME MapTypeOK
    PROVE  shape \in Declarations
  BY DEF MapTypeOK, Declarations

(* What flattenFields makes of a field describes the node of the field.    *)
LEMMA FieldIsNode ==
    ASSUME MapTypeOK, MoreFields, NEW n \in Nodes(shape), IsFrameOf(Top, n)
    PROVE  LET b == Below(shape, n, Top.i) IN
           /\ b \in Nodes(shape) /\ b.type = Current.type
           /\ Describes(NewField(Current), b) /\ Describes(Named(Current), b)
           /\ NewField(Current).path = <<>>
           /\ Named(Current).path = Top.prefix \o Current.name
           /\ b.prefix = IF Embedded(Current) THEN Top.prefix
                         ELSE Top.prefix \o Current.name
<1> DEFINE b == Below(shape, n, Top.i)
           f == Current
<1>1. n.type = Top.type /\ n.prefix = Top.prefix /\ Describes(Top.parent, n)
  BY DEF IsFrameOf
<1>2. Top \in Frame /\ f \in Field /\ f = shape[n.type][Top.i]
      /\ Top.i \in DOMAIN shape[n.type] /\ n.type \in Types
  BY <1>1, TopType, CurrentType DEF MoreFields, Current, Fields, Frame
<1>3. b \in Nodes(shape)
  BY <1>2, ShapeType, BelowNode
<1>4. /\ b.path = Append(n.path, Top.i) /\ b.type = f.type /\ b.ptr = f.ptr
      /\ b.trav = n.trav \o Way(f)
      /\ b.word = (IF f.ptr THEN 0 ELSE n.word + f.off)
      /\ b.prefix = (IF Embedded(f) THEN n.prefix ELSE n.prefix \o f.name)
      /\ b.marked = (n.marked \/ f.ptr)
  BY <1>2 DEF Below
<1>5. f.ptr \in BOOLEAN /\ n.marked \in BOOLEAN
  BY <1>2, ShapeType, Home, NodesAreNodes DEF Field, NodeSet
<1> HIDE DEF b, f
<1>6. BehindPointer(f) = b.marked
  BY <1>1, <1>4 DEF BehindPointer, Describes
<1>7. /\ NewField(f).index = b.path /\ NewField(f).traversal = b.trav
      /\ NewField(f).targetType = b.type /\ NewField(f).isPtrPath = b.marked
      /\ NewField(f).offset = (IF b.marked THEN 0 ELSE Top.parent.offset + f.off)
      /\ NewField(f).path = <<>>
  BY <1>1, <1>4, <1>6 DEF NewField, Describes
<1>8. ~b.marked => NewField(f).offset = b.word
  BY <1>1, <1>4, <1>5, <1>7 DEF Describes
<1>9. Describes(NewField(f), b)
  BY <1>7, <1>8 DEF Describes
<1>10. /\ Named(f).index = NewField(f).index /\ Named(f).traversal = NewField(f).traversal
       /\ Named(f).targetType = NewField(f).targetType
       /\ Named(f).isPtrPath = NewField(f).isPtrPath
       /\ Named(f).offset = NewField(f).offset
       /\ Named(f).path = Top.prefix \o f.name
  BY DEF Named, NewField
<1>11. Describes(Named(f), b)
  BY <1>9, <1>10 DEF Describes
<1> QED
  BY <1>1, <1>3, <1>4, <1>7, <1>9, <1>10, <1>11 DEF b, f

LEMMA RegisterNode ==
    ASSUME MapsInv, EntriesAreNodes, NEW fi, Register(fi),
           \E n \in Nodes(shape) : IsEntryOf(fi, n), UNCHANGED shape
    PROVE  EntriesAreNodes'
<1>1. \A c \in DOMAIN names' : names'[c] = fi \/ (c \in DOMAIN names /\ names'[c] = names[c])
  BY DEF Register, Put
<1>2. \A c \in DOMAIN paths' :
        \/ c = fi.path /\ paths'[c] = fi
        \/ c \in DOMAIN paths /\ paths'[c] = paths[c]
  BY DEF Register, Put
<1>3. ASSUME NEW c \in DOMAIN names'
      PROVE  \E n \in Nodes(shape) : IsEntryOf(names'[c], n)
  BY <1>1 DEF EntriesAreNodes
<1>4. \A c \in DOMAIN paths' : paths'[c].path = c
  BY <1>2 DEF EntriesAreNodes
<1>5. \A c \in DOMAIN names' : \E n \in Nodes(shape') : IsEntryOf(names'[c], n)
  BY <1>3
<1> QED
  BY <1>4, <1>5 DEF EntriesAreNodes, IsEntryOf, Describes

LEMMA EntriesSame ==
    ASSUME EntriesAreNodes, UNCHANGED <<shape, names, paths>>
    PROVE  EntriesAreNodes'
<1>1. shape' = shape /\ names' = names /\ paths' = paths
  OBVIOUS
<1>2. /\ \A c \in DOMAIN names' : \E n \in Nodes(shape') : IsEntryOf(names'[c], n)
      /\ \A c \in DOMAIN paths' : paths'[c].path = c
  BY <1>1 DEF EntriesAreNodes
<1> QED
  BY <1>2 DEF EntriesAreNodes, IsEntryOf, Describes

LEMMA SameFrameNode ==
    ASSUME NEW a, NEW b, SameFrame(a, b), NEW n, IsFrameOf(b, n)
    PROVE  IsFrameOf(a, n)
  BY DEF SameFrame, IsFrameOf

(* Every frame stays a node's when the frames left are the ones before.    *)
LEMMA FramesKept ==
    ASSUME FramesAreNodes, DOMAIN stack' \subseteq DOMAIN stack, UNCHANGED shape,
           \A k \in DOMAIN stack' : SameFrame(stack'[k], stack[k])
    PROVE  FramesAreNodes'
<1>1. ASSUME NEW k \in DOMAIN stack'
      PROVE  \E n \in Nodes(shape) : IsFrameOf(stack'[k], n)
  <2>1. PICK n \in Nodes(shape) : IsFrameOf(stack[k], n)
    BY DEF FramesAreNodes
  <2> QED
    BY <2>1, SameFrameNode
<1>2. \A k \in DOMAIN stack' : \E n \in Nodes(shape') : IsFrameOf(stack'[k], n)
  BY <1>1
<1> QED
  BY <1>2 DEF FramesAreNodes, IsFrameOf, Describes

LEMMA InitNodes == MapInit => FramesAreNodes /\ EntriesAreNodes
<1> SUFFICES ASSUME MapInit PROVE FramesAreNodes /\ EntriesAreNodes
  OBVIOUS
<1>1. shape \in Declarations
  BY ShapesAssumption DEF MapInit, Declarations
<1>2. Start \in Nodes(shape)
  BY <1>1, NodesClosed DEF Closed
<1>3. ASSUME NEW k \in DOMAIN stack
      PROVE  IsFrameOf(stack[k], Start)
  <2>1. k = 1 /\ stack[1] = [type |-> Root, parent |-> Tree, prefix |-> <<>>, i |-> 1]
    BY DEF MapInit
  <2>2. stack[k].type = Root /\ stack[k].parent = Tree /\ stack[k].prefix = <<>>
    BY <2>1
  <2>3. Describes(Tree, Start) /\ Tree.path = <<>> /\ Start.type = Root /\ Start.prefix = <<>>
    BY DEF Describes, Start, Tree
  <2> QED
    BY <2>2, <2>3 DEF IsFrameOf
<1>4. DOMAIN names = {} /\ DOMAIN paths = {}
  BY DEF MapInit
<1> QED
  BY <1>2, <1>3, <1>4 DEF FramesAreNodes, EntriesAreNodes

LEMMA NextNodes ==
    ASSUME Inv, FramesAreNodes, EntriesAreNodes, [MapNext]_mapVars
    PROVE  FramesAreNodes' /\ EntriesAreNodes'
<1>0. MapTypeOK /\ MapsInv
  BY DEF Inv, MapsInv, MapTypeOK, PointersAreMarked
<1>t. ASSUME MoreFields
      PROVE  \E n \in Nodes(shape) : IsFrameOf(Top, n)
  BY <1>0, <1>t, TopType DEF MoreFields, FramesAreNodes, Top
<1>1. CASE SkipField
  <2>1. /\ stack' \in Seq(Frame) /\ DOMAIN stack' = DOMAIN stack
        /\ \A k \in DOMAIN stack : SameFrame(stack'[k], stack[k])
    BY <1>0, <1>1, NextFieldKeeps DEF SkipField
  <2>2. UNCHANGED <<shape, names, paths>>
    BY <1>1 DEF SkipField
  <2> QED
    BY <2>1, <2>2, FramesKept, EntriesSame
<1>2. CASE MapLeaf
  <2>1. /\ stack' \in Seq(Frame) /\ DOMAIN stack' = DOMAIN stack
        /\ \A k \in DOMAIN stack : SameFrame(stack'[k], stack[k])
    BY <1>0, <1>2, NextFieldKeeps DEF MapLeaf
  <2>2. UNCHANGED shape /\ MoreFields
    BY <1>2 DEF MapLeaf
  <2>3. FramesAreNodes'
    BY <2>1, <2>2, FramesKept
  <2>4. CASE Embedded(Current)
    <3>1. UNCHANGED <<names, paths>>
      BY <1>2, <2>4 DEF MapLeaf
    <3> QED
      BY <2>2, <2>3, <3>1, EntriesSame
  <2>5. CASE ~Embedded(Current)
    <3>1. PICK n \in Nodes(shape) : IsFrameOf(Top, n)
      BY <1>t, <2>2
    <3>2. \E b \in Nodes(shape) : IsEntryOf(Named(Current), b)
      BY <1>0, <2>2, <2>5, <3>1, FieldIsNode DEF IsEntryOf
    <3>3. Register(Named(Current))
      BY <1>2, <2>5 DEF MapLeaf
    <3> QED
      BY <1>0, <2>2, <2>3, <3>2, <3>3, RegisterNode
  <2> QED
    BY <2>4, <2>5
<1>3. CASE Descend
  <2> DEFINE fi == IF Embedded(Current) THEN NewField(Current) ELSE Named(Current)
             prefix == IF Embedded(Current) THEN Top.prefix ELSE fi.path
             frame == [type |-> Current.type, parent |-> fi, prefix |-> prefix, i |-> 1]
  <2>1. MoreFields /\ UNCHANGED <<shape, names, paths>> /\ stack' = Append(stack, frame)
    BY <1>3 DEF Descend, DescendIf
  <2>2. PICK n \in Nodes(shape) : IsFrameOf(Top, n)
    BY <1>t, <2>1
  <2> DEFINE b == Below(shape, n, Top.i)
  <2>3. /\ b \in Nodes(shape) /\ b.type = Current.type
        /\ Describes(NewField(Current), b) /\ Describes(Named(Current), b)
        /\ NewField(Current).path = <<>>
        /\ Named(Current).path = Top.prefix \o Current.name
        /\ b.prefix = IF Embedded(Current) THEN Top.prefix
                      ELSE Top.prefix \o Current.name
    BY <1>0, <2>1, <2>2, FieldIsNode
  <2> HIDE DEF b
  <2>4. frame.type = Current.type /\ frame.parent = fi /\ frame.prefix = prefix
    OBVIOUS
  <2>5. IsFrameOf(frame, b)
    <3>1. CASE Embedded(Current)
      <4>1. fi = NewField(Current) /\ prefix = Top.prefix
        BY <3>1
      <4> HIDE DEF frame, fi, prefix
      <4> QED
        BY <2>3, <2>4, <3>1, <4>1 DEF IsFrameOf
    <3>2. CASE ~Embedded(Current)
      <4>1. fi = Named(Current) /\ prefix = fi.path
        BY <3>2
      <4> HIDE DEF frame, fi, prefix
      <4> QED
        BY <2>3, <2>4, <3>2, <4>1 DEF IsFrameOf
    <3> QED
      BY <3>1, <3>2
  <2> HIDE DEF frame
  <2>6. stack \in Seq(Frame)
    BY <1>0 DEF MapTypeOK
  <2>7. ASSUME NEW k \in DOMAIN stack'
        PROVE  (k \in DOMAIN stack /\ stack'[k] = stack[k]) \/ stack'[k] = frame
    BY <2>1, <2>6
  <2>8. ASSUME NEW k \in DOMAIN stack'
        PROVE  \E a \in Nodes(shape) : IsFrameOf(stack'[k], a)
    BY <2>3, <2>5, <2>7 DEF FramesAreNodes
  <2>9. \A k \in DOMAIN stack' : \E a \in Nodes(shape') : IsFrameOf(stack'[k], a)
    BY <2>1, <2>8
  <2>10. FramesAreNodes'
    BY <2>9 DEF FramesAreNodes, IsFrameOf, Describes
  <2> QED
    BY <2>1, <2>10, EntriesSame
<1>4. CASE Return
  <2>1. /\ stack' \in Seq(Frame) /\ DOMAIN stack' = 1..(Len(stack) - 1)
        /\ \A k \in 1..(Len(stack) - 1) : SameFrame(stack'[k], stack[k])
    BY <1>0, <1>4, ReturnKeeps
  <2>2. stack # <<>> /\ UNCHANGED shape
    BY <1>4 DEF Return, Leave
  <2>3. Len(stack) \in Nat \ {0} /\ Len(stack) \in DOMAIN stack /\ DOMAIN stack = 1..Len(stack)
    BY <1>0, <2>2, TopType, LenProperties DEF MapTypeOK
  <2>4. DOMAIN stack' \subseteq DOMAIN stack
    BY <2>1, <2>3
  <2>5. FramesAreNodes'
    BY <2>1, <2>2, <2>4, FramesKept
  <2>6. CASE Top.parent.path = <<>>
    <3>1. UNCHANGED <<names, paths>>
      BY <1>4, <2>6 DEF Return, Leave
    <3> QED
      BY <2>2, <2>5, <3>1, EntriesSame
  <2>7. CASE Top.parent.path # <<>>
    <3>1. Register(Top.parent)
      BY <1>4, <2>7 DEF Return, Leave
    <3>2. PICK n \in Nodes(shape) : IsFrameOf(Top, n)
      BY <2>3 DEF FramesAreNodes, Top
    <3>3. IsEntryOf(Top.parent, n)
      BY <2>7, <3>2 DEF IsFrameOf, IsEntryOf
    <3> QED
      BY <1>0, <2>2, <2>5, <3>1, <3>3, RegisterNode
  <2> QED
    BY <2>6, <2>7
<1>5. CASE UNCHANGED mapVars
  <2>1. UNCHANGED <<shape, names, paths>> /\ stack' = stack
    BY <1>5 DEF mapVars
  <2>2. \A k \in DOMAIN stack' : SameFrame(stack'[k], stack[k])
    BY <2>1 DEF SameFrame
  <2> QED
    BY <2>1, <2>2, EntriesSame, FramesKept
<1> QED
  BY <1>1, <1>2, <1>3, <1>4, <1>5 DEF MapNext

-----------------------------------------------------------------------------
(* Memory: what objects hold, and which objects a struct is made of.       *)

(* What words hold: nil, a pointer, or the value of a row and a column.    *)
Contents == {Nil} \cup Nat \cup (Nat \X Seq(Words))
ObjectsOf(s, t) == [type : {t}, words : [0..(Size(s, t) - 1) -> Contents]]
Objects(s) == UNION {ObjectsOf(s, t) : t \in Types \cup {Scalar}}

LEMMA ObjectType ==
    ASSUME NEW s, NEW o \in Objects(s)
    PROVE  /\ o.type \in Types \cup {Scalar}
           /\ o.words \in [0..(Size(s, o.type) - 1) -> Contents]
           /\ o = [type |-> o.type, words |-> o.words]
<1>1. PICK t \in Types \cup {Scalar} : o \in ObjectsOf(s, t)
  BY DEF Objects
<1> QED
  BY <1>1 DEF ObjectsOf

LEMMA ObjectMade ==
    ASSUME NEW s, NEW t \in Types \cup {Scalar},
           NEW ws \in [0..(Size(s, t) - 1) -> Contents]
    PROVE  [type |-> t, words |-> ws] \in Objects(s)
<1>1. [type |-> t, words |-> ws] \in ObjectsOf(s, t)
  BY DEF ObjectsOf
<1> QED
  BY <1>1 DEF Objects

LEMMA NewType ==
    ASSUME NEW h \in Seq(Objects(shape)), NEW t \in Types \cup {Scalar}
    PROVE  /\ New(h, t) \in Seq(Objects(shape)) /\ Len(New(h, t)) = Len(h) + 1
           /\ \A p \in 1..Len(h) : New(h, t)[p] = h[p]
           /\ New(h, t)[Len(h) + 1].type = t
           /\ \A w \in 0..(Size(shape, t) - 1) : New(h, t)[Len(h) + 1].words[w] = Nil
<1> DEFINE o == [type |-> t, words |-> Words0(t)]
<1>1. Words0(t) \in [0..(Size(shape, t) - 1) -> Contents]
  BY DEF Words0, Contents
<1>2. o \in Objects(shape) /\ o.type = t /\ o.words = Words0(t)
  BY <1>1, ObjectMade
<1>3. \A w \in 0..(Size(shape, t) - 1) : Words0(t)[w] = Nil
  BY DEF Words0
<1>4. New(h, t) = Append(h, o)
  BY DEF New
<1> HIDE DEF o
<1> DEFINE g == Append(h, o)
<1>5. /\ g \in Seq(Objects(shape)) /\ Len(g) = Len(h) + 1
      /\ \A p \in 1..Len(h) : g[p] = h[p]
      /\ g[Len(h) + 1] = o
  BY <1>2
<1> HIDE DEF g
<1>6. New(h, t) = g
  BY <1>4 DEF g
<1> QED
  BY <1>2, <1>3, <1>5, <1>6

(* One word of one object is written. *)
Write(h, o, w, v) == [h EXCEPT ![o].words[w] = v]
Written(h, g, o, w, v) ==
    /\ g[o].type = h[o].type
    /\ \A x \in DOMAIN h[o].words : g[o].words[x] = IF x = w THEN v ELSE h[o].words[x]

LEMMA WriteType ==
    ASSUME NEW s, NEW h \in Seq(Objects(s)), NEW o \in DOMAIN h, NEW v \in Contents,
           NEW w \in DOMAIN h[o].words, NEW g, g = Write(h, o, w, v)
    PROVE  /\ g \in Seq(Objects(s)) /\ Len(g) = Len(h)
           /\ \A p \in 1..Len(h) : p # o => g[p] = h[p]
           /\ Written(h, g, o, w, v)
<1>1. /\ h[o] \in Objects(s) /\ Len(h) \in Nat /\ DOMAIN h = 1..Len(h)
  BY LenProperties, ElementOfSeq
<1> DEFINE ws == [h[o].words EXCEPT ![w] = v]
           t == h[o].type
           b == [type |-> t, words |-> ws]
<1>2. /\ t \in Types \cup {Scalar} /\ h[o].words \in [0..(Size(s, t) - 1) -> Contents]
      /\ h[o] = [type |-> t, words |-> h[o].words]
  BY <1>1, ObjectType
<1>3. ws \in [0..(Size(s, t) - 1) -> Contents]
      /\ \A x \in DOMAIN h[o].words : ws[x] = IF x = w THEN v ELSE h[o].words[x]
  <2> HIDE DEF t
  <2> QED
    BY <1>2
<1>4. b \in Objects(s)
  <2> HIDE DEF ws, t
  <2> QED
    BY <1>2, <1>3, ObjectMade
<1>5. [h[o] EXCEPT !.words = ws] = b
  <2> DEFINE us == h[o].words
  <2>1. h[o] = [type |-> t, words |-> us]
    BY <1>2
  <2> HIDE DEF t, ws, us
  <2> QED
    BY <2>1
<1>6. g = [h EXCEPT ![o] = b]
  <2>1. g = [h EXCEPT ![o] = [h[o] EXCEPT !.words = ws]]
    BY DEF Write
  <2> HIDE DEF b, ws, t
  <2> QED
    BY <1>5, <2>1
<1>7. b.type = t /\ b.words = ws
  OBVIOUS
<1> HIDE DEF b
<1>8. /\ g \in Seq(Objects(s)) /\ Len(g) = Len(h)
      /\ \A p \in 1..Len(h) : g[p] = IF p = o THEN b ELSE h[p]
  BY <1>1, <1>4, <1>6, ExceptSeq
<1>9. g[o] = b
  BY <1>1, <1>8
<1>10. Written(h, g, o, w, v)
  <2> HIDE DEF ws
  <2> QED
    BY <1>3, <1>7, <1>9 DEF Written
<1> QED
  BY <1>8, <1>10

(* A pointer of h is filled in: it points to a new object, of type t.      *)
Filled(s, h, g, o, w, t) ==
    /\ g \in Seq(Objects(s)) /\ Len(g) = Len(h) + 1
    /\ \A p \in 1..Len(h) : p # o => g[p] = h[p]
    /\ Written(h, g, o, w, Len(h) + 1)
    /\ g[Len(h) + 1].type = t
    /\ \A x \in 0..(Size(s, t) - 1) : g[Len(h) + 1].words[x] = Nil

LEMMA FillStep ==
    ASSUME NEW h \in Seq(Objects(shape)), NEW o \in DOMAIN h, NEW w \in DOMAIN h[o].words,
           NEW t \in Types \cup {Scalar}, h[o].words[w] = Nil
    PROVE  Filled(shape, h, Fill(h, o, w, t), o, w, t)
<1> DEFINE e == New(h, t)
           k == Len(h) + 1
           g == [e EXCEPT ![o].words[w] = k]
<1>1. Fill(h, o, w, t) = g
  BY DEF Fill
<1>2. Len(h) \in Nat /\ k \in Nat /\ DOMAIN h = 1..Len(h) /\ k \notin 1..Len(h) /\ o # k
  OBVIOUS
<1>3. /\ e \in Seq(Objects(shape)) /\ Len(e) = k
      /\ \A p \in 1..Len(h) : e[p] = h[p]
      /\ e[k].type = t
      /\ \A x \in 0..(Size(shape, t) - 1) : e[k].words[x] = Nil
  BY NewType
<1> HIDE DEF e
<1>4. DOMAIN e = 1..k /\ o \in DOMAIN e /\ k \in DOMAIN e /\ e[o] = h[o]
  BY <1>2, <1>3 DEF k
<1>5. k \in Contents
  BY <1>2 DEF Contents
<1> HIDE DEF k
<1>6. /\ g \in Seq(Objects(shape)) /\ Len(g) = Len(e)
      /\ \A p \in 1..Len(e) : p # o => g[p] = e[p]
      /\ Written(e, g, o, w, k)
  <2>1. w \in DOMAIN e[o].words
    BY <1>4
  <2>2. g = Write(e, o, w, k)
    BY DEF Write
  <2> HIDE DEF g
  <2> QED
    BY <1>3, <1>4, <1>5, <2>1, <2>2, WriteType
<1> HIDE DEF g
<1>7. Written(h, g, o, w, k)
  BY <1>4, <1>6 DEF Written
<1>8. \A p \in 1..Len(h) : p # o => g[p] = h[p]
  BY <1>2, <1>3, <1>4, <1>6 DEF k
<1>9. g[k] = e[k]
  BY <1>2, <1>3, <1>4, <1>6
<1>10. Filled(shape, h, g, o, w, t)
  BY <1>3, <1>6, <1>7, <1>8, <1>9 DEF Filled, k
<1> QED
  BY <1>1, <1>10

(***************************************************************************)
(* What memory looks like: for every struct b made for the caller, L[b]    *)
(* says which objects hold the values behind its pointers, by the node of  *)
(* the pointer (and the struct itself, by the path <<>>).  All of them     *)
(* differ; a pointer of theirs leads to the object of its node, or is nil  *)
(* if there is none.                                                       *)
(***************************************************************************)
Good(s, h, L) ==
    /\ h \in Seq(Objects(s))
    /\ \A b \in DOMAIN L : <<>> \in DOMAIN L[b] /\ L[b][<<>>] = b
    /\ \A b \in DOMAIN L : \A q \in DOMAIN L[b] :
          /\ L[b][q] \in DOMAIN h
          /\ \E n \in Nodes(s) : /\ n.path = q /\ n.obj = q /\ n.home \in DOMAIN L[b]
                                 /\ h[L[b][q]].type = n.type
    /\ \A b \in DOMAIN L : \A n \in Nodes(s) : n.ptr /\ n.home \in DOMAIN L[b] =>
          h[L[b][n.home]].words[n.off] = IF n.path \in DOMAIN L[b] THEN L[b][n.path] ELSE Nil
    /\ \A b, c \in DOMAIN L : \A p \in DOMAIN L[b] : \A q \in DOMAIN L[c] :
          L[b][p] = L[c][q] => b = c /\ p = q
Owns(L, o) == \E b \in DOMAIN L : \E q \in DOMAIN L[b] : L[b][q] = o

(* From h to g pointers are filled in and structs made, no more.           *)
Grown(s, h, L, g, M) ==
    /\ DOMAIN L \subseteq DOMAIN M /\ Len(h) <= Len(g)
    /\ \A b \in DOMAIN L : /\ DOMAIN L[b] \subseteq DOMAIN M[b]
                           /\ \A q \in DOMAIN L[b] : M[b][q] = L[b][q]
    /\ \A o \in DOMAIN h : ~Owns(L, o) => ~Owns(M, o) /\ g[o] = h[o]
    /\ \A b \in DOMAIN L : \A m \in Nodes(s) : m.type = Scalar /\ m.obj \in DOMAIN L[b] =>
          g[L[b][m.obj]].words[m.word] = h[L[b][m.obj]].words[m.word]

LEMMA GoodObject ==
    ASSUME NEW s \in Shapes, NEW h, NEW L, Good(s, h, L), NEW b \in DOMAIN L,
           NEW q \in DOMAIN L[b]
    PROVE  /\ L[b][q] \in DOMAIN h /\ L[b][q] \in Nat /\ L[b][q] <= Len(h)
           /\ \E n \in Nodes(s) : /\ n.path = q /\ n.obj = q /\ n.home \in DOMAIN L[b]
                 /\ h[L[b][q]].type = n.type
                 /\ h[L[b][q]].words \in [0..(Size(s, n.type) - 1) -> Contents]
<1> DEFINE o == L[b][q]
<1>1. /\ h \in Seq(Objects(s)) /\ o \in DOMAIN h
      /\ \E n \in Nodes(s) : n.path = q /\ n.obj = q /\ n.home \in DOMAIN L[b] /\ h[o].type = n.type
  BY DEF Good
<1> HIDE DEF o
<1>2. h[o] \in Objects(s) /\ o \in Nat /\ o <= Len(h)
  BY <1>1
<1>3. h[o].words \in [0..(Size(s, h[o].type) - 1) -> Contents]
  BY <1>2, ObjectType
<1>4. \E n \in Nodes(s) : /\ n.path = q /\ n.obj = q /\ n.home \in DOMAIN L[b]
         /\ h[o].type = n.type /\ h[o].words \in [0..(Size(s, n.type) - 1) -> Contents]
  BY <1>1, <1>3
<1> QED
  BY <1>1, <1>2, <1>4 DEF o

(* A field whose object is there has its words there.                      *)
LEMMA WordThere ==
    ASSUME NEW s \in Shapes, NEW h, NEW L, Good(s, h, L), NEW b \in DOMAIN L,
           NEW n \in Nodes(s)
    PROVE  /\ n.ptr /\ n.home \in DOMAIN L[b] => n.off \in DOMAIN h[L[b][n.home]].words
           /\ n.type = Scalar /\ n.obj \in DOMAIN L[b] =>
                 n.word \in DOMAIN h[L[b][n.obj]].words
<1>0. s \in Declarations
  BY Laid
<1>1. ASSUME n.ptr, n.home \in DOMAIN L[b]
      PROVE  n.off \in DOMAIN h[L[b][n.home]].words
  <2>1. PICK m \in Nodes(s) : m.path = n.home /\ n.off + Span(s, n) <= Size(s, m.type)
    BY InRange
  <2> DEFINE q == n.home
  <2>2. PICK k \in Nodes(s) : /\ k.path = q
                 /\ h[L[b][q]].words \in [0..(Size(s, k.type) - 1) -> Contents]
    <3> HIDE DEF q
    <3> QED
      BY <1>1, GoodObject DEF q
  <2>3. m = k
    BY <1>0, <2>1, <2>2, NodeUnique
  <2>4. Span(s, n) = 1 /\ n.off \in Nat /\ m.type \in Types \cup {Scalar}
    BY <1>0, <1>1, SpanType, Home
  <2>5. Size(s, m.type) \in Nat
    BY <2>4, Laid
  <2>6. n.off \in 0..(Size(s, m.type) - 1)
    BY <2>1, <2>4, <2>5
  <2> QED
    BY <2>2, <2>3, <2>6
<1>2. ASSUME n.type = Scalar, n.obj \in DOMAIN L[b]
      PROVE  n.word \in DOMAIN h[L[b][n.obj]].words
  <2>1. PICK m \in Nodes(s) : m.path = n.obj /\ n.word \in 0..(Size(s, m.type) - 1)
    BY <1>2, ScalarInRange
  <2> DEFINE q == n.obj
  <2>2. PICK k \in Nodes(s) : /\ k.path = q
                 /\ h[L[b][q]].words \in [0..(Size(s, k.type) - 1) -> Contents]
    <3> HIDE DEF q
    <3> QED
      BY <1>2, GoodObject DEF q
  <2>3. m = k
    BY <1>0, <2>1, <2>2, NodeUnique
  <2> QED
    BY <2>1, <2>2, <2>3
<1> QED
  BY <1>1, <1>2

LEMMA GrownSame ==
    ASSUME NEW s, NEW h, NEW L, Len(h) \in Nat
    PROVE  Grown(s, h, L, h, L)
  BY DEF Grown

LEMMA GrownTrans ==
    ASSUME NEW s, NEW h \in Seq(Objects(s)), NEW L, NEW g \in Seq(Objects(s)), NEW M,
           NEW f \in Seq(Objects(s)), NEW K, Grown(s, h, L, g, M), Grown(s, g, M, f, K)
    PROVE  Grown(s, h, L, f, K)
<1>1. DOMAIN h \subseteq DOMAIN g /\ Len(h) <= Len(f)
  BY DEF Grown
<1>2. DOMAIN L \subseteq DOMAIN M /\ DOMAIN L \subseteq DOMAIN K /\ DOMAIN M \subseteq DOMAIN K
  BY DEF Grown
<1>3. \A b \in DOMAIN L : /\ DOMAIN L[b] \subseteq DOMAIN K[b]
                          /\ \A q \in DOMAIN L[b] : K[b][q] = L[b][q] /\ M[b][q] = L[b][q]
                          /\ DOMAIN L[b] \subseteq DOMAIN M[b]
  <2>1. /\ \A b \in DOMAIN L : /\ DOMAIN L[b] \subseteq DOMAIN M[b]
                               /\ \A q \in DOMAIN L[b] : M[b][q] = L[b][q]
        /\ \A b \in DOMAIN M : /\ DOMAIN M[b] \subseteq DOMAIN K[b]
                               /\ \A q \in DOMAIN M[b] : K[b][q] = M[b][q]
    BY <1>2 DEF Grown
  <2> QED
    BY <1>2, <2>1
<1>4. \A o \in DOMAIN h : ~Owns(L, o) => ~Owns(K, o) /\ f[o] = h[o]
  <2>1. /\ \A o \in DOMAIN h : ~Owns(L, o) => ~Owns(M, o) /\ g[o] = h[o]
        /\ \A o \in DOMAIN g : ~Owns(M, o) => ~Owns(K, o) /\ f[o] = g[o]
    BY DEF Grown
  <2> QED
    BY <1>1, <2>1
<1>5. \A b \in DOMAIN L : \A m \in Nodes(s) : m.type = Scalar /\ m.obj \in DOMAIN L[b] =>
         f[L[b][m.obj]].words[m.word] = h[L[b][m.obj]].words[m.word]
  <2> SUFFICES ASSUME NEW b \in DOMAIN L, NEW m \in Nodes(s), m.type = Scalar, m.obj \in DOMAIN L[b]
               PROVE  f[L[b][m.obj]].words[m.word] = h[L[b][m.obj]].words[m.word]
    OBVIOUS
  <2>1. g[L[b][m.obj]].words[m.word] = h[L[b][m.obj]].words[m.word]
    BY DEF Grown
  <2>2. f[M[b][m.obj]].words[m.word] = g[M[b][m.obj]].words[m.word]
    BY <1>2, <1>3 DEF Grown
  <2> QED
    BY <1>3, <2>1, <2>2
<1> QED
  BY <1>1, <1>2, <1>3, <1>4, <1>5 DEF Grown

(* L with the object k for the value behind the pointer q of b. *)
Extended(L, M, b, q, k) ==
    /\ DOMAIN M = DOMAIN L
    /\ \A c \in DOMAIN L : c # b => M[c] = L[c]
    /\ DOMAIN M[b] = DOMAIN L[b] \cup {q} /\ M[b][q] = k
    /\ \A p \in DOMAIN L[b] : p # q => M[b][p] = L[b][p]

LEMMA ExtendedExists ==
    ASSUME NEW L, NEW b \in DOMAIN L, NEW q, NEW k
    PROVE  \E M : Extended(L, M, b, q, k)
<1> DEFINE v == [p \in DOMAIN L[b] \cup {q} |-> IF p = q THEN k ELSE L[b][p]]
           M == [c \in DOMAIN L |-> IF c = b THEN v ELSE L[c]]
<1>1. DOMAIN v = DOMAIN L[b] \cup {q} /\ v[q] = k /\ \A p \in DOMAIN L[b] : p # q => v[p] = L[b][p]
  OBVIOUS
<1> HIDE DEF v
<1>2. DOMAIN M = DOMAIN L /\ M[b] = v /\ \A c \in DOMAIN L : c # b => M[c] = L[c]
  OBVIOUS
<1> HIDE DEF M
<1>3. Extended(L, M, b, q, k)
  BY <1>1, <1>2 DEF Extended
<1> QED
  BY <1>3

(* What L says stays true when a pointer that it knows to be nil is filled *)
(* in: the new object is nobody else's, its pointers are nil, and the word *)
(* that was written is the word of that pointer only.                      *)
LEMMA FilledGood ==
    ASSUME NEW s \in Shapes, NEW h, NEW L, Good(s, h, L), NEW b \in DOMAIN L,
           NEW n \in Nodes(s), n.ptr, n.home \in DOMAIN L[b], n.path \notin DOMAIN L[b],
           NEW g, Filled(s, h, g, L[b][n.home], n.off, n.type),
           NEW M, Extended(L, M, b, n.path, Len(h) + 1)
    PROVE  Good(s, g, M) /\ Grown(s, h, L, g, M)
<1> DEFINE k == Len(h) + 1
           o == L[b][n.home]
           w == n.off
           q == n.path
           t == n.type
<1>0. s \in Declarations /\ h \in Seq(Objects(s))
  BY Laid DEF Good
<1>1. /\ q \in Seq(Nat) /\ n.home \in Seq(Nat) /\ q # n.home /\ n.obj = q
      /\ w \in Nat /\ t \in Types \cup {Scalar} /\ n # Start
  <2>1. n # Start
    BY DEF Start
  <2>2. n.path \in Seq(Nat) /\ n.home \in Seq(Nat) /\ Len(n.home) < Len(n.path)
    BY <1>0, <2>1, Home
  <2>3. Len(n.home) # Len(n.path)
    BY <2>2
  <2>4. n.obj = n.path /\ n.off \in Nat /\ n.type \in Types \cup {Scalar}
    BY <1>0, Home
  <2> QED
    BY <2>1, <2>2, <2>3, <2>4
<1>2. Len(h) \in Nat /\ DOMAIN h = 1..Len(h) /\ k \notin DOMAIN h /\ k \in Nat
  BY <1>0
<1>3. /\ g \in Seq(Objects(s)) /\ Len(g) = k /\ \A p \in DOMAIN h : p # o => g[p] = h[p]
      /\ Written(h, g, o, w, k) /\ g[k].type = t
      /\ \A x \in 0..(Size(s, t) - 1) : g[k].words[x] = Nil
  <2> HIDE DEF o
  <2> QED
    BY <1>2 DEF Filled, o
<1>4. DOMAIN g = 1..k /\ DOMAIN h \subseteq DOMAIN g /\ k \in DOMAIN g /\ Len(h) <= Len(g)
  BY <1>2, <1>3
<1>5. o \in DOMAIN h
  BY GoodObject
<1>6. /\ DOMAIN M = DOMAIN L
      /\ \A c \in DOMAIN L : c # b => M[c] = L[c]
      /\ DOMAIN M[b] = DOMAIN L[b] \cup {q} /\ M[b][q] = k
      /\ \A p \in DOMAIN L[b] : M[b][p] = L[b][p]
  BY DEF Extended
<1>7. \A c \in DOMAIN L : /\ DOMAIN L[c] \subseteq DOMAIN M[c]
                          /\ \A p \in DOMAIN L[c] : M[c][p] = L[c][p]
                          /\ \A p \in DOMAIN M[c] : p \notin DOMAIN L[c] => c = b /\ p = q
  BY <1>6
<1>8. \A c \in DOMAIN L : \A p \in DOMAIN L[c] : L[c][p] = o => c = b /\ p = n.home
  <2> SUFFICES ASSUME NEW c \in DOMAIN L, NEW p \in DOMAIN L[c], L[c][p] = L[b][n.home]
               PROVE  c = b /\ p = n.home
    OBVIOUS
  <2> DEFINE r == n.home
  <2>1. r \in DOMAIN L[b] /\ L[c][p] = L[b][r]
    OBVIOUS
  <2> HIDE DEF r
  <2>2. c = b /\ p = r
    BY <2>1 DEF Good
  <2> QED
    BY <2>2 DEF r
<1>9. \A p \in DOMAIN h : g[p].type = h[p].type
  BY <1>3 DEF Written
<1> HIDE DEF k, o, w, t
<1>10. ASSUME NEW c \in DOMAIN L, NEW m \in Nodes(s), m.path \in DOMAIN L[c]
       PROVE  m.obj = m.path /\ m.home \in DOMAIN L[c]
  <2> DEFINE p == m.path
  <2>1. \E l \in Nodes(s) : l.path = p /\ l.obj = p /\ l.home \in DOMAIN L[c]
    <3>1. p \in DOMAIN L[c]
      BY <1>10
    <3> HIDE DEF p
    <3> QED
      BY <3>1, GoodObject
  <2> QED
    BY <1>0, <2>1, NodeUnique
<1>11. g \in Seq(Objects(s))
  BY <1>3
<1>12. \A c \in DOMAIN M : <<>> \in DOMAIN M[c] /\ M[c][<<>>] = c
  <2>1. \A c \in DOMAIN L : <<>> \in DOMAIN L[c] /\ L[c][<<>>] = c
    BY DEF Good
  <2> QED
    BY <1>6, <1>7, <2>1
<1>13. ASSUME NEW c \in DOMAIN M, NEW p \in DOMAIN M[c]
       PROVE  /\ M[c][p] \in DOMAIN g
              /\ \E l \in Nodes(s) : /\ l.path = p /\ l.obj = p /\ l.home \in DOMAIN M[c]
                                     /\ g[M[c][p]].type = l.type
  <2>1. CASE p \in DOMAIN L[c]
    <3>1. /\ L[c][p] \in DOMAIN h
          /\ \E l \in Nodes(s) : /\ l.path = p /\ l.obj = p /\ l.home \in DOMAIN L[c]
                                 /\ h[L[c][p]].type = l.type
      BY <1>6, <2>1 DEF Good
    <3>2. M[c][p] = L[c][p] /\ DOMAIN L[c] \subseteq DOMAIN M[c]
      BY <1>6, <1>7, <2>1
    <3>3. M[c][p] \in DOMAIN g /\ g[M[c][p]].type = h[L[c][p]].type
      BY <1>4, <1>9, <3>1, <3>2
    <3> QED
      BY <3>1, <3>2, <3>3
  <2>2. CASE p \notin DOMAIN L[c]
    <3>1. c = b /\ p = q
      BY <1>6, <1>7, <2>2
    <3>2. n.home \in DOMAIN M[c] /\ M[c][p] = k
      BY <1>6, <3>1
    <3>3. n.path = p /\ n.obj = p /\ g[M[c][p]].type = n.type
      BY <1>1, <1>3, <3>1, <3>2 DEF t
    <3> QED
      BY <1>4, <3>2, <3>3
  <2> QED
    BY <2>1, <2>2
<1>14. ASSUME NEW c \in DOMAIN M, NEW m \in Nodes(s), m.ptr, m.home \in DOMAIN M[c]
       PROVE  g[M[c][m.home]].words[m.off] = IF m.path \in DOMAIN M[c] THEN M[c][m.path] ELSE Nil
  <2>0. m.obj = m.path /\ m # Start /\ m.off \in Nat
    BY <1>0, <1>14, Home DEF Start
  <2>1. CASE m.home \notin DOMAIN L[c]
    <3>1. c = b /\ m.home = q
      BY <1>6, <1>7, <1>14, <2>1
    <3>2. PICK l \in Nodes(s) : l.path = m.home /\ m.off + Span(s, m) <= Size(s, l.type)
      BY InRange
    <3>3. l = n
      BY <1>0, <3>1, <3>2, NodeUnique
    <3>4. Span(s, m) = 1 /\ Size(s, t) \in Nat
      BY <1>1, <1>14, SpanType, Laid
    <3>5. m.off \in 0..(Size(s, t) - 1)
      BY <2>0, <3>2, <3>3, <3>4 DEF t
    <3>6. g[k].words[m.off] = Nil /\ M[c][m.home] = k
      BY <1>3, <1>6, <3>1, <3>5
    <3>7. m.path \notin DOMAIN L[c]
      BY <1>6, <1>10, <2>1
    <3>8. m.path # q
      <4>1. m.path \in Seq(Nat) /\ m.home \in Seq(Nat) /\ Len(m.home) < Len(m.path)
        BY <1>0, <2>0, Home
      <4>2. Len(m.home) # Len(m.path)
        BY <4>1
      <4> QED
        BY <3>1, <4>2
    <3>9. m.path \notin DOMAIN M[c]
      BY <1>6, <3>1, <3>7, <3>8
    <3> QED
      BY <3>6, <3>9
  <2>2. CASE m.home \in DOMAIN L[c]
    <3> DEFINE a == L[c][m.home]
    <3>1. M[c][m.home] = a /\ c \in DOMAIN L
      BY <1>6, <1>7, <2>2
    <3>2. h[a].words[m.off] = IF m.path \in DOMAIN L[c] THEN L[c][m.path] ELSE Nil
      BY <1>14, <2>2, <3>1 DEF Good
    <3>3. a \in DOMAIN h /\ m.off \in DOMAIN h[a].words
      BY <1>14, <2>2, <3>1, GoodObject, WordThere
    <3>4. a = o => c = b /\ m.home = n.home
      BY <1>8, <2>2, <3>1
    <3>5. m = n \/ ~(c = b /\ m.path = q)
      BY <1>0, NodeUnique DEF q
    <3> HIDE DEF a
    <3>6. CASE a = o /\ m.off = w
      <4>1. m = n /\ c = b
        BY <1>14, <3>4, <3>6, OneCell DEF IsCell, w
      <4>2. g[a].words[m.off] = k
        BY <1>3, <3>3, <3>6 DEF Written
      <4> QED
        BY <1>6, <3>1, <4>1, <4>2
    <3>7. CASE ~(a = o /\ m.off = w)
      <4>1. g[a].words[m.off] = h[a].words[m.off]
        <5>1. CASE a # o
          BY <1>3, <3>3, <5>1
        <5>2. CASE a = o
          BY <1>3, <3>3, <3>7, <5>2 DEF Written
        <5> QED
          BY <5>1, <5>2
      <4>2. ~(c = b /\ m.path = q)
        BY <3>5, <3>7 DEF a, o, w
      <4>3. m.path \in DOMAIN M[c] <=> m.path \in DOMAIN L[c]
        BY <1>7, <3>1, <4>2
      <4>4. m.path \in DOMAIN L[c] => M[c][m.path] = L[c][m.path]
        BY <1>7, <3>1
      <4> QED
        BY <3>1, <3>2, <4>1, <4>3, <4>4
    <3> QED
      BY <3>6, <3>7
  <2> QED
    BY <2>1, <2>2
<1>15. ASSUME NEW c \in DOMAIN M, NEW d \in DOMAIN M, NEW p \in DOMAIN M[c], NEW r \in DOMAIN M[d],
              M[c][p] = M[d][r]
       PROVE  c = d /\ p = r
  <2>1. p \in DOMAIN L[c] => M[c][p] = L[c][p] /\ L[c][p] # k
    BY <1>2, <1>6, <1>7, GoodObject
  <2>2. r \in DOMAIN L[d] => M[d][r] = L[d][r] /\ L[d][r] # k
    BY <1>2, <1>6, <1>7, GoodObject
  <2>3. p \notin DOMAIN L[c] => c = b /\ p = q /\ M[c][p] = k
    BY <1>6, <1>7
  <2>4. r \notin DOMAIN L[d] => d = b /\ r = q /\ M[d][r] = k
    BY <1>6, <1>7
  <2>5. CASE p \in DOMAIN L[c] /\ r \in DOMAIN L[d]
    <3>1. L[c][p] = L[d][r] /\ c \in DOMAIN L /\ d \in DOMAIN L
      BY <1>6, <1>15, <2>1, <2>2, <2>5
    <3> QED
      BY <2>5, <3>1 DEF Good
  <2> QED
    BY <1>15, <2>1, <2>2, <2>3, <2>4, <2>5
<1>16. Good(s, g, M)
  BY <1>11, <1>12, <1>13, <1>14, <1>15 DEF Good
<1>17. ASSUME NEW p \in DOMAIN h, ~Owns(L, p)
       PROVE  ~Owns(M, p) /\ g[p] = h[p]
  <2>1. p # o
    BY <1>17 DEF Owns, o
  <2>2. ASSUME NEW c \in DOMAIN M, NEW r \in DOMAIN M[c], M[c][r] = p
        PROVE  FALSE
    <3>1. r \in DOMAIN L[c] => L[c][r] = p
      BY <1>6, <1>7, <2>2
    <3>2. r \notin DOMAIN L[c] => p = k
      BY <1>6, <1>7, <2>2
    <3> QED
      BY <1>2, <1>6, <1>17, <3>1, <3>2 DEF Owns
  <2> QED
    BY <1>3, <2>1, <2>2 DEF Owns
<1>18. ASSUME NEW c \in DOMAIN L, NEW m \in Nodes(s), m.type = Scalar, m.obj \in DOMAIN L[c]
       PROVE  g[L[c][m.obj]].words[m.word] = h[L[c][m.obj]].words[m.word]
  <2> DEFINE a == L[c][m.obj]
  <2>1. a \in DOMAIN h /\ m.word \in DOMAIN h[a].words
    BY <1>18, GoodObject, WordThere
  <2>2. a = o => m.obj = n.home
    BY <1>8, <1>18
  <2>3. a = o => m.word # w
    BY <1>18, <2>2, NoPointerThere DEF w
  <2> HIDE DEF a
  <2>4. CASE a # o
    BY <1>3, <2>1, <2>4 DEF a
  <2>5. CASE a = o
    <3>1. g[o].words[m.word] = h[o].words[m.word]
      BY <1>3, <2>1, <2>3, <2>5 DEF Written
    <3> QED
      BY <2>5, <3>1 DEF a
  <2> QED
    BY <2>4, <2>5
<1>19. Grown(s, h, L, g, M)
  BY <1>4, <1>6, <1>7, <1>17, <1>18 DEF Grown
<1> QED
  BY <1>16, <1>19

(* What a step past a pointer does to memory. *)
LEMMA FillGood ==
    ASSUME shape \in Shapes, NEW h, NEW L, Good(shape, h, L), NEW b \in DOMAIN L,
           NEW n \in Nodes(shape), n.ptr, n.home \in DOMAIN L[b],
           NEW g, g = Fill(h, L[b][n.home], n.off, n.type)
    PROVE  \E M : /\ Good(shape, g, M) /\ Grown(shape, h, L, g, M)
                  /\ n.path \in DOMAIN M[b]
                  /\ g[L[b][n.home]].words[n.off] = M[b][n.path]
<1> DEFINE o == L[b][n.home]
           w == n.off
<1>5. g = Fill(h, o, w, n.type)
  OBVIOUS
<1>0. h \in Seq(Objects(shape)) /\ shape \in Declarations
  BY Laid DEF Good
<1>1. o \in DOMAIN h /\ w \in DOMAIN h[o].words /\ n.type \in Types \cup {Scalar}
  BY <1>0, GoodObject, WordThere, Home
<1>2. h[o].words[w] = IF n.path \in DOMAIN L[b] THEN L[b][n.path] ELSE Nil
  BY DEF Good
<1> HIDE DEF o, w
<1>3. CASE n.path \in DOMAIN L[b]
  <2>1. L[b][n.path] \in Nat
    BY <1>3, GoodObject
  <2>2. h[o].words[w] # Nil
    BY <1>2, <1>3, <2>1, NilAssumption
  <2>3. g = h
    BY <1>5, <2>2 DEF Fill
  <2>4. Grown(shape, h, L, h, L)
    <3>1. Len(h) \in Nat
      BY <1>0
    <3> QED
      BY <3>1, GrownSame
  <2> QED
    BY <1>2, <1>3, <2>3, <2>4 DEF o, w
<1>4. CASE n.path \notin DOMAIN L[b]
  <2>1. Filled(shape, h, g, o, w, n.type)
    BY <1>0, <1>1, <1>2, <1>4, <1>5, FillStep
  <2>2. PICK M : Extended(L, M, b, n.path, Len(h) + 1)
    BY ExtendedExists
  <2>3. Good(shape, g, M) /\ Grown(shape, h, L, g, M)
    BY <1>4, <2>1, <2>2, FilledGood DEF o, w
  <2>4. n.path \in DOMAIN M[b] /\ M[b][n.path] = Len(h) + 1
    BY <2>2 DEF Extended
  <2>5. g[o].words[w] = Len(h) + 1
    BY <1>1, <2>1 DEF Filled, Written
  <2> QED
    BY <2>3, <2>4, <2>5 DEF o, w
<1> QED
  BY <1>3, <1>4

-----------------------------------------------------------------------------
(* Walks through memory, as they go on and at their end.                   *)

(* Where a walk is: with the memory as it left it, or only reading.        *)
Addr(h, o, w) == [heap |-> h, obj |-> o, word |-> w]
Place(o, w, t, p) == [obj |-> o, word |-> w, type |-> t, ptr |-> p]
Filling(h, o, w, t, p) == [heap |-> h, obj |-> o, word |-> w, type |-> t, ptr |-> p]

(* And where a value is that is not behind a pointer. *)
Here(o, w, t) == [obj |-> o, word |-> w, type |-> t, ptr |-> FALSE]
HereFilling(h, o, w, t) == [heap |-> h, obj |-> o, word |-> w, type |-> t, ptr |-> FALSE]

(* Records with three new components. *)
Moved(r, v, u, q) == [r EXCEPT !.word = v, !.type = u, !.ptr = q]

LEMMA PlaceAt ==
    ASSUME NEW o, NEW w, NEW t, NEW v, NEW u, NEW q, NEW r, r = Here(o, w, t)
    PROVE  Moved(r, v, u, q) = Place(o, v, u, q)
<1> DEFINE x == [r EXCEPT !.word = v, !.type = u, !.ptr = q]
           y == [obj |-> o, word |-> v, type |-> u, ptr |-> q]
<1>0. DOMAIN r = {"obj", "word", "type", "ptr"} /\ r.obj = o
  BY DEF Here
<1>1. x = [k \in DOMAIN r |-> x[k]]
  OBVIOUS
<1>2. y = [k \in DOMAIN r |-> y[k]]
  BY <1>0
<1>3. x.obj = o /\ x.word = v /\ x.type = u /\ x.ptr = q
  BY <1>0
<1>4. y.obj = o /\ y.word = v /\ y.type = u /\ y.ptr = q
  OBVIOUS
<1> HIDE DEF x, y
<1>5. \A k \in DOMAIN r : x[k] = y[k]
  BY <1>0, <1>3, <1>4
<1>6. x = y
  BY <1>1, <1>2, <1>5
<1> QED
  BY <1>6 DEF x, y, Moved, Place

LEMMA FillingAt ==
    ASSUME NEW h, NEW o, NEW w, NEW t, NEW v, NEW u, NEW q, NEW r,
           r = HereFilling(h, o, w, t)
    PROVE  Moved(r, v, u, q) = Filling(h, o, v, u, q)
<1> DEFINE x == [r EXCEPT !.word = v, !.type = u, !.ptr = q]
           y == [heap |-> h, obj |-> o, word |-> v, type |-> u, ptr |-> q]
<1>0. DOMAIN r = {"obj", "word", "type", "ptr", "heap"} /\ r.obj = o /\ r.heap = h
  BY DEF HereFilling
<1>1. x = [k \in DOMAIN r |-> x[k]]
  OBVIOUS
<1>2. y = [k \in DOMAIN r |-> y[k]]
  BY <1>0
<1>3. x.obj = o /\ x.word = v /\ x.type = u /\ x.ptr = q /\ x.heap = h
  BY <1>0
<1>4. y.obj = o /\ y.word = v /\ y.type = u /\ y.ptr = q /\ y.heap = h
  OBVIOUS
<1> HIDE DEF x, y
<1>5. \A k \in DOMAIN r : x[k] = y[k]
  BY <1>0, <1>3, <1>4
<1>6. x = y
  BY <1>1, <1>2, <1>5
<1> QED
  BY <1>6 DEF x, y, Moved, Filling

LEMMA FollowOffset ==
    ASSUME NEW h, NEW o, NEW w, NEW x
    PROVE  Follow(Addr(h, o, w), [off |-> x, type |-> NoType]) = Addr(h, o, w + x)
  BY DEF Follow, Addr

LEMMA FollowPointer ==
    ASSUME NEW h, NEW o, NEW w \in Nat, NEW t \in Types \cup {Scalar},
           NEW g, g = Fill(h, o, w, t)
    PROVE  Follow(Addr(h, o, w), [off |-> 0, type |-> t]) = Addr(g, g[o].words[w], 0)
<1>1. t # NoType /\ w + 0 = w
  BY TypesAssumption
<1> QED
  BY <1>1 DEF Follow, Addr

(* The value of a field is at o2, w2. *)
Behind(h, o, w, p, o2, w2) ==
    o2 = (IF p THEN h[o].words[w] ELSE o) /\ w2 = (IF p THEN 0 ELSE w)

LEMMA DerefPlace ==
    ASSUME NEW h, NEW o, NEW w, NEW t, NEW p \in BOOLEAN, NEW o2, NEW w2,
           Behind(h, o, w, p, o2, w2)
    PROVE  DerefAt(h, Place(o, w, t, p)) = Here(o2, w2, t)
<1>1. CASE p
  BY <1>1 DEF DerefAt, Place, Filling, Here, HereFilling, Behind
<1>2. CASE ~p
  <2>1. p = FALSE
    BY <1>2
  <2> QED
    BY <2>1 DEF DerefAt, Place, Filling, Here, HereFilling, Behind
<1> QED
  BY <1>1, <1>2

LEMMA DerefFilling ==
    ASSUME NEW h, NEW o, NEW w, NEW t, NEW p \in BOOLEAN, NEW o2, NEW w2,
           Behind(h, o, w, p, o2, w2)
    PROVE  DerefAt(h, Filling(h, o, w, t, p)) = HereFilling(h, o2, w2, t)
<1>1. CASE p
  BY <1>1 DEF DerefAt, Place, Filling, Here, HereFilling, Behind
<1>2. CASE ~p
  <2>1. p = FALSE
    BY <1>2
  <2> QED
    BY <2>1 DEF DerefAt, Place, Filling, Here, HereFilling, Behind
<1> QED
  BY <1>1, <1>2

LEMMA FieldPlace ==
    ASSUME NEW h, NEW o, NEW w, NEW t, NEW i
    PROVE  /\ FieldOf(Here(o, w, t), i) =
                 Place(o, w + shape[t][i].off, shape[t][i].type, shape[t][i].ptr)
           /\ FieldOf(HereFilling(h, o, w, t), i) =
                 Filling(h, o, w + shape[t][i].off, shape[t][i].type, shape[t][i].ptr)
<1> DEFINE f == shape[t][i]
           v == w + f.off
           a == Here(o, w, t)
           b == HereFilling(h, o, w, t)
<1>1. a.type = t /\ a.word = w /\ b.type = t /\ b.word = w
  BY DEF Here, HereFilling
<1>2. /\ FieldOf(a, i) = Moved(a, v, f.type, f.ptr)
      /\ FieldOf(b, i) = Moved(b, v, f.type, f.ptr)
  <2> HIDE DEF a, b
  <2> QED
    BY <1>1 DEF FieldOf, Moved
<1> HIDE DEF f, v
<1> DEFINE ft == f.type
           fp == f.ptr
<1> HIDE DEF ft, fp
<1>3. Moved(a, v, ft, fp) = Place(o, v, ft, fp)
  BY PlaceAt
<1>4. Moved(b, v, ft, fp) = Filling(h, o, v, ft, fp)
  BY FillingAt
<1> QED
  BY <1>2, <1>3, <1>4 DEF f, v, ft, fp

(* One step of Field(i) with nil pointers filled in. *)
LEMMA EnterFilledStep ==
    ASSUME NEW h, NEW o, NEW w, NEW t, NEW p \in BOOLEAN, NEW i,
           NEW o2, NEW w1, Behind(h, o, w, p, o2, w1), NEW f, f = shape[t][i],
           f.ptr \in BOOLEAN, NEW w2, w2 = w1 + f.off,
           NEW g, g = IF f.ptr THEN Fill(h, o2, w2, f.type) ELSE h
    PROVE  EnterFilled(Filling(h, o, w, t, p), i) = Filling(g, o2, w2, f.type, f.ptr)
<1> DEFINE at == Filling(h, o, w, t, p)
           F == FieldOf(DerefAt(at.heap, at), i)
<1>1. at.heap = h
  BY DEF Filling
<1>2. DerefAt(at.heap, at) = HereFilling(h, o2, w1, t)
  <2>1. DerefAt(h, at) = HereFilling(h, o2, w1, t)
    BY DerefFilling
  <2> HIDE DEF at
  <2> QED
    BY <1>1, <2>1
<1>3. F = Filling(h, o2, w2, f.type, f.ptr)
  <2> HIDE DEF at
  <2> QED
    BY <1>2, FieldPlace
<1>4. EnterFilled(at, i) = IF F.ptr THEN [F EXCEPT !.heap = Fill(F.heap, F.obj, F.word, F.type)] ELSE F
  BY DEF EnterFilled
<1> HIDE DEF at, F
<1>5. F.ptr = f.ptr /\ F.heap = h /\ F.obj = o2 /\ F.word = w2 /\ F.type = f.type
  BY <1>3 DEF Filling
<1>6. \A k : [F EXCEPT !.heap = k] = Filling(k, o2, w2, f.type, f.ptr)
  BY <1>3 DEF Filling
<1>7. CASE f.ptr
  BY <1>4, <1>5, <1>6, <1>7 DEF at
<1>8. CASE ~f.ptr
  BY <1>3, <1>4, <1>5, <1>8 DEF at
<1> QED
  BY <1>7, <1>8

(* The way of a field ends in a step or two. *)
LEMMA WayAppend ==
    ASSUME NEW tr \in Seq(Step), NEW f \in Field
    PROVE  LET x == [off |-> f.off, type |-> NoType]
               y == [off |-> 0, type |-> f.type] IN
           /\ x \in Step /\ y \in Step
           /\ tr \o Way(f) = IF f.ptr THEN Append(Append(tr, x), y) ELSE Append(tr, x)
<1> DEFINE x == [off |-> f.off, type |-> NoType]
           y == [off |-> 0, type |-> f.type]
<1>1. x \in Step /\ y \in Step /\ f.ptr \in BOOLEAN
  BY DEF Step, Field
<1> HIDE DEF x, y
<1>2. CASE f.ptr
  <2>1. Way(f) = <<x>> \o <<y>>
    BY <1>2 DEF Way, x, y
  <2>2. tr \o (<<x>> \o <<y>>) = Append(Append(tr, x), y)
    BY <1>1
  <2> QED
    BY <1>1, <1>2, <2>1, <2>2 DEF x, y
<1>3. CASE ~f.ptr
  <2>1. Way(f) = <<x>>
    <3>1. Way(f) = <<x>> \o <<>>
      BY <1>3 DEF Way, x
    <3> QED
      BY <1>1, <3>1
  <2>2. tr \o <<x>> = Append(tr, x)
    BY <1>1
  <2> QED
    BY <1>1, <1>3, <2>1, <2>2 DEF x, y
<1> QED
  BY <1>2, <1>3

(* The way to a node, with the pointers on it filled in: AddrByTraversal   *)
(* ends at the value of the node, FieldByIndexes at the node itself, and   *)
(* they leave the same memory.                                             *)
Walked(e, L, base, n, h, M) ==
    /\ Good(shape, h, M) /\ Grown(shape, e, L, h, M)
    /\ n.obj \in DOMAIN M[base] /\ n.home \in DOMAIN M[base]
    /\ AddrByTraversal(e, base, n.trav) = Addr(h, M[base][n.obj], n.word)
    /\ FieldByIndexes(e, base, n.path) = Filling(h, M[base][n.home], n.off, n.type, n.ptr)

LEMMA WalkStep ==
    ASSUME shape \in Shapes, NEW e, NEW L, Good(shape, e, L), NEW base \in DOMAIN L,
           NEW a \in Nodes(shape), a.type \in Types, NEW i \in DOMAIN shape[a.type],
           NEW h, NEW M, Walked(e, L, base, a, h, M)
    PROVE  \E g, K : Walked(e, L, base, Below(shape, a, i), g, K)
<1> DEFINE f == shape[a.type][i]
           b == Below(shape, a, i)
<1>0. shape \in Declarations /\ e \in Seq(Objects(shape)) /\ h \in Seq(Objects(shape))
  BY Laid DEF Good, Walked
<1>1. /\ b \in Nodes(shape) /\ i \in Nat /\ f \in Field
      /\ b.path = Append(a.path, i) /\ b.type = f.type /\ b.ptr = f.ptr
      /\ b.home = a.obj /\ b.off = a.word + f.off /\ b.trav = a.trav \o Way(f)
  <2>1. b \in Nodes(shape) /\ i \in Nat /\ f \in Field
    BY <1>0, BelowNode, FieldType
  <2> QED
    BY <2>1 DEF Below
<1> HIDE DEF f, b
<1>2. /\ b.ptr \in BOOLEAN /\ b.off \in Nat /\ b.type \in Types \cup {Scalar}
      /\ b.obj = (IF b.ptr THEN b.path ELSE b.home) /\ b.word = (IF b.ptr THEN 0 ELSE b.off)
      /\ a.ptr \in BOOLEAN /\ a.path \in Seq(Nat) /\ a.trav \in Seq(Step)
      /\ a.obj = (IF a.ptr THEN a.path ELSE a.home) /\ a.word = (IF a.ptr THEN 0 ELSE a.off)
  <2>1. /\ b.ptr \in BOOLEAN /\ b.off \in Nat /\ b.type \in Types \cup {Scalar}
        /\ b.obj = (IF b.ptr THEN b.path ELSE b.home) /\ b.word = (IF b.ptr THEN 0 ELSE b.off)
    BY <1>0, <1>1, Home
  <2>2. /\ a.ptr \in BOOLEAN /\ a.path \in Seq(Nat)
        /\ a.obj = (IF a.ptr THEN a.path ELSE a.home) /\ a.word = (IF a.ptr THEN 0 ELSE a.off)
    BY <1>0, Home
  <2>3. a.trav \in Seq(Step)
    BY NodesAreNodes DEF NodeSet
  <2> QED
    BY <2>1, <2>2, <2>3
<1>3. DOMAIN L \subseteq DOMAIN M
  BY DEF Walked, Grown
<1> DEFINE o == M[base][b.home]
           w == b.off
           F == Fill(h, o, w, b.type)
           g == IF f.ptr THEN F ELSE h
<1>4. b.home \in DOMAIN M[base] /\ base \in DOMAIN M
  BY <1>1, <1>3 DEF Walked
<1>5. \E K : /\ Good(shape, g, K) /\ Grown(shape, h, M, g, K)
             /\ b.obj \in DOMAIN K[base]
             /\ b.ptr => g[o].words[w] = K[base][b.obj]
  <2>1. CASE b.ptr
    <3>1. \E K : /\ Good(shape, F, K) /\ Grown(shape, h, M, F, K)
                 /\ b.path \in DOMAIN K[base]
                 /\ F[o].words[w] = K[base][b.path]
      <4>1. Good(shape, h, M)
        BY DEF Walked
      <4>2. F = Fill(h, M[base][b.home], b.off, b.type)
        OBVIOUS
      <4>3. b \in Nodes(shape)
        BY <1>1
      <4> HIDE DEF F
      <4> QED
        BY <1>4, <2>1, <4>1, <4>2, <4>3, FillGood
    <3> HIDE DEF F
    <3> QED
      BY <1>1, <1>2, <2>1, <3>1
  <2>2. CASE ~b.ptr
    <3>1. Len(h) \in Nat
      BY <1>0
    <3>2. Grown(shape, h, M, h, M)
      BY <3>1, GrownSame
    <3>3. g = h /\ b.obj = b.home
      BY <1>1, <1>2, <2>2
    <3> HIDE DEF g
    <3> QED
      BY <1>4, <2>2, <3>2, <3>3 DEF Walked
  <2> QED
    BY <2>1, <2>2
<1> HIDE DEF g, F
<1>6. PICK K : /\ Good(shape, g, K) /\ Grown(shape, h, M, g, K)
               /\ b.obj \in DOMAIN K[base]
               /\ b.ptr => g[o].words[w] = K[base][b.obj]
  BY <1>5
<1>7. /\ DOMAIN M[base] \subseteq DOMAIN K[base]
      /\ K[base][b.home] = o
  BY <1>4, <1>6 DEF Grown
<1>8. Grown(shape, e, L, g, K)
  <2>1. g \in Seq(Objects(shape))
    BY <1>6 DEF Good
  <2> QED
    BY <1>0, <1>6, <2>1, GrownTrans DEF Walked
<1>9. g = (IF f.ptr THEN Fill(h, o, w, f.type) ELSE h)
  BY <1>1 DEF g, F
<1> HIDE DEF o, w
<1>10. AddrByTraversal(e, base, b.trav) = Addr(g, K[base][b.obj], b.word)
  <2> DEFINE x == [off |-> f.off, type |-> NoType]
             y == [off |-> 0, type |-> f.type]
  <2>1. /\ x \in Step /\ y \in Step
        /\ b.trav = IF f.ptr THEN Append(Append(a.trav, x), y) ELSE Append(a.trav, x)
    BY <1>1, <1>2, WayAppend
  <2>2. AddrByTraversal(e, base, a.trav) = Addr(h, o, a.word)
    BY <1>1 DEF Walked, o
  <2>3. \A s \in Seq(Step) : \A z \in Step :
           AddrByTraversal(e, base, Append(s, z)) = Follow(AddrByTraversal(e, base, s), z)
    BY FollowSteps
  <2>4. AddrByTraversal(e, base, Append(a.trav, x)) = Addr(h, o, w)
    <3>1. AddrByTraversal(e, base, Append(a.trav, x)) = Follow(Addr(h, o, a.word), x)
      <4> HIDE DEF x, y
      <4> QED
        BY <1>2, <2>1, <2>2, <2>3
    <3>2. Follow(Addr(h, o, a.word), x) = Addr(h, o, a.word + f.off)
      BY FollowOffset
    <3> QED
      BY <1>1, <3>1, <3>2 DEF w
  <2>5. CASE f.ptr
    <3>1. Append(a.trav, x) \in Seq(Step)
      <4> HIDE DEF x, y
      <4> QED
        BY <1>2, <2>1
    <3>2. AddrByTraversal(e, base, b.trav) = Follow(Addr(h, o, w), y)
      <4> HIDE DEF x, y
      <4> QED
        BY <2>1, <2>3, <2>4, <2>5, <3>1
    <3>3. g = Fill(h, o, w, f.type) /\ w \in Nat /\ f.type \in Types \cup {Scalar}
      BY <1>1, <1>2, <1>9, <2>5 DEF w
    <3>4. Follow(Addr(h, o, w), y) = Addr(g, g[o].words[w], 0)
      BY <3>3, FollowPointer
    <3> QED
      BY <1>1, <1>2, <1>6, <2>5, <3>2, <3>4
  <2>6. CASE ~f.ptr
    <3>1. AddrByTraversal(e, base, b.trav) = Addr(h, o, w)
      <4> HIDE DEF x, y
      <4> QED
        BY <2>1, <2>4, <2>6
    <3>2. g = h /\ K[base][b.obj] = o /\ b.word = w
      BY <1>1, <1>2, <1>7, <1>9, <2>6 DEF w
    <3> QED
      BY <3>1, <3>2
  <2> QED
    BY <2>5, <2>6
<1>11. FieldByIndexes(e, base, b.path) = Filling(g, K[base][b.home], b.off, b.type, b.ptr)
  <2> DEFINE c == M[base][a.home]
  <2>1. FieldByIndexes(e, base, a.path) = Filling(h, c, a.off, a.type, a.ptr)
    BY DEF Walked
  <2>2. \A s \in Seq(Nat) : \A z \in Nat :
           FieldByIndexes(e, base, Append(s, z)) = EnterFilled(FieldByIndexes(e, base, s), z)
    BY EnterFilledSteps
  <2>3. FieldByIndexes(e, base, b.path) = EnterFilled(Filling(h, c, a.off, a.type, a.ptr), i)
    <3> HIDE DEF c
    <3> QED
      BY <1>1, <1>2, <2>1, <2>2
  <2>4. a.ptr => h[c].words[a.off] = M[base][a.path] /\ a.obj = a.path
    <3> SUFFICES ASSUME a.ptr PROVE h[c].words[a.off] = M[base][a.path] /\ a.obj = a.path
      OBVIOUS
    <3>1. a.obj = a.path /\ a.path \in DOMAIN M[base] /\ a.home \in DOMAIN M[base]
      BY <1>2 DEF Walked
    <3>2. Good(shape, h, M)
      BY DEF Walked
    <3> QED
      BY <1>4, <3>1, <3>2 DEF Good
  <2>5. Behind(h, c, a.off, a.ptr, o, a.word)
    BY <1>1, <1>2, <2>4 DEF Behind, o
  <2> HIDE DEF c
  <2>6. EnterFilled(Filling(h, c, a.off, a.type, a.ptr), i) = Filling(g, o, w, f.type, f.ptr)
    <3> DEFINE v == a.off
               t == a.type
               p == a.ptr
               x == a.word
    <3>1. p \in BOOLEAN /\ Behind(h, c, v, p, o, x) /\ w = x + f.off /\ f = shape[t][i]
          /\ f.ptr \in BOOLEAN
      BY <1>1, <1>2, <2>5 DEF f, w
    <3> HIDE DEF v, t, p, x
    <3>2. EnterFilled(Filling(h, c, v, t, p), i) = Filling(g, o, w, f.type, f.ptr)
      BY <1>9, <3>1, EnterFilledStep
    <3> QED
      BY <3>2 DEF v, t, p
  <2> QED
    BY <1>1, <1>7, <2>3, <2>6 DEF w
<1>12. Walked(e, L, base, b, g, K)
  BY <1>4, <1>6, <1>7, <1>8, <1>10, <1>11 DEF Walked
<1> QED
  BY <1>12 DEF b

LEMMA Walk ==
    ASSUME shape \in Shapes, NEW e, NEW L, Good(shape, e, L), NEW base \in DOMAIN L,
           NEW n \in Nodes(shape)
    PROVE  \E h, M : Walked(e, L, base, n, h, M)
<1> DEFINE N == {a \in Nodes(shape) : \E h, M : Walked(e, L, base, a, h, M)}
<1>0. shape \in Declarations /\ e \in Seq(Objects(shape))
  BY Laid DEF Good
<1>1. Walked(e, L, base, Start, e, L)
  <2>1. /\ Start.obj = <<>> /\ Start.home = <<>> /\ Start.trav = <<>> /\ Start.path = <<>>
        /\ Start.word = 0 /\ Start.off = 0 /\ Start.type = Root /\ Start.ptr = FALSE
    BY DEF Start
  <2>2. <<>> \in DOMAIN L[base] /\ L[base][<<>>] = base
    BY DEF Good
  <2>3. AddrByTraversal(e, base, <<>>) = [heap |-> e, obj |-> base, word |-> 0]
    BY FollowSteps
  <2>4. FieldByIndexes(e, base, <<>>) =
           [heap |-> e, obj |-> base, word |-> 0, type |-> Root, ptr |-> FALSE]
    BY EnterFilledSteps
  <2>5. AddrByTraversal(e, base, Start.trav) = Addr(e, L[base][Start.obj], Start.word)
    BY <2>1, <2>2, <2>3 DEF Addr
  <2>6. FieldByIndexes(e, base, Start.path) =
           Filling(e, L[base][Start.home], Start.off, Start.type, Start.ptr)
    BY <2>1, <2>2, <2>4 DEF Filling
  <2>7. Grown(shape, e, L, e, L)
    <3>1. Len(e) \in Nat
      BY <1>0
    <3> QED
      BY <3>1, GrownSame
  <2> QED
    BY <2>1, <2>2, <2>5, <2>6, <2>7 DEF Walked
<1>2. Start \in N
  BY <1>0, <1>1, NodesClosed DEF Closed
<1>3. ASSUME NEW a \in Nodes(shape), a \in N, a.type \in Types, NEW i \in DOMAIN shape[a.type]
      PROVE  Below(shape, a, i) \in N
  <2>1. PICK h, M : Walked(e, L, base, a, h, M)
    BY <1>3
  <2>2. \E g, K : Walked(e, L, base, Below(shape, a, i), g, K)
    BY <1>3, <2>1, WalkStep
  <2> QED
    BY <1>0, <1>3, <2>2, BelowNode
<1>4. Nodes(shape) \subseteq N
  <2> HIDE DEF N
  <2> QED
    BY <1>0, <1>2, <1>3, NodeInduction
<1> QED
  BY <1>4

(* V says where the values on the way to a node are in h.                  *)
Seen(h, V, n) ==
    \A m \in Nodes(shape) : Under(m.path, n.path) =>
        V[m.obj] \in Nat /\ (m.ptr => h[V[m.home]].words[m.off] = V[m.obj])

LEMMA EnterStep ==
    ASSUME NEW h, NEW o \in Nat, NEW w, NEW t, NEW p \in BOOLEAN, NEW i,
           NEW o2 \in Nat, NEW w1, Behind(h, o, w, p, o2, w1), NEW f, f = shape[t][i],
           NEW w2, w2 = w1 + f.off
    PROVE  Enter(h, Place(o, w, t, p), i) = Place(o2, w2, f.type, f.ptr)
<1> DEFINE at == Place(o, w, t, p)
           v == Here(o2, w1, t)
<1>1. at.obj = o /\ v.obj = o2 /\ o # Nil /\ o2 # Nil
  BY NilAssumption DEF Place, Here
<1>2. DerefAt(h, at) = v
  BY DerefPlace
<1>3. FieldOf(v, i) = Place(o2, w2, f.type, f.ptr)
  BY FieldPlace
<1> HIDE DEF at, v
<1>4. Enter(h, at, i) = Place(o2, w2, f.type, f.ptr)
  BY <1>1, <1>2, <1>3 DEF Enter, Value
<1> QED
  BY <1>4 DEF at

(* Reading the fields of an index leads to the node, and to its value.     *)
LEMMA ReadNode ==
    ASSUME shape \in Shapes, NEW h, NEW V, NEW n \in Nodes(shape), Seen(h, V, n)
    PROVE  /\ Read(h, V[<<>>], n.path) = Place(V[n.home], n.off, n.type, n.ptr)
           /\ V[n.home] \in Nat /\ V[n.obj] \in Nat
           /\ n.ptr => h[V[n.home]].words[n.off] = V[n.obj]
<1> DEFINE P(a) == Under(a.path, n.path) =>
                      /\ Read(h, V[<<>>], a.path) = Place(V[a.home], a.off, a.type, a.ptr)
                      /\ V[a.home] \in Nat /\ V[a.obj] \in Nat
                      /\ a.ptr => h[V[a.home]].words[a.off] = V[a.obj]
           N == {a \in Nodes(shape) : P(a)}
<1>0. shape \in Declarations
  BY Laid
<1>1. Start \in Nodes(shape)
  BY <1>0, NodesClosed DEF Closed
<1>2. P(Start)
  <2> SUFFICES ASSUME Under(Start.path, n.path)
               PROVE  /\ Read(h, V[<<>>], Start.path) =
                           Place(V[Start.home], Start.off, Start.type, Start.ptr)
                      /\ V[Start.home] \in Nat /\ V[Start.obj] \in Nat
                      /\ Start.ptr => h[V[Start.home]].words[Start.off] = V[Start.obj]
    OBVIOUS
  <2>1. /\ Start.obj = <<>> /\ Start.home = <<>> /\ Start.path = <<>>
        /\ Start.off = 0 /\ Start.type = Root /\ Start.ptr = FALSE
    BY DEF Start
  <2>2. V[Start.obj] \in Nat
    BY <1>1 DEF Seen
  <2>3. Read(h, V[<<>>], <<>>) = [obj |-> V[<<>>], word |-> 0, type |-> Root, ptr |-> FALSE]
    BY EnterSteps
  <2>4. Read(h, V[<<>>], Start.path) = Place(V[Start.home], Start.off, Start.type, Start.ptr)
    BY <2>1, <2>3 DEF Place
  <2> QED
    BY <2>1, <2>2, <2>4
<1>3. Start \in N
  BY <1>1, <1>2
<1>4. ASSUME NEW a \in Nodes(shape), P(a), a.type \in Types, NEW i \in DOMAIN shape[a.type]
      PROVE  Below(shape, a, i) \in N
  <2> DEFINE f == shape[a.type][i]
             b == Below(shape, a, i)
  <2>1. /\ b \in Nodes(shape) /\ i \in Nat /\ f \in Field
        /\ b.path = Append(a.path, i) /\ b.type = f.type /\ b.ptr = f.ptr
        /\ b.home = a.obj /\ b.off = a.word + f.off
    <3>1. b \in Nodes(shape) /\ i \in Nat /\ f \in Field
      BY <1>0, <1>4, BelowNode, FieldType
    <3> QED
      BY <3>1 DEF Below
  <2> SUFFICES ASSUME Under(b.path, n.path)
               PROVE  /\ Read(h, V[<<>>], b.path) = Place(V[b.home], b.off, b.type, b.ptr)
                      /\ V[b.home] \in Nat /\ V[b.obj] \in Nat
                      /\ b.ptr => h[V[b.home]].words[b.off] = V[b.obj]
    BY <2>1
  <2> HIDE DEF f, b
  <2>2. a.path \in Seq(Nat) /\ b.path \in Seq(Nat) /\ n.path \in Seq(Nat)
    BY <1>0, <1>4, <2>1, Home
  <2>3. Under(a.path, b.path)
    BY <2>1, <2>2, UnderAppend
  <2>4. Under(a.path, n.path)
    BY <2>2, <2>3, UnderTrans
  <2>5. V[b.obj] \in Nat /\ (b.ptr => h[V[b.home]].words[b.off] = V[b.obj])
    BY <2>1 DEF Seen
  <2>6. /\ Read(h, V[<<>>], a.path) = Place(V[a.home], a.off, a.type, a.ptr)
        /\ V[a.home] \in Nat /\ V[a.obj] \in Nat
        /\ a.ptr => h[V[a.home]].words[a.off] = V[a.obj]
    BY <1>4, <2>4
  <2>7. a.ptr \in BOOLEAN /\ a.obj = (IF a.ptr THEN a.path ELSE a.home)
        /\ a.word = (IF a.ptr THEN 0 ELSE a.off)
    BY <1>0, <1>4, Home
  <2> DEFINE o == V[a.home]
             o2 == V[a.obj]
             w == a.off
             p == a.ptr
             w1 == a.word
             t == a.type
  <2>8. Behind(h, o, w, p, o2, w1)
    BY <2>6, <2>7 DEF Behind
  <2>9. o \in Nat /\ o2 \in Nat /\ p \in BOOLEAN /\ f = shape[t][i] /\ b.off = w1 + f.off
    BY <2>1, <2>6, <2>7 DEF f
  <2>10. Read(h, V[<<>>], b.path) = Enter(h, Place(o, w, t, p), i)
    <3>1. \A s \in Seq(Nat) : \A x \in Nat :
             Read(h, V[<<>>], Append(s, x)) = Enter(h, Read(h, V[<<>>], s), x)
      BY EnterSteps
    <3> QED
      BY <2>1, <2>2, <2>6, <3>1
  <2> HIDE DEF o, o2, w, p, w1, t
  <2>11. Enter(h, Place(o, w, t, p), i) = Place(o2, b.off, f.type, f.ptr)
    BY <2>8, <2>9, EnterStep
  <2> QED
    BY <2>1, <2>5, <2>6, <2>10, <2>11 DEF o2
<1>5. \A a \in Nodes(shape) : a \in N /\ a.type \in Types =>
         \A i \in DOMAIN shape[a.type] : Below(shape, a, i) \in N
  BY <1>4
<1>6. Nodes(shape) \subseteq N
  <2> HIDE DEF N
  <2> QED
    BY <1>0, <1>3, <1>5, NodeInduction
<1>7. P(n)
  BY <1>6
<1>8. Under(n.path, n.path)
  <2>1. n.path \in Seq(Nat)
    BY <1>0, Home
  <2> QED
    BY <2>1 DEF Under
<1> QED
  BY <1>7, <1>8

LEMMA ReadValue ==
    ASSUME shape \in Shapes, NEW h, NEW V, NEW n \in Nodes(shape), Seen(h, V, n)
    PROVE  ReadOnly(h, V[<<>>], n.path) = h[V[n.obj]].words[n.word]
<1> DEFINE at == Place(V[n.home], n.off, n.type, n.ptr)
           v == Here(V[n.obj], n.word, n.type)
<1>0. shape \in Declarations
  BY Laid
<1>1. /\ Read(h, V[<<>>], n.path) = at
      /\ V[n.home] \in Nat /\ V[n.obj] \in Nat
      /\ n.ptr => h[V[n.home]].words[n.off] = V[n.obj]
  BY ReadNode
<1>2. n.ptr \in BOOLEAN /\ n.obj = (IF n.ptr THEN n.path ELSE n.home)
      /\ n.word = (IF n.ptr THEN 0 ELSE n.off)
  BY <1>0, Home
<1>3. DerefAt(h, at) = v
  <2>1. Behind(h, V[n.home], n.off, n.ptr, V[n.obj], n.word)
    BY <1>1, <1>2 DEF Behind
  <2> DEFINE o == V[n.home]
             w == n.off
             p == n.ptr
             t == n.type
             o2 == V[n.obj]
             w2 == n.word
  <2>2. Behind(h, o, w, p, o2, w2) /\ p \in BOOLEAN
    BY <1>2, <2>1
  <2> HIDE DEF o, w, p, t, o2, w2
  <2>3. DerefAt(h, Place(o, w, t, p)) = Here(o2, w2, t)
    BY <2>2, DerefPlace
  <2> QED
    BY <2>3 DEF o, w, p, t, o2, w2
<1>4. at.obj = V[n.home] /\ v.obj = V[n.obj] /\ v.word = n.word
  BY DEF Place, Here
<1>5. at.obj # Nil /\ v.obj # Nil
  BY <1>1, <1>4, NilAssumption
<1> HIDE DEF at, v
<1>6. Value(h, at) = v
  BY <1>3, <1>5 DEF Value
<1>7. ReadOnly(h, V[<<>>], n.path) =
        LET end == Value(h, Read(h, V[<<>>], n.path))
        IN IF end.obj = Nil THEN Nil ELSE h[end.obj].words[end.word]
  BY DEF ReadOnly, Read, ReadFrom
<1> QED
  BY <1>1, <1>4, <1>5, <1>6, <1>7

-----------------------------------------------------------------------------
(* What is kept of a row, and reading it back.                             *)

(* On the way to a value that is there, all is there. *)
LEMMA WayThere ==
    ASSUME NEW s \in Shapes, NEW h, NEW L, Good(s, h, L), NEW b \in DOMAIN L,
           NEW n \in Nodes(s), n.obj \in DOMAIN L[b],
           NEW m \in Nodes(s), Under(m.path, n.path)
    PROVE  m.obj \in DOMAIN L[b] /\ m.home \in DOMAIN L[b]
<1> DEFINE There(a) == a.obj \in DOMAIN L[b] =>
                          /\ a.home \in DOMAIN L[b]
                          /\ \A x \in Nodes(s) : Under(x.path, a.path) =>
                               x.obj \in DOMAIN L[b] /\ x.home \in DOMAIN L[b]
           N == {a \in Nodes(s) : There(a)}
<1>0. s \in Declarations
  BY Laid
<1>1. ASSUME NEW a \in Nodes(s), a.obj \in DOMAIN L[b]
      PROVE  a.home \in DOMAIN L[b]
  <2>1. a.obj = IF a.ptr THEN a.path ELSE a.home
    BY <1>0, Home
  <2>2. CASE a.ptr
    <3> DEFINE q == a.path
    <3>1. q \in DOMAIN L[b]
      BY <1>1, <2>1, <2>2
    <3> HIDE DEF q
    <3>2. \E l \in Nodes(s) : l.path = q /\ l.home \in DOMAIN L[b]
      BY <3>1, GoodObject
    <3> QED
      BY <1>0, <3>2, NodeUnique DEF q
  <2> QED
    BY <1>1, <2>1, <2>2
<1>2. Start \in Nodes(s)
  BY <1>0, NodesClosed DEF Closed
<1>3. Start \in N
  <2>1. ASSUME NEW x \in Nodes(s), Under(x.path, Start.path)
        PROVE  x = Start
    <3>1. Start.path = <<>> /\ x.path \in Seq(Nat) /\ Start.path \in Seq(Nat)
      BY <1>0, <1>2, Home DEF Start
    <3>2. Len(x.path) <= Len(Start.path) /\ Len(Start.path) = 0 /\ Len(x.path) \in Nat
      BY <2>1, <3>1 DEF Under
    <3>3. Len(x.path) = Len(Start.path)
      BY <3>2
    <3>4. x.path = Start.path
      BY <2>1, <3>1, <3>3, UnderSame
    <3> QED
      BY <1>0, <1>2, <3>4, NodeUnique
  <2> QED
    BY <1>1, <1>2, <2>1
<1>4. ASSUME NEW a \in Nodes(s), There(a), a.type \in Types, NEW i \in DOMAIN s[a.type]
      PROVE  Below(s, a, i) \in N
  <2> DEFINE c == Below(s, a, i)
  <2>1. /\ c \in Nodes(s) /\ c.path = Append(a.path, i) /\ i \in Nat /\ c.home = a.obj
    <3>1. c \in Nodes(s) /\ i \in Nat
      BY <1>0, <1>4, BelowNode, FieldType
    <3> QED
      BY <3>1 DEF Below
  <2> HIDE DEF c
  <2> SUFFICES ASSUME c.obj \in DOMAIN L[b]
               PROVE  /\ c.home \in DOMAIN L[b]
                      /\ \A x \in Nodes(s) : Under(x.path, c.path) =>
                            x.obj \in DOMAIN L[b] /\ x.home \in DOMAIN L[b]
    BY <2>1 DEF c
  <2>2. c.home \in DOMAIN L[b]
    BY <1>1, <2>1
  <2>3. ASSUME NEW x \in Nodes(s), Under(x.path, c.path)
        PROVE  x.obj \in DOMAIN L[b] /\ x.home \in DOMAIN L[b]
    <3>1. x.path \in Seq(Nat) /\ a.path \in Seq(Nat)
      BY <1>0, <1>4, Home
    <3>2. x.path = c.path \/ Under(x.path, a.path)
      BY <2>1, <2>3, <3>1, UnderAppend
    <3>3. CASE x.path = c.path
      <4>1. x = c
        BY <1>0, <2>1, <3>3, NodeUnique
      <4> QED
        BY <2>2, <4>1
    <3>4. CASE Under(x.path, a.path)
      BY <1>4, <2>1, <2>2, <3>4
    <3> QED
      BY <3>2, <3>3, <3>4
  <2> QED
    BY <2>2, <2>3
<1>5. \A a \in Nodes(s) : a \in N /\ a.type \in Types =>
         \A i \in DOMAIN s[a.type] : Below(s, a, i) \in N
  BY <1>4
<1>6. Nodes(s) \subseteq N
  <2> HIDE DEF N
  <2> QED
    BY <1>0, <1>3, <1>5, NodeInduction
<1> QED
  BY <1>6

(***************************************************************************)
(* A cell: the value of the column c, whose field is the node n, in what   *)
(* the caller has kept as k.  The struct that was scanned into has the     *)
(* value of its last row; a copy of it is nobody's, has its own row's      *)
(* value if the field lies in it, and shares what lies behind pointers.    *)
(***************************************************************************)
SharedWay(s, h, L, k, n) ==
    \A m \in Nodes(s) : m.ptr /\ m.home = <<>> /\ Under(m.path, n.path) =>
        /\ m.path \in DOMAIN L[k.dest]
        /\ h[k.obj].words[m.off] = L[k.dest][m.path]
IsCopy(h, L, k) == k.obj \in DOMAIN h /\ ~Owns(L, k.obj) /\ h[k.obj].type = Root
Cell(s, h, L, k, n, c, last) ==
    /\ n.obj \in DOMAIN L[k.dest]
    /\ h[L[k.dest][n.obj]].words[n.word] = <<last, c>>
    /\ IsCopy(h, L, k) =>
          /\ ~n.marked => h[k.obj].words[n.word] = <<k.row, c>>
          /\ SharedWay(s, h, L, k, n)

(* What is kept stays as pointers are filled in and structs are made.      *)
LEMMA CellGrown ==
    ASSUME NEW s, NEW h, NEW L, NEW g, NEW M, Grown(s, h, L, g, M),
           NEW k, k.dest \in DOMAIN L, k.obj = k.dest \/ IsCopy(h, L, k),
           k.obj = k.dest => Owns(M, k.obj),
           NEW n \in Nodes(s), n.type = Scalar, NEW c, NEW last, Cell(s, h, L, k, n, c, last)
    PROVE  Cell(s, g, M, k, n, c, last)
<1>1. /\ DOMAIN L[k.dest] \subseteq DOMAIN M[k.dest]
      /\ \A q \in DOMAIN L[k.dest] : M[k.dest][q] = L[k.dest][q]
  BY DEF Grown
<1>2. /\ n.obj \in DOMAIN L[k.dest]
      /\ h[L[k.dest][n.obj]].words[n.word] = <<last, c>>
  BY DEF Cell
<1>3. g[L[k.dest][n.obj]].words[n.word] = <<last, c>>
  BY <1>2 DEF Grown
<1>4. ASSUME IsCopy(g, M, k)
      PROVE  /\ ~n.marked => g[k.obj].words[n.word] = <<k.row, c>>
             /\ SharedWay(s, g, M, k, n)
  <2>1. IsCopy(h, L, k)
    BY <1>4 DEF IsCopy
  <2>2. g[k.obj] = h[k.obj]
    BY <2>1 DEF IsCopy, Grown
  <2>3. /\ ~n.marked => h[k.obj].words[n.word] = <<k.row, c>>
        /\ SharedWay(s, h, L, k, n)
    BY <2>1 DEF Cell
  <2>4. SharedWay(s, g, M, k, n)
    BY <1>1, <2>2, <2>3 DEF SharedWay
  <2> QED
    BY <2>2, <2>3, <2>4
<1> QED
  BY <1>1, <1>2, <1>3, <1>4 DEF Cell

LEMMA CopyGrown ==
    ASSUME NEW s, NEW h \in Seq(Objects(s)), NEW L, NEW g \in Seq(Objects(s)), NEW M,
           Grown(s, h, L, g, M), NEW k, IsCopy(h, L, k)
    PROVE  IsCopy(g, M, k)
<1>1. DOMAIN h \subseteq DOMAIN g
  BY DEF Grown
<1> QED
  BY <1>1 DEF IsCopy, Grown

(* Reading a cell back. *)
LEMMA CellRead ==
    ASSUME shape \in Shapes, NEW h, NEW L, Good(shape, h, L), NEW k, k.dest \in DOMAIN L,
           k.obj = k.dest \/ IsCopy(h, L, k),
           NEW n \in Nodes(shape), NEW c, NEW last, Cell(shape, h, L, k, n, c, last)
    PROVE  ReadOnly(h, k.obj, n.path) =
              <<IF n.marked \/ k.obj = k.dest THEN last ELSE k.row, c>>
<1> DEFINE d == k.dest
<1>0. shape \in Declarations /\ h \in Seq(Objects(shape))
  BY Laid DEF Good
<1>1. /\ n.obj \in DOMAIN L[d] /\ h[L[d][n.obj]].words[n.word] = <<last, c>>
      /\ <<>> \in DOMAIN L[d] /\ L[d][<<>>] = d
  BY DEF Cell, Good
<1>2. n.marked <=> n.obj # <<>>
  BY <1>0, Home
<1>3. ASSUME NEW m \in Nodes(shape), Under(m.path, n.path)
      PROVE  /\ m.obj \in DOMAIN L[d] /\ m.home \in DOMAIN L[d]
             /\ L[d][m.obj] \in Nat
             /\ m.ptr => m.obj = m.path /\ h[L[d][m.home]].words[m.off] = L[d][m.obj]
  <2>1. m.obj \in DOMAIN L[d] /\ m.home \in DOMAIN L[d]
    BY <1>1, <1>3, WayThere
  <2>2. L[d][m.obj] \in Nat
    <3> DEFINE q == m.obj
    <3>1. q \in DOMAIN L[d]
      BY <2>1
    <3> HIDE DEF q
    <3> QED
      BY <3>1, GoodObject DEF q
  <2>3. m.obj = IF m.ptr THEN m.path ELSE m.home
    BY <1>0, Home
  <2>4. m.ptr => h[L[d][m.home]].words[m.off] = L[d][m.path]
    <3> SUFFICES ASSUME m.ptr PROVE h[L[d][m.home]].words[m.off] = L[d][m.path]
      OBVIOUS
    <3>1. m.path \in DOMAIN L[d]
      BY <2>1, <2>3
    <3> QED
      BY <2>1, <3>1 DEF Good
  <2> QED
    BY <2>1, <2>2, <2>3, <2>4
<1>4. CASE k.obj = d
  <2> DEFINE V == L[d]
  <2>1. Seen(h, V, n)
    BY <1>3 DEF Seen
  <2>2. ReadOnly(h, V[<<>>], n.path) = h[V[n.obj]].words[n.word]
    <3> HIDE DEF V
    <3> QED
      BY <2>1, ReadValue
  <2> QED
    BY <1>1, <1>4, <2>2
<1>5. CASE IsCopy(h, L, k)
  <2> DEFINE V == [q \in DOMAIN L[d] |-> IF q = <<>> THEN k.obj ELSE L[d][q]]
  <2>1. k.obj \in Nat /\ k.obj # d
    <3>1. k.obj \in Nat
      BY <1>0, <1>5 DEF IsCopy
    <3>2. ~Owns(L, k.obj) /\ Owns(L, d)
      BY <1>1, <1>5 DEF IsCopy, Owns
    <3> QED
      BY <3>1, <3>2
  <2>2. SharedWay(shape, h, L, k, n) /\ (~n.marked => h[k.obj].words[n.word] = <<k.row, c>>)
    BY <1>5 DEF Cell
  <2>3. \A q \in DOMAIN L[d] : V[q] = IF q = <<>> THEN k.obj ELSE L[d][q]
    OBVIOUS
  <2> HIDE DEF V
  <2>4. ASSUME NEW m \in Nodes(shape), Under(m.path, n.path)
        PROVE  V[m.obj] \in Nat /\ (m.ptr => h[V[m.home]].words[m.off] = V[m.obj])
    <3>1. V[m.obj] \in Nat
      BY <1>3, <2>1, <2>3, <2>4
    <3>2. ASSUME m.ptr
          PROVE  h[V[m.home]].words[m.off] = V[m.obj]
      <4>1. m.obj # <<>>
        <5>1. m # Start /\ m.path \in Seq(Nat) /\ Len(m.home) < Len(m.path) /\ m.home \in Seq(Nat)
          BY <1>0, <3>2, Home DEF Start
        <5>2. Len(m.path) # 0
          BY <5>1
        <5> QED
          BY <1>3, <2>4, <3>2, <5>2
      <4>2. V[m.obj] = L[d][m.obj] /\ m.obj = m.path
        BY <1>3, <2>3, <2>4, <3>2, <4>1
      <4>3. CASE m.home = <<>>
        <5>1. h[k.obj].words[m.off] = L[d][m.path]
          BY <2>2, <2>4, <3>2, <4>3 DEF SharedWay
        <5>2. V[m.home] = k.obj
          BY <1>3, <2>3, <2>4, <4>3
        <5> QED
          BY <4>2, <5>1, <5>2
      <4>4. CASE m.home # <<>>
        <5>1. V[m.home] = L[d][m.home]
          BY <1>3, <2>3, <2>4, <4>4
        <5> QED
          BY <1>3, <2>4, <3>2, <4>2, <5>1
      <4> QED
        BY <4>3, <4>4
    <3> QED
      BY <3>1, <3>2
  <2>5. Seen(h, V, n)
    BY <2>4 DEF Seen
  <2>6. ReadOnly(h, V[<<>>], n.path) = h[V[n.obj]].words[n.word]
    BY <2>5, ReadValue
  <2>7. V[<<>>] = k.obj
    BY <1>1, <2>3
  <2>8. CASE n.marked
    <3>1. V[n.obj] = L[d][n.obj]
      BY <1>1, <1>2, <2>3, <2>8
    <3> QED
      BY <1>1, <2>6, <2>7, <2>8, <3>1
  <2>9. CASE ~n.marked
    <3>1. V[n.obj] = k.obj
      BY <1>1, <1>2, <2>3, <2>9
    <3> QED
      BY <2>1, <2>2, <2>6, <2>7, <2>9, <3>1
  <2> QED
    BY <2>8, <2>9
<1> QED
  BY <1>4, <1>5

(* Memory with one more object that is nobody's. *)
LEMMA AppendGood ==
    ASSUME NEW s \in Shapes, NEW h, NEW L, Good(s, h, L), NEW o \in Objects(s),
           NEW g, g = Append(h, o), NEW k, k = Len(h) + 1
    PROVE  Good(s, g, L) /\ Grown(s, h, L, g, L) /\ ~Owns(L, k)
<1>1. h \in Seq(Objects(s)) /\ Len(h) \in Nat /\ DOMAIN h = 1..Len(h)
  BY DEF Good
<1>2. /\ g \in Seq(Objects(s)) /\ Len(g) = k /\ g[k] = o
      /\ DOMAIN h \subseteq DOMAIN g /\ \A p \in DOMAIN h : g[p] = h[p]
  BY <1>1
<1>3. k \notin DOMAIN h /\ Len(h) <= Len(g)
  BY <1>1, <1>2
<1>4. \A b \in DOMAIN L : \A q \in DOMAIN L[b] : L[b][q] \in DOMAIN h /\ g[L[b][q]] = h[L[b][q]]
  BY <1>2, GoodObject
<1>5. ~Owns(L, k)
  BY <1>3, <1>4 DEF Owns
<1>6. Grown(s, h, L, g, L)
  BY <1>2, <1>3, <1>4 DEF Grown
<1>7. Good(s, g, L)
  <2>1. \A b \in DOMAIN L : <<>> \in DOMAIN L[b] /\ L[b][<<>>] = b
    BY DEF Good
  <2>2. ASSUME NEW b \in DOMAIN L, NEW q \in DOMAIN L[b]
        PROVE  /\ L[b][q] \in DOMAIN g
               /\ \E n \in Nodes(s) : /\ n.path = q /\ n.obj = q /\ n.home \in DOMAIN L[b]
                                      /\ g[L[b][q]].type = n.type
    <3>1. \E n \in Nodes(s) : /\ n.path = q /\ n.obj = q /\ n.home \in DOMAIN L[b]
                              /\ h[L[b][q]].type = n.type
      BY DEF Good
    <3> QED
      BY <1>2, <1>4, <3>1
  <2>3. ASSUME NEW b \in DOMAIN L, NEW n \in Nodes(s), n.ptr, n.home \in DOMAIN L[b]
        PROVE  g[L[b][n.home]].words[n.off] = IF n.path \in DOMAIN L[b] THEN L[b][n.path] ELSE Nil
    <3>1. h[L[b][n.home]].words[n.off] = IF n.path \in DOMAIN L[b] THEN L[b][n.path] ELSE Nil
      BY <2>3 DEF Good
    <3>2. g[L[b][n.home]] = h[L[b][n.home]]
      BY <1>4, <2>3
    <3> QED
      BY <3>1, <3>2
  <2>4. \A b, c \in DOMAIN L : \A p \in DOMAIN L[b] : \A q \in DOMAIN L[c] :
           L[b][p] = L[c][q] => b = c /\ p = q
    BY DEF Good
  <2> QED
    BY <1>2, <2>1, <2>2, <2>3, <2>4 DEF Good
<1> QED
  BY <1>1, <1>2, <1>5, <1>6, <1>7

(* Memory with a new struct for the caller. *)
LEMMA NewGood ==
    ASSUME shape \in Shapes, NEW h, NEW L, Good(shape, h, L), NEW k, k = Len(h) + 1,
           NEW g, g = New(h, Root)
    PROVE  \E M : Good(shape, g, M) /\ Grown(shape, h, L, g, M) /\ k \in DOMAIN M
<1> DEFINE v == [q \in {<<>>} |-> k]
           M == [b \in DOMAIN L \cup {k} |-> IF b = k THEN v ELSE L[b]]
           o == [type |-> Root, words |-> Words0(Root)]
<1>0. /\ h \in Seq(Objects(shape)) /\ Len(h) \in Nat /\ k \in Nat /\ shape \in Declarations
      /\ DOMAIN h = 1..Len(h) /\ k \notin DOMAIN h
  BY Laid DEF Good
<1>1. /\ g \in Seq(Objects(shape)) /\ Len(g) = k /\ g[k].type = Root
      /\ \A w \in 0..(Size(shape, Root) - 1) : g[k].words[w] = Nil
  BY <1>0, NewType, TypesAssumption
<1>2. DOMAIN v = {<<>>} /\ v[<<>>] = k
  OBVIOUS
<1> HIDE DEF v
<1>3. DOMAIN M = DOMAIN L \cup {k} /\ M[k] = v /\ \A b \in DOMAIN L : b # k => M[b] = L[b]
  OBVIOUS
<1> HIDE DEF M
<1>4. g = Append(h, o) /\ o \in Objects(shape)
  <2>1. Words0(Root) \in [0..(Size(shape, Root) - 1) -> Contents]
    BY DEF Words0, Contents
  <2>2. o \in Objects(shape)
    BY <2>1, ObjectMade, TypesAssumption
  <2> QED
    BY <2>2 DEF New
<1> HIDE DEF o
<1>5. Good(shape, g, L) /\ Grown(shape, h, L, g, L) /\ ~Owns(L, k)
  BY <1>4, AppendGood
<1>6. k \notin DOMAIN L
  BY <1>5 DEF Good, Owns
<1>7. \A b \in DOMAIN L : M[b] = L[b]
  BY <1>3, <1>6
<1>8. Good(shape, g, M)
  <2>1. \A b \in DOMAIN M : <<>> \in DOMAIN M[b] /\ M[b][<<>>] = b
    BY <1>2, <1>3, <1>5, <1>7 DEF Good
  <2>2. ASSUME NEW b \in DOMAIN M, NEW q \in DOMAIN M[b]
        PROVE  /\ M[b][q] \in DOMAIN g
               /\ \E n \in Nodes(shape) : /\ n.path = q /\ n.obj = q /\ n.home \in DOMAIN M[b]
                                          /\ g[M[b][q]].type = n.type
    <3>1. CASE b = k
      <4>1. /\ Start \in Nodes(shape) /\ Start.path = <<>> /\ Start.obj = <<>>
            /\ Start.home = <<>> /\ Start.type = Root
        BY <1>0, NodesClosed DEF Closed, Start
      <4>2. q = <<>> /\ M[b][q] = k /\ k \in DOMAIN g /\ <<>> \in DOMAIN M[b]
        BY <1>0, <1>1, <1>2, <1>3, <3>1
      <4> QED
        BY <1>1, <4>1, <4>2
    <3>2. CASE b # k
      <4>1. b \in DOMAIN L /\ M[b] = L[b]
        BY <1>3, <3>2
      <4> QED
        BY <1>5, <4>1 DEF Good
    <3> QED
      BY <3>1, <3>2
  <2>3. ASSUME NEW b \in DOMAIN M, NEW n \in Nodes(shape), n.ptr, n.home \in DOMAIN M[b]
        PROVE  g[M[b][n.home]].words[n.off] = IF n.path \in DOMAIN M[b] THEN M[b][n.path] ELSE Nil
    <3>1. CASE b = k
      <4>1. n.home = <<>> /\ M[b][n.home] = k
        BY <1>2, <1>3, <2>3, <3>1
      <4>2. n.path \notin DOMAIN M[b]
        <5>1. n # Start
          BY <2>3 DEF Start
        <5>2. n.path \in Seq(Nat) /\ n.home \in Seq(Nat) /\ Len(n.home) < Len(n.path)
          BY <1>0, <5>1, Home
        <5>3. n.path # <<>>
          BY <4>1, <5>2
        <5> QED
          BY <1>2, <1>3, <3>1, <5>3
      <4>3. PICK m \in Nodes(shape) : m.path = n.home /\ n.off + Span(shape, n) <= Size(shape, m.type)
        BY InRange
      <4>4. m = Start
        <5>1. Start \in Nodes(shape) /\ Start.path = <<>>
          BY <1>0, NodesClosed DEF Closed, Start
        <5> QED
          BY <1>0, <4>1, <4>3, <5>1, NodeUnique
      <4>5. Span(shape, n) = 1 /\ n.off \in Nat /\ Size(shape, Root) \in Nat
        BY <1>0, <2>3, SpanType, Home, Laid, TypesAssumption
      <4>6. m.type = Root
        BY <4>4 DEF Start
      <4>7. n.off \in 0..(Size(shape, Root) - 1)
        BY <4>3, <4>5, <4>6
      <4> QED
        BY <1>1, <4>1, <4>2, <4>7
    <3>2. CASE b # k
      <4>1. b \in DOMAIN L /\ M[b] = L[b]
        BY <1>3, <3>2
      <4>2. n.home \in DOMAIN L[b]
        BY <2>3, <4>1
      <4>3. g[L[b][n.home]].words[n.off] = IF n.path \in DOMAIN L[b] THEN L[b][n.path] ELSE Nil
        BY <1>5, <2>3, <4>1, <4>2 DEF Good
      <4> QED
        BY <4>1, <4>3
    <3> QED
      BY <3>1, <3>2
  <2>4. ASSUME NEW b \in DOMAIN M, NEW c \in DOMAIN M, NEW p \in DOMAIN M[b], NEW q \in DOMAIN M[c],
               M[b][p] = M[c][q]
        PROVE  b = c /\ p = q
    <3>1. b = k => p = <<>> /\ M[b][p] = k
      BY <1>2, <1>3
    <3>2. c = k => q = <<>> /\ M[c][q] = k
      BY <1>2, <1>3
    <3>3. b # k => b \in DOMAIN L /\ M[b] = L[b] /\ M[b][p] # k
      BY <1>3, <1>5 DEF Owns
    <3>4. c # k => c \in DOMAIN L /\ M[c] = L[c] /\ M[c][q] # k
      BY <1>3, <1>5 DEF Owns
    <3>5. CASE b # k /\ c # k
      <4>1. /\ b \in DOMAIN L /\ c \in DOMAIN L /\ p \in DOMAIN L[b] /\ q \in DOMAIN L[c]
            /\ L[b][p] = L[c][q]
        BY <2>4, <3>3, <3>4, <3>5
      <4> QED
        BY <4>1 DEF Good
    <3> QED
      BY <2>4, <3>1, <3>2, <3>3, <3>4, <3>5
  <2> QED
    BY <1>1, <2>1, <2>2, <2>3, <2>4 DEF Good
<1>9. Grown(shape, h, L, g, M)
  <2>1. \A b \in DOMAIN L : /\ DOMAIN L[b] \subseteq DOMAIN M[b]
                            /\ \A q \in DOMAIN L[b] : M[b][q] = L[b][q]
    BY <1>7
  <2>2. ASSUME NEW p \in DOMAIN h, ~Owns(L, p)
        PROVE  ~Owns(M, p) /\ g[p] = h[p]
    <3>1. ASSUME NEW b \in DOMAIN M, NEW q \in DOMAIN M[b], M[b][q] = p
          PROVE  FALSE
      <4>1. b # k
        BY <1>0, <1>2, <1>3, <3>1
      <4>2. b \in DOMAIN L /\ M[b] = L[b]
        BY <1>3, <4>1
      <4> QED
        BY <2>2, <3>1, <4>2 DEF Owns
    <3> QED
      BY <1>5, <2>2, <3>1 DEF Owns, Grown
  <2> QED
    BY <1>3, <1>5, <2>1, <2>2 DEF Grown
<1> QED
  BY <1>3, <1>8, <1>9

(* The slot of a column: where the value of its field is. *)
LEMMA SlotThere ==
    ASSUME shape \in Shapes, NEW h, NEW L, Good(shape, h, L), NEW base \in DOMAIN L,
           NEW n \in Nodes(shape), NEW fi, Describes(fi, n)
    PROVE  \E M : /\ Good(shape, Slot(h, base, fi).heap, M)
                  /\ Grown(shape, h, L, Slot(h, base, fi).heap, M)
                  /\ n.obj \in DOMAIN M[base]
                  /\ Slot(h, base, fi).obj = M[base][n.obj]
                  /\ Slot(h, base, fi).word = n.word
<1>0. shape \in Declarations /\ h \in Seq(Objects(shape))
  BY Laid DEF Good
<1>1. fi.traversal = n.trav /\ fi.isPtrPath = n.marked /\ (~n.marked => fi.offset = n.word)
  BY DEF Describes
<1>2. CASE n.marked
  <2>1. PICK g, M : Walked(h, L, base, n, g, M)
    BY Walk
  <2>2. Slot(h, base, fi) = Addr(g, M[base][n.obj], n.word)
    BY <1>1, <1>2, <2>1 DEF Slot, Walked
  <2>3. /\ Slot(h, base, fi).heap = g /\ Slot(h, base, fi).obj = M[base][n.obj]
        /\ Slot(h, base, fi).word = n.word
    BY <2>2 DEF Addr
  <2> QED
    BY <2>1, <2>3 DEF Walked
<1>3. CASE ~n.marked
  <2>1. n.obj = <<>>
    BY <1>0, <1>3, Home
  <2>2. <<>> \in DOMAIN L[base] /\ L[base][<<>>] = base
    BY DEF Good
  <2>3. Slot(h, base, fi) = [heap |-> h, obj |-> base, word |-> n.word]
    BY <1>1, <1>3 DEF Slot
  <2>4. /\ Slot(h, base, fi).heap = h /\ Slot(h, base, fi).obj = base
        /\ Slot(h, base, fi).word = n.word
    BY <2>3
  <2>5. Grown(shape, h, L, h, L)
    <3>1. Len(h) \in Nat
      BY <1>0
    <3> QED
      BY <3>1, GrownSame
  <2> QED
    BY <2>1, <2>2, <2>4, <2>5
<1> QED
  BY <1>2, <1>3

-----------------------------------------------------------------------------
(* A row is scanned.                                                       *)

(* The field of a column, and its slot in the struct that is scanned into. *)
IsFieldOf(c, n) == Describes(names[c], n) /\ n.prefix = c /\ n.type = Scalar
SlotOf(L, c, n) ==
    /\ IsFieldOf(c, n) /\ n.obj \in DOMAIN L[dest]
    /\ scanDest[c] = [obj |-> L[dest][n.obj], word |-> n.word]
(* All is ready to scan a row. *)
Ready(L) ==
    /\ shape \in Shapes /\ Good(shape, heap, L) /\ dest \in DOMAIN L
    /\ row \in Nat /\ Columns \subseteq Seq(Words)
    /\ \A c \in Columns : \E n \in Nodes(shape) : SlotOf(L, c, n)
IsSlot(o, w) == \E c \in Columns : scanDest[c] = [obj |-> o, word |-> w]
After == [o \in DOMAIN heap |-> [heap[o] EXCEPT !.words = WordsAfter(o)]]

LEMMA SlotIs ==
    ASSUME NEW L, NEW c, NEW n, SlotOf(L, c, n), NEW o, NEW w,
           scanDest[c] = [obj |-> o, word |-> w]
    PROVE  L[dest][n.obj] = o /\ n.word = w
<1> DEFINE a == L[dest][n.obj]
           b == n.word
<1>1. [obj |-> a, word |-> b] = [obj |-> o, word |-> w]
  BY DEF SlotOf
<1> HIDE DEF a, b
<1>2. [obj |-> a, word |-> b].obj = [obj |-> o, word |-> w].obj
  BY <1>1
<1>3. [obj |-> a, word |-> b].word = [obj |-> o, word |-> w].word
  BY <1>1
<1>4. a = o /\ b = w
  BY <1>2, <1>3
<1> QED
  BY <1>4 DEF a, b

(* A column's value goes to the column's field, and to no other.           *)
LEMMA WrittenHere ==
    ASSUME NEW L, Ready(L), NEW c \in Columns, NEW n \in Nodes(shape), SlotOf(L, c, n)
    PROVE  WordsAfter(L[dest][n.obj])[n.word] = <<row + 1, c>>
<1> DEFINE o == L[dest][n.obj]
           w == n.word
           d == CHOOSE x \in Columns : scanDest[x] = [obj |-> o, word |-> w]
<1>0. shape \in Shapes /\ shape \in Declarations /\ Good(shape, heap, L) /\ dest \in DOMAIN L
  BY Laid DEF Ready
<1>1. w \in DOMAIN heap[o].words
  BY <1>0, WordThere DEF SlotOf, IsFieldOf
<1>2. scanDest[c] = [obj |-> o, word |-> w]
  BY DEF SlotOf
<1> HIDE DEF o, w
<1>3. d \in Columns /\ scanDest[d] = [obj |-> o, word |-> w]
  BY <1>2
<1>4. WordsAfter(o)[w] = <<row + 1, d>>
  BY <1>1, <1>2 DEF WordsAfter
<1> HIDE DEF d
<1>5. PICK m \in Nodes(shape) : SlotOf(L, d, m)
  BY <1>3 DEF Ready
<1>6. L[dest][m.obj] = o /\ m.word = w
  BY <1>3, <1>5, SlotIs
<1>7. m.obj = n.obj
  <2> DEFINE p == m.obj
             q == n.obj
  <2>1. p \in DOMAIN L[dest] /\ q \in DOMAIN L[dest] /\ L[dest][p] = L[dest][q]
    BY <1>5, <1>6 DEF SlotOf, o
  <2> HIDE DEF p, q
  <2>2. p = q
    BY <1>0, <2>1 DEF Good
  <2> QED
    BY <2>2 DEF p, q
<1>8. m = n
  BY <1>0, <1>5, <1>6, <1>7, OneScalar DEF SlotOf, IsFieldOf, w
<1>9. d = c
  BY <1>5, <1>8 DEF SlotOf, IsFieldOf
<1> QED
  BY <1>4, <1>9 DEF o, w

(* Nothing else is written: not what is nobody's, not another struct, and  *)
(* no pointer.                                                             *)
LEMMA NotWritten ==
    ASSUME NEW L, Ready(L), NEW o, NEW w \in DOMAIN heap[o].words,
           \/ ~Owns(L, o)
           \/ \E b \in DOMAIN L : b # dest /\ \E q \in DOMAIN L[b] : L[b][q] = o
           \/ \E b \in DOMAIN L : \E m \in Nodes(shape) :
                 m.ptr /\ m.home \in DOMAIN L[b] /\ L[b][m.home] = o /\ m.off = w
    PROVE  WordsAfter(o)[w] = heap[o].words[w]
<1>0. shape \in Shapes /\ shape \in Declarations /\ Good(shape, heap, L) /\ dest \in DOMAIN L
  BY Laid DEF Ready
<1>1. ASSUME NEW c \in Columns, scanDest[c] = [obj |-> o, word |-> w]
      PROVE  FALSE
  <2>1. PICK n \in Nodes(shape) : SlotOf(L, c, n)
    BY DEF Ready
  <2>2. L[dest][n.obj] = o /\ n.word = w /\ n.obj \in DOMAIN L[dest] /\ n.type = Scalar
    BY <1>1, <2>1, SlotIs DEF SlotOf, IsFieldOf
  <2> DEFINE p == n.obj
  <2>3. Owns(L, o)
    BY <1>0, <2>2 DEF Owns
  <2>4. ASSUME NEW b \in DOMAIN L, NEW q \in DOMAIN L[b], L[b][q] = o
        PROVE  b = dest /\ q = p
    <3>1. p \in DOMAIN L[dest] /\ L[b][q] = L[dest][p]
      BY <2>2, <2>4
    <3> HIDE DEF p
    <3> QED
      BY <1>0, <3>1 DEF Good
  <2>5. PICK b \in DOMAIN L, m \in Nodes(shape) :
           m.ptr /\ m.home \in DOMAIN L[b] /\ L[b][m.home] = o /\ m.off = w
    BY <2>3, <2>4
  <2>6. m.home = n.obj
    BY <2>4, <2>5
  <2> QED
    BY <1>0, <2>2, <2>5, <2>6, NoPointerThere
<1> QED
  BY <1>1 DEF WordsAfter

LEMMA AfterType ==
    ASSUME NEW L, Ready(L)
    PROVE  /\ After \in Seq(Objects(shape)) /\ Len(After) = Len(heap)
           /\ \A o \in DOMAIN heap :
                /\ After[o].type = heap[o].type /\ After[o].words = WordsAfter(o)
                /\ DOMAIN WordsAfter(o) = DOMAIN heap[o].words
<1>0. heap \in Seq(Objects(shape)) /\ row \in Nat /\ Columns \subseteq Seq(Words)
  BY DEF Ready, Good
<1>1. ASSUME NEW o \in DOMAIN heap
      PROVE  /\ After[o] \in Objects(shape) /\ After[o].type = heap[o].type
             /\ After[o].words = WordsAfter(o) /\ DOMAIN WordsAfter(o) = DOMAIN heap[o].words
  <2> DEFINE t == heap[o].type
             ws == heap[o].words
             us == WordsAfter(o)
             ob == heap[o]
  <2>1. ob \in Objects(shape)
    BY <1>0
  <2>2. /\ t \in Types \cup {Scalar} /\ ws \in [0..(Size(shape, t) - 1) -> Contents]
        /\ ob = [type |-> t, words |-> ws]
    <3> HIDE DEF ob
    <3>1. /\ ob.type \in Types \cup {Scalar}
          /\ ob.words \in [0..(Size(shape, ob.type) - 1) -> Contents]
          /\ ob = [type |-> ob.type, words |-> ob.words]
      BY <2>1, ObjectType
    <3> QED
      BY <3>1 DEF ob
  <2>3. us \in [DOMAIN ws -> Contents]
    <3>1. ASSUME NEW w \in DOMAIN ws
          PROVE  us[w] \in Contents
      <4>1. CASE IsSlot(o, w)
        <5> DEFINE d == CHOOSE c \in Columns : scanDest[c] = [obj |-> o, word |-> w]
        <5>1. d \in Columns
          BY <4>1 DEF IsSlot
        <5>2. us[w] = <<row + 1, d>>
          BY <3>1, <4>1 DEF WordsAfter, IsSlot
        <5> HIDE DEF d, us
        <5>3. row + 1 \in Nat /\ d \in Seq(Words)
          BY <1>0, <5>1
        <5> QED
          BY <5>2, <5>3 DEF Contents
      <4>2. CASE ~IsSlot(o, w)
        <5>1. us[w] = ws[w]
          BY <3>1, <4>2 DEF WordsAfter, IsSlot
        <5> HIDE DEF us, ws
        <5> QED
          BY <2>2, <3>1, <5>1
      <4> QED
        BY <4>1, <4>2
    <3>2. us = [w \in DOMAIN ws |-> us[w]]
      BY DEF WordsAfter
    <3> HIDE DEF us, ws
    <3> QED
      BY <3>1, <3>2
  <2>4. After[o] = [ob EXCEPT !.words = us]
    BY DEF After
  <2> HIDE DEF t, ws, us, ob
  <2>5. [ob EXCEPT !.words = us] = [type |-> t, words |-> us]
    BY <2>2
  <2>6. us \in [0..(Size(shape, t) - 1) -> Contents] /\ DOMAIN us = DOMAIN ws
    BY <2>2, <2>3
  <2>7. [type |-> t, words |-> us] \in Objects(shape)
    BY <2>2, <2>6, ObjectMade
  <2> QED
    BY <2>4, <2>5, <2>6, <2>7 DEF t, ws, us, ob
<1>2. DOMAIN After = DOMAIN heap
  BY DEF After
<1>3. After = [o \in DOMAIN heap |-> After[o]]
  BY DEF After
<1> HIDE DEF After
<1>4. After \in Seq(Objects(shape)) /\ Len(After) = Len(heap)
  <2>1. Len(heap) \in Nat /\ DOMAIN heap = 1..Len(heap)
    BY <1>0
  <2>2. After \in [1..Len(heap) -> Objects(shape)]
    BY <1>1, <1>3, <2>1
  <2> QED
    BY <2>1, <2>2
<1> QED
  BY <1>1, <1>4

LEMMA ScanGood ==
    ASSUME NEW L, Ready(L)
    PROVE  Good(shape, After, L)
<1>0. Good(shape, heap, L) /\ heap \in Seq(Objects(shape)) /\ shape \in Shapes
  BY DEF Ready, Good
<1>1. /\ After \in Seq(Objects(shape)) /\ DOMAIN After = DOMAIN heap
      /\ \A o \in DOMAIN heap : After[o].type = heap[o].type /\ After[o].words = WordsAfter(o)
  <2>1. /\ After \in Seq(Objects(shape)) /\ Len(After) = Len(heap)
        /\ \A o \in DOMAIN heap : After[o].type = heap[o].type /\ After[o].words = WordsAfter(o)
    BY AfterType
  <2>2. DOMAIN After = 1..Len(After) /\ DOMAIN heap = 1..Len(heap)
    BY <1>0, <2>1
  <2> QED
    BY <2>1, <2>2
<1> HIDE DEF After
<1>2. \A b \in DOMAIN L : <<>> \in DOMAIN L[b] /\ L[b][<<>>] = b
  BY <1>0 DEF Good
<1>3. ASSUME NEW b \in DOMAIN L, NEW q \in DOMAIN L[b]
      PROVE  /\ L[b][q] \in DOMAIN After
             /\ \E n \in Nodes(shape) : /\ n.path = q /\ n.obj = q /\ n.home \in DOMAIN L[b]
                                        /\ After[L[b][q]].type = n.type
  <2>1. /\ L[b][q] \in DOMAIN heap
        /\ \E n \in Nodes(shape) : /\ n.path = q /\ n.obj = q /\ n.home \in DOMAIN L[b]
                                   /\ heap[L[b][q]].type = n.type
    BY <1>0 DEF Good
  <2>2. After[L[b][q]].type = heap[L[b][q]].type
    BY <1>1, <2>1
  <2> QED
    BY <1>1, <2>1, <2>2
<1>4. ASSUME NEW b \in DOMAIN L, NEW n \in Nodes(shape), n.ptr, n.home \in DOMAIN L[b]
      PROVE  After[L[b][n.home]].words[n.off] = IF n.path \in DOMAIN L[b] THEN L[b][n.path] ELSE Nil
  <2> DEFINE o == L[b][n.home]
             w == n.off
  <2>1. heap[o].words[w] = IF n.path \in DOMAIN L[b] THEN L[b][n.path] ELSE Nil
    BY <1>0, <1>4 DEF Good
  <2>2. o \in DOMAIN heap /\ w \in DOMAIN heap[o].words
    BY <1>0, <1>4, GoodObject, WordThere
  <2>3. \E c \in DOMAIN L : \E m \in Nodes(shape) :
           m.ptr /\ m.home \in DOMAIN L[c] /\ L[c][m.home] = o /\ m.off = w
    BY <1>4
  <2> HIDE DEF o, w
  <2>4. WordsAfter(o)[w] = heap[o].words[w]
    BY <2>2, <2>3, NotWritten
  <2>5. After[o].words[w] = heap[o].words[w]
    BY <1>1, <2>2, <2>4
  <2> QED
    BY <2>1, <2>5 DEF o, w
<1>5. \A b, c \in DOMAIN L : \A p \in DOMAIN L[b] : \A q \in DOMAIN L[c] :
         L[b][p] = L[c][q] => b = c /\ p = q
  BY <1>0 DEF Good
<1> QED
  BY <1>1, <1>2, <1>3, <1>4, <1>5 DEF Good

LEMMA CopyWord ==
    ASSUME NEW s \in Shapes, NEW h \in Seq(Objects(s)), NEW L, NEW k, IsCopy(h, L, k),
           NEW n \in Nodes(s)
    PROVE  /\ n.type = Scalar /\ n.obj = <<>> => n.word \in DOMAIN h[k.obj].words
           /\ n.ptr /\ n.home = <<>> => n.off \in DOMAIN h[k.obj].words
<1> DEFINE o == k.obj
           z == Size(s, Root)
<1>0. s \in Declarations /\ z \in Nat
  BY Laid, TypesAssumption
<1>1. h[o].words \in [0..(z - 1) -> Contents]
  <2>1. o \in DOMAIN h /\ h[o].type = Root
    BY DEF IsCopy
  <2> HIDE DEF o
  <2>2. h[o] \in Objects(s)
    BY <2>1
  <2> QED
    BY <2>1, <2>2, ObjectType
<1>2. Start \in Nodes(s) /\ Start.path = <<>> /\ Start.type = Root
  BY <1>0, NodesClosed DEF Closed, Start
<1> HIDE DEF o
<1>3. ASSUME n.type = Scalar, n.obj = <<>>
      PROVE  n.word \in DOMAIN h[o].words
  <2>1. PICK m \in Nodes(s) : m.path = n.obj /\ n.word \in 0..(Size(s, m.type) - 1)
    BY <1>3, ScalarInRange
  <2>2. m = Start
    BY <1>0, <1>2, <1>3, <2>1, NodeUnique
  <2> QED
    BY <1>1, <1>2, <2>1, <2>2
<1>4. ASSUME n.ptr, n.home = <<>>
      PROVE  n.off \in DOMAIN h[o].words
  <2>1. PICK m \in Nodes(s) : m.path = n.home /\ n.off + Span(s, n) <= Size(s, m.type)
    BY InRange
  <2>2. m = Start
    BY <1>0, <1>2, <1>4, <2>1, NodeUnique
  <2>3. Span(s, n) = 1 /\ n.off \in Nat /\ m.type = Root
    BY <1>0, <1>2, <1>4, <2>2, SpanType, Home
  <2>4. n.off \in 0..(z - 1)
    BY <1>0, <2>1, <2>3
  <2> QED
    BY <1>1, <2>4
<1> QED
  BY <1>3, <1>4 DEF o

(* What is kept when a row is scanned: the struct that was scanned into    *)
(* has the new row's value, another struct its own.                        *)
LEMMA CellScanned ==
    ASSUME NEW L, Ready(L), NEW k, k.dest \in DOMAIN L,
           NEW c \in Columns, NEW n \in Nodes(shape), Describes(names[c], n), n.type = Scalar,
           NEW last, Cell(shape, heap, L, k, n, c, last),
           k.obj = k.dest \/ IsCopy(heap, L, k),
           NEW now, now = IF k.dest = dest THEN row + 1 ELSE last
    PROVE  Cell(shape, After, L, k, n, c, now)
<1>0. /\ shape \in Shapes /\ shape \in Declarations /\ Good(shape, heap, L) /\ dest \in DOMAIN L
      /\ heap \in Seq(Objects(shape))
  BY Laid DEF Ready, Good
<1>1. PICK m \in Nodes(shape) : SlotOf(L, c, m)
  BY DEF Ready
<1>2. m = n
  BY <1>0, <1>1, NodeUnique DEF SlotOf, IsFieldOf, Describes
<1>3. \A o \in DOMAIN heap : After[o].type = heap[o].type /\ After[o].words = WordsAfter(o)
  BY AfterType
<1>4. DOMAIN After = DOMAIN heap
  BY DEF After
<1> HIDE DEF After
<1>5. /\ n.obj \in DOMAIN L[k.dest]
      /\ heap[L[k.dest][n.obj]].words[n.word] = <<last, c>>
      /\ IsCopy(heap, L, k) =>
            /\ ~n.marked => heap[k.obj].words[n.word] = <<k.row, c>>
            /\ SharedWay(shape, heap, L, k, n)
  BY DEF Cell
<1> DEFINE o == L[k.dest][n.obj]
           w == n.word
<1>6. o \in DOMAIN heap /\ w \in DOMAIN heap[o].words
  BY <1>0, <1>5, GoodObject, WordThere
<1>7. After[o].words[w] = <<now, c>>
  <2>1. CASE k.dest = dest
    <3>1. WordsAfter(o)[w] = <<row + 1, c>>
      BY <1>1, <1>2, <2>1, WrittenHere
    <3> HIDE DEF o, w
    <3> QED
      BY <1>3, <1>6, <2>1, <3>1
  <2>2. CASE k.dest # dest
    <3>1. \E b \in DOMAIN L : b # dest /\ \E q \in DOMAIN L[b] : L[b][q] = o
      BY <1>5, <2>2
    <3>2. heap[o].words[w] = <<last, c>>
      BY <1>5
    <3> HIDE DEF o, w
    <3>3. WordsAfter(o)[w] = heap[o].words[w]
      BY <1>6, <3>1, NotWritten
    <3> QED
      BY <1>3, <1>6, <2>2, <3>2, <3>3
  <2> QED
    BY <2>1, <2>2
<1>8. ASSUME IsCopy(After, L, k)
      PROVE  /\ ~n.marked => After[k.obj].words[n.word] = <<k.row, c>>
             /\ SharedWay(shape, After, L, k, n)
  <2>1. IsCopy(heap, L, k)
    BY <1>3, <1>4, <1>8 DEF IsCopy
  <2> DEFINE a == k.obj
  <2>2. a \in DOMAIN heap /\ ~Owns(L, a)
    BY <2>1 DEF IsCopy
  <2>3. ASSUME NEW x \in DOMAIN heap[a].words
        PROVE  After[a].words[x] = heap[a].words[x]
    <3> HIDE DEF a
    <3>1. WordsAfter(a)[x] = heap[a].words[x]
      BY <2>2, <2>3, NotWritten
    <3> QED
      BY <1>3, <2>2, <3>1
  <2>4. ASSUME ~n.marked
        PROVE  After[a].words[n.word] = <<k.row, c>>
    <3>1. n.obj = <<>>
      BY <1>0, <2>4, Home
    <3>2. n.word \in DOMAIN heap[a].words
      BY <1>0, <2>1, <3>1, CopyWord
    <3>3. heap[a].words[n.word] = <<k.row, c>>
      BY <1>5, <2>1, <2>4
    <3> QED
      BY <2>3, <3>2, <3>3
  <2>5. ASSUME NEW x \in Nodes(shape), x.ptr, x.home = <<>>, Under(x.path, n.path)
        PROVE  x.path \in DOMAIN L[k.dest] /\ After[a].words[x.off] = L[k.dest][x.path]
    <3>1. x.path \in DOMAIN L[k.dest] /\ heap[a].words[x.off] = L[k.dest][x.path]
      BY <1>5, <2>1, <2>5 DEF SharedWay
    <3>2. x.off \in DOMAIN heap[a].words
      BY <1>0, <2>1, <2>5, CopyWord
    <3> QED
      BY <2>3, <3>1, <3>2
  <2>6. SharedWay(shape, After, L, k, n)
    BY <2>5 DEF SharedWay
  <2> QED
    BY <2>4, <2>6
<1> QED
  BY <1>5, <1>7, <1>8 DEF Cell

(* A row as it is kept. *)
LEMMA CellNew ==
    ASSUME NEW L, Ready(L), NEW c \in Columns, NEW n \in Nodes(shape), SlotOf(L, c, n),
           NEW k, k.dest = dest, k.row = row + 1,
           NEW g, \/ k.obj = dest /\ g = After
                  \/ k.obj = Len(heap) + 1 /\ g = Append(After, After[dest])
    PROVE  Cell(shape, g, L, k, n, c, row + 1)
<1>0. /\ shape \in Shapes /\ shape \in Declarations /\ Good(shape, heap, L) /\ dest \in DOMAIN L
      /\ heap \in Seq(Objects(shape)) /\ Len(heap) \in Nat
  BY Laid DEF Ready, Good
<1>1. /\ After \in Seq(Objects(shape)) /\ Len(After) = Len(heap)
      /\ \A o \in DOMAIN heap : After[o].type = heap[o].type /\ After[o].words = WordsAfter(o)
  BY AfterType
<1>2. Good(shape, After, L)
  BY ScanGood
<1> HIDE DEF After
<1>3. /\ n.obj \in DOMAIN L[dest] /\ L[dest][n.obj] \in DOMAIN heap
      /\ <<>> \in DOMAIN L[dest] /\ L[dest][<<>>] = dest /\ dest \in DOMAIN heap
  <2>1. n.obj \in DOMAIN L[dest] /\ <<>> \in DOMAIN L[dest] /\ L[dest][<<>>] = dest
    BY <1>0 DEF SlotOf, Good
  <2> QED
    BY <1>0, <2>1 DEF Good
<1>4. After[L[dest][n.obj]].words[n.word] = <<row + 1, c>>
  <2>1. WordsAfter(L[dest][n.obj])[n.word] = <<row + 1, c>>
    BY WrittenHere
  <2> QED
    BY <1>1, <1>3, <2>1
<1>5. \A o \in DOMAIN heap : g[o] = After[o]
  BY <1>0, <1>1
<1>6. g[L[dest][n.obj]].words[n.word] = <<row + 1, c>>
  BY <1>3, <1>4, <1>5
<1>7. ASSUME IsCopy(g, L, k)
      PROVE  /\ ~n.marked => g[k.obj].words[n.word] = <<k.row, c>>
             /\ SharedWay(shape, g, L, k, n)
  <2>1. k.obj # dest
    BY <1>0, <1>3, <1>7 DEF IsCopy, Owns
  <2>2. g[k.obj] = After[dest]
    <3>1. k.obj = Len(After) + 1 /\ g = Append(After, After[dest])
      BY <1>1, <2>1
    <3> DEFINE x == After[dest]
    <3> HIDE DEF x
    <3>2. Append(After, x)[Len(After) + 1] = x
      BY <1>1
    <3> QED
      BY <3>1, <3>2 DEF x
  <2>3. ~n.marked => n.obj = <<>>
    BY <1>0, Home
  <2>4. ASSUME NEW x \in Nodes(shape), x.ptr, x.home = <<>>, Under(x.path, n.path)
        PROVE  x.path \in DOMAIN L[dest] /\ g[k.obj].words[x.off] = L[dest][x.path]
    <3>1. x.obj \in DOMAIN L[dest] /\ x.obj = x.path
      BY <1>0, <1>3, <2>4, WayThere, Home
    <3>2. x.path \in DOMAIN L[dest] /\ x.home \in DOMAIN L[dest] /\ L[dest][x.home] = dest
      BY <1>3, <2>4, <3>1
    <3>3. After[L[dest][x.home]].words[x.off] = L[dest][x.path]
      <4>1. After[L[dest][x.home]].words[x.off] =
               IF x.path \in DOMAIN L[dest] THEN L[dest][x.path] ELSE Nil
        BY <1>0, <1>2, <2>4, <3>2 DEF Good
      <4> QED
        BY <3>2, <4>1
    <3> QED
      BY <2>2, <3>2, <3>3
  <2>5. SharedWay(shape, g, L, k, n)
    BY <2>4 DEF SharedWay
  <2> QED
    BY <1>3, <1>4, <2>2, <2>3, <2>5
<1> QED
  BY <1>3, <1>6, <1>7 DEF Cell

(* The last row that was scanned into a struct. *)
RowsInto(kp, d) == {k.row : k \in {kp[i] : i \in {j \in DOMAIN kp : kp[j].dest = d}}}

LEMMA LastRow ==
    ASSUME NEW kp, NEW d, NEW r \in Nat, \E i \in DOMAIN kp : kp[i].dest = d /\ kp[i].row = r,
           \A i \in DOMAIN kp : kp[i].row \in Nat /\ kp[i].row <= r
    PROVE  Max(RowsInto(kp, d)) = r
<1> DEFINE R == RowsInto(kp, d)
<1>1. r \in R /\ \A x \in R : x \in Nat /\ x <= r
  BY DEF RowsInto
<1> HIDE DEF R
<1>2. Max(R) \in R /\ \A x \in R : Max(R) >= x
  <2>1. r \in R /\ \A x \in R : r >= x
    BY <1>1
  <2> QED
    BY <2>1 DEF Max
<1>3. Max(R) = r
  <2> DEFINE m == Max(R)
  <2>1. m \in R /\ m >= r
    BY <1>1, <1>2
  <2> HIDE DEF m
  <2>2. m \in Nat /\ m <= r
    BY <1>1, <2>1
  <2>3. m = r
    BY <2>1, <2>2
  <2> QED
    BY <2>3 DEF m
<1> QED
  BY <1>3 DEF R

(***************************************************************************)
(* The inductive invariant: the maps describe nodes, memory is as L says,  *)
(* the slots that are filled are those of their columns' fields, and every *)
(* row that is kept has the cells it should have.                          *)
(***************************************************************************)
Keeps(L, k) ==
    /\ k.dest \in DOMAIN L /\ k.row \in 1..row
    /\ k.obj = k.dest \/ IsCopy(heap, L, k)
    /\ \A c \in Columns : \E n \in Nodes(shape) :
          /\ Describes(names[c], n) /\ n.type = Scalar
          /\ Cell(shape, heap, L, k, n, c, LastInto(k.dest))
Slots(L) ==
    \A c \in DOMAIN scanDest :
        c \in Columns /\ dest # 0 /\ \E n \in Nodes(shape) : SlotOf(L, c, n)
Memory(L) ==
    /\ Good(shape, heap, L)
    /\ dest # 0 => dest \in DOMAIN L
    /\ Slots(L)
    /\ \A i \in DOMAIN kept : Keeps(L, kept[i])
Nothing == heap = <<>> /\ dest = 0 /\ DOMAIN scanDest = {} /\ kept = <<>>
Kept == [obj : Nat, row : Nat, dest : Nat]
ScanInv ==
    /\ Inv /\ FramesAreNodes /\ EntriesAreNodes /\ shape \in Shapes
    /\ dest \in Nat /\ row \in 0..MaxRows /\ kept \in Seq(Kept)
    /\ stack # <<>> => Nothing
    /\ \E L : Memory(L)

LEMMA NothingMemory ==
    ASSUME Nothing
    PROVE  \E L : Memory(L)
<1> DEFINE L == [b \in {} |-> [q \in {<<>>} |-> 0]]
<1>1. DOMAIN L = {}
  OBVIOUS
<1> HIDE DEF L
<1>2. heap \in Seq(Objects(shape)) /\ DOMAIN kept = {}
  BY DEF Nothing
<1>3. Good(shape, heap, L)
  BY <1>1, <1>2 DEF Good
<1>4. Memory(L)
  BY <1>2, <1>3 DEF Memory, Nothing, Slots
<1> QED
  BY <1>4

LEMMA InitScan == Init => ScanInv
<1> SUFFICES ASSUME Init PROVE ScanInv
  OBVIOUS
<1>1. Inv /\ FramesAreNodes /\ EntriesAreNodes
  BY InitInv, InitNodes DEF Init
<1>2. shape \in Shapes
  BY DEF Init, MapInit
<1>3. heap = <<>> /\ dest = 0 /\ row = 0 /\ DOMAIN scanDest = {} /\ kept = <<>>
  BY DEF Init
<1>4. dest \in Nat /\ row \in 0..MaxRows /\ kept \in Seq(Kept)
  BY <1>3, MaxRowsAssumption
<1>5. \E L : Memory(L)
  BY <1>3, NothingMemory DEF Nothing
<1> QED
  BY <1>1, <1>2, <1>3, <1>4, <1>5 DEF ScanInv, Nothing

(* A column has a field of its own. *)
LEMMA ColumnField ==
    ASSUME Inv, EntriesAreNodes, NEW c \in Columns
    PROVE  c \in Seq(Words) /\ \E n \in Nodes(shape) : IsFieldOf(c, n)
<1>1. c \in DOMAIN paths /\ names[c].targetType = Scalar /\ c \in DOMAIN names
      /\ names[c] = paths[c]
  BY DEF Columns, Inv, PathWinsOverBareName
<1>2. c \in Seq(Words)
  BY <1>1 DEF Inv, MapTypeOK, IsMap
<1>3. PICK n \in Nodes(shape) : IsEntryOf(names[c], n)
  BY <1>1 DEF EntriesAreNodes
<1>4. names[c].path = c
  BY <1>1 DEF EntriesAreNodes
<1>5. n.type = Scalar /\ n.prefix = c
  BY <1>1, <1>3, <1>4 DEF IsEntryOf, Describes
<1> QED
  BY <1>2, <1>3, <1>5 DEF IsFieldOf, IsEntryOf

(* The maps when they do not change. *)
LEMMA MapsSame ==
    ASSUME Inv, FramesAreNodes, EntriesAreNodes, UNCHANGED mapVars
    PROVE  /\ Inv' /\ FramesAreNodes' /\ EntriesAreNodes'
           /\ Columns' = Columns /\ shape' = shape /\ names' = names /\ paths' = paths
           /\ stack' = stack
<1>1. [MapNext]_mapVars
  OBVIOUS
<1>2. Inv'
  BY <1>1, NextInv
<1>3. FramesAreNodes' /\ EntriesAreNodes'
  BY <1>1, NextNodes
<1>4. shape' = shape /\ names' = names /\ paths' = paths /\ stack' = stack
  BY DEF mapVars
<1>5. Columns' = Columns
  BY <1>4 DEF Columns
<1> QED
  BY <1>2, <1>3, <1>4, <1>5

(* What is kept, and the slots, as pointers are filled in and structs made.*)
LEMMA KeptGrown ==
    ASSUME shape \in Shapes, NEW L, Memory(L), NEW M, Good(shape, heap', M),
           Grown(shape, heap, L, heap', M), Columns' = Columns,
           UNCHANGED <<shape, names, kept, row>>
    PROVE  (\A i \in DOMAIN kept : Keeps(M, kept[i]))'
<1>1. shape' = shape /\ names' = names /\ kept' = kept /\ row' = row
  OBVIOUS
<1> SUFFICES ASSUME NEW i \in DOMAIN kept
             PROVE  Keeps(M, kept[i])'
  BY <1>1
<1> DEFINE k == kept[i]
<1>2. Keeps(L, k)
  BY DEF Memory
<1>3. heap \in Seq(Objects(shape)) /\ heap' \in Seq(Objects(shape))
  BY DEF Memory, Good
<1> HIDE DEF k
<1>4. k.dest \in DOMAIN L /\ k.row \in 1..row /\ (k.obj = k.dest \/ IsCopy(heap, L, k))
  BY <1>2 DEF Keeps
<1>5. k.dest \in DOMAIN M
  BY <1>4 DEF Grown
<1>6. k.obj = k.dest \/ IsCopy(heap', M, k)
  BY <1>3, <1>4, CopyGrown
<1>7. k.obj = k.dest => Owns(M, k.obj)
  BY <1>5 DEF Good, Owns
<1>8. LastInto(k.dest)' = LastInto(k.dest)
  <2>1. k' = k
    BY <1>1 DEF k
  <2> QED
    BY <1>1, <2>1 DEF LastInto
<1>9. ASSUME NEW c \in Columns
      PROVE  \E n \in Nodes(shape) : /\ Describes(names[c], n) /\ n.type = Scalar
                                     /\ Cell(shape, heap', M, k, n, c, LastInto(k.dest))
  <2>1. PICK n \in Nodes(shape) : /\ Describes(names[c], n) /\ n.type = Scalar
                                  /\ Cell(shape, heap, L, k, n, c, LastInto(k.dest))
    BY <1>2 DEF Keeps
  <2>2. Cell(shape, heap', M, k, n, c, LastInto(k.dest))
    <3> DEFINE last == LastInto(k.dest)
    <3>1. Cell(shape, heap, L, k, n, c, last)
      BY <2>1
    <3> HIDE DEF last
    <3>2. Cell(shape, heap', M, k, n, c, last)
      BY <1>4, <1>7, <2>1, <3>1, CellGrown
    <3> QED
      BY <3>2 DEF last
  <2> QED
    BY <2>1, <2>2
<1>10. \A c \in Columns' : \E n \in Nodes(shape') :
          /\ Describes(names'[c], n) /\ n.type = Scalar
          /\ Cell(shape', heap', M, k, n, c, LastInto(k.dest)')
  BY <1>1, <1>8, <1>9
<1>11. k' = k
  BY <1>1 DEF k
<1> QED
  BY <1>1, <1>4, <1>5, <1>6, <1>10, <1>11 DEF Keeps, k

LEMMA SlotGrown ==
    ASSUME NEW L, NEW M, Grown(shape, heap, L, heap', M), dest \in DOMAIN L,
           UNCHANGED <<names, dest>>, NEW c, scanDest'[c] = scanDest[c],
           NEW n, SlotOf(L, c, n)
    PROVE  SlotOf(M, c, n)'
<1>1. n.obj \in DOMAIN M[dest] /\ M[dest][n.obj] = L[dest][n.obj]
  BY DEF SlotOf, Grown
<1> QED
  BY <1>1 DEF SlotOf, IsFieldOf, Describes

-----------------------------------------------------------------------------
(* Every step keeps the invariant.                                         *)

LEMMA MapScan == ScanInv /\ Map => ScanInv'
<1> SUFFICES ASSUME ScanInv, Map PROVE ScanInv'
  OBVIOUS
<1>1. Inv /\ FramesAreNodes /\ EntriesAreNodes /\ [MapNext]_mapVars
  BY DEF ScanInv, Map
<1>2. Inv' /\ FramesAreNodes' /\ EntriesAreNodes'
  BY <1>1, NextInv, NextNodes
<1>3. stack # <<>>
  BY DEF Map, MapNext, SkipField, MapLeaf, Descend, DescendIf, Return, Leave, MoreFields
<1>4. Nothing /\ heap' = heap /\ dest' = dest /\ row' = row /\ scanDest' = scanDest /\ kept' = kept
  BY <1>3 DEF ScanInv, Map, scanVars
<1>5. Nothing'
  BY <1>4 DEF Nothing
<1>6. (\E L : Memory(L))'
  BY <1>5, NothingMemory, PTL
<1>7. shape' \in Shapes
  BY DEF Map, MapNext, SkipField, MapLeaf, Descend, DescendIf, Return, Leave, ScanInv
<1>8. dest' \in Nat /\ row' \in 0..MaxRows /\ kept' \in Seq(Kept)
  BY <1>4 DEF ScanInv
<1> QED
  BY <1>2, <1>5, <1>6, <1>7, <1>8 DEF ScanInv

LEMMA FinishedScan == ScanInv /\ UNCHANGED vars => ScanInv'
<1> SUFFICES ASSUME ScanInv, UNCHANGED vars PROVE ScanInv'
  OBVIOUS
<1>1. UNCHANGED mapVars /\ heap' = heap /\ dest' = dest /\ row' = row /\ scanDest' = scanDest
      /\ kept' = kept
  BY DEF vars, mapVars
<1>2. /\ Inv' /\ FramesAreNodes' /\ EntriesAreNodes'
      /\ Columns' = Columns /\ shape' = shape /\ names' = names /\ paths' = paths /\ stack' = stack
  BY <1>1, MapsSame DEF ScanInv
<1>3. PICK L : Memory(L)
  BY DEF ScanInv
<1>4. Grown(shape, heap, L, heap', L) /\ Good(shape, heap', L)
  <2>1. Len(heap) \in Nat
    BY <1>3 DEF Memory, Good
  <2> QED
    BY <1>1, <1>3, <2>1, GrownSame DEF Memory
<1>5. (\A i \in DOMAIN kept : Keeps(L, kept[i]))'
  BY <1>1, <1>2, <1>3, <1>4, KeptGrown DEF ScanInv
<1>6. Slots(L)'
  <2>1. ASSUME NEW c \in DOMAIN scanDest
        PROVE  c \in Columns /\ dest # 0 /\ \E n \in Nodes(shape) : SlotOf(L, c, n)'
    <3>1. c \in Columns /\ dest # 0 /\ \E n \in Nodes(shape) : SlotOf(L, c, n)
      BY <1>3 DEF Memory, Slots
    <3>2. dest \in DOMAIN L /\ scanDest'[c] = scanDest[c]
      BY <1>1, <1>3, <3>1 DEF Memory
    <3> QED
      BY <1>1, <1>2, <1>4, <3>1, <3>2, SlotGrown
  <2> QED
    BY <1>1, <1>2, <2>1 DEF Slots
<1>7. Memory(L)'
  BY <1>1, <1>2, <1>3, <1>4, <1>5, <1>6 DEF Memory
<1>8. (stack # <<>> => Nothing)'
  BY <1>1, <1>2 DEF ScanInv, Nothing
<1> QED
  BY <1>1, <1>2, <1>7, <1>8 DEF ScanInv

(* A step that fills in pointers, or makes a struct, once the map is done. *)
LEMMA GrowScan ==
    ASSUME ScanInv, Mapped, UNCHANGED <<mapVars, row, kept>>,
           NEW L, Memory(L), NEW M, Good(shape, heap', M), Grown(shape, heap, L, heap', M),
           dest' # 0, dest' \in DOMAIN M, Slots(M)'
    PROVE  ScanInv'
<1>1. UNCHANGED mapVars /\ row' = row /\ kept' = kept
  OBVIOUS
<1>2. /\ Inv' /\ FramesAreNodes' /\ EntriesAreNodes'
      /\ Columns' = Columns /\ shape' = shape /\ names' = names /\ paths' = paths /\ stack' = stack
  BY <1>1, MapsSame DEF ScanInv
<1>3. (\A i \in DOMAIN kept : Keeps(M, kept[i]))'
  BY <1>1, <1>2, KeptGrown DEF ScanInv
<1>4. Memory(M)'
  BY <1>2, <1>3 DEF Memory
<1>5. dest' \in Nat
  <2>1. M[dest'][<<>>] = dest' /\ <<>> \in DOMAIN M[dest'] /\ heap' \in Seq(Objects(shape))
    BY DEF Good
  <2>2. M[dest'][<<>>] \in DOMAIN heap'
    BY <2>1 DEF Good
  <2> QED
    BY <2>1, <2>2
<1> QED
  BY <1>1, <1>2, <1>4, <1>5 DEF ScanInv, Mapped

LEMMA NewDestScan == ScanInv /\ NewDest => ScanInv'
<1> SUFFICES ASSUME ScanInv, NewDest PROVE ScanInv'
  OBVIOUS
<1>1. /\ Mapped /\ DOMAIN scanDest = {} /\ heap' = New(heap, Root) /\ dest' = Len(heap) + 1
      /\ UNCHANGED <<mapVars, row, kept>> /\ scanDest' = scanDest
  BY DEF NewDest, Idle
<1>2. PICK L : Memory(L)
  BY DEF ScanInv
<1>3. shape \in Shapes /\ Good(shape, heap, L)
  BY <1>2 DEF ScanInv, Memory
<1>4. PICK M : Good(shape, heap', M) /\ Grown(shape, heap, L, heap', M) /\ dest' \in DOMAIN M
  BY <1>1, <1>3, NewGood
<1>5. Slots(M)'
  BY <1>1 DEF Slots
<1>6. dest' # 0
  <2>1. Len(heap) \in Nat
    BY <1>3 DEF Good
  <2> QED
    BY <1>1, <2>1
<1> QED
  BY <1>1, <1>2, <1>4, <1>5, <1>6, GrowScan

LEMMA FieldByNameScan ==
    ASSUME ScanInv, NEW c \in Columns, FieldByName(c)
    PROVE  ScanInv'
<1>1. /\ Mapped /\ DOMAIN scanDest = {} /\ dest # 0
      /\ heap' = FieldByIndexes(heap, dest, names[c].index).heap
      /\ UNCHANGED <<mapVars, row, kept>> /\ scanDest' = scanDest /\ dest' = dest
  BY DEF FieldByName, Idle
<1>2. PICK L : Memory(L)
  BY DEF ScanInv
<1>3. shape \in Shapes /\ Good(shape, heap, L) /\ dest \in DOMAIN L
  BY <1>1, <1>2 DEF ScanInv, Memory
<1>4. PICK n \in Nodes(shape) : IsFieldOf(c, n)
  BY ColumnField DEF ScanInv
<1>5. PICK g, M : Walked(heap, L, dest, n, g, M)
  BY <1>3, Walk
<1>6. heap' = g
  <2>1. FieldByIndexes(heap, dest, n.path) = Filling(g, M[dest][n.home], n.off, n.type, n.ptr)
    BY <1>5 DEF Walked
  <2>2. names[c].index = n.path
    BY <1>4 DEF IsFieldOf, Describes
  <2>3. Filling(g, M[dest][n.home], n.off, n.type, n.ptr).heap = g
    BY DEF Filling
  <2> QED
    BY <1>1, <2>1, <2>2, <2>3
<1>7. Good(shape, heap', M) /\ Grown(shape, heap, L, heap', M) /\ dest' \in DOMAIN M
  BY <1>1, <1>3, <1>5, <1>6 DEF Walked, Grown
<1>8. Slots(M)'
  BY <1>1 DEF Slots
<1> QED
  BY <1>1, <1>2, <1>7, <1>8, GrowScan

LEMMA PopulateScan == ScanInv /\ Populate => ScanInv'
<1> SUFFICES ASSUME ScanInv, Populate PROVE ScanInv'
  OBVIOUS
<1>1. PICK c, slot :
         /\ c \in Columns /\ Mapped /\ dest # 0 /\ c \notin DOMAIN scanDest
         /\ slot = Slot(heap, dest, names[c]) /\ heap' = slot.heap
         /\ scanDest' = [d \in DOMAIN scanDest \cup {c} |->
                            IF d = c THEN [obj |-> slot.obj, word |-> slot.word] ELSE scanDest[d]]
         /\ UNCHANGED <<mapVars, row, kept>> /\ dest' = dest
  <2> DEFINE c == CHOOSE c \in Unfilled : TRUE
             slot == Slot(heap, dest, names[c])
  <2>1. c \in Unfilled
    BY DEF Populate
  <2> HIDE DEF c
  <2>2. c \in Columns /\ c \notin DOMAIN scanDest
    BY <2>1 DEF Unfilled
  <2>3. /\ Mapped /\ dest # 0 /\ heap' = slot.heap
        /\ scanDest' = [d \in DOMAIN scanDest \cup {c} |->
                           IF d = c THEN [obj |-> slot.obj, word |-> slot.word] ELSE scanDest[d]]
        /\ UNCHANGED <<mapVars, row, kept>> /\ dest' = dest
    BY DEF Populate, c
  <2> HIDE DEF slot
  <2>4. slot = Slot(heap, dest, names[c])
    BY DEF slot
  <2> QED
    BY <2>2, <2>3, <2>4
<1>2. PICK L : Memory(L)
  BY DEF ScanInv
<1>3. shape \in Shapes /\ Good(shape, heap, L) /\ dest \in DOMAIN L
  BY <1>1, <1>2 DEF ScanInv, Memory
<1>4. PICK n \in Nodes(shape) : IsFieldOf(c, n)
  BY <1>1, ColumnField DEF ScanInv
<1>5. PICK M : /\ Good(shape, slot.heap, M) /\ Grown(shape, heap, L, slot.heap, M)
               /\ n.obj \in DOMAIN M[dest] /\ slot.obj = M[dest][n.obj] /\ slot.word = n.word
  <2> DEFINE fi == names[c]
  <2>1. Describes(fi, n)
    BY <1>4 DEF IsFieldOf
  <2> HIDE DEF fi
  <2>2. \E M : /\ Good(shape, Slot(heap, dest, fi).heap, M)
               /\ Grown(shape, heap, L, Slot(heap, dest, fi).heap, M)
               /\ n.obj \in DOMAIN M[dest]
               /\ Slot(heap, dest, fi).obj = M[dest][n.obj] /\ Slot(heap, dest, fi).word = n.word
    BY <1>3, <2>1, SlotThere
  <2> QED
    BY <1>1, <2>2 DEF fi
<1>6. Good(shape, heap', M) /\ Grown(shape, heap, L, heap', M) /\ dest' \in DOMAIN M
  BY <1>1, <1>3, <1>5 DEF Grown
<1>7. Columns' = Columns /\ shape' = shape /\ names' = names
  BY <1>1, MapsSame DEF ScanInv
<1>8. /\ DOMAIN scanDest' = DOMAIN scanDest \cup {c}
      /\ scanDest'[c] = [obj |-> slot.obj, word |-> slot.word]
      /\ \A d \in DOMAIN scanDest : scanDest'[d] = scanDest[d]
  BY <1>1
<1>9. SlotOf(M, c, n)'
  <2>1. n.obj \in DOMAIN M[dest'] /\ scanDest'[c] = [obj |-> M[dest'][n.obj], word |-> n.word]
    BY <1>1, <1>5, <1>8
  <2>2. Describes(names'[c], n) /\ n.prefix = c /\ n.type = Scalar
    BY <1>4, <1>7 DEF IsFieldOf
  <2> QED
    BY <2>1, <2>2 DEF SlotOf, IsFieldOf, Describes
<1>10. ASSUME NEW d \in DOMAIN scanDest
       PROVE  d \in Columns /\ \E m \in Nodes(shape) : SlotOf(M, d, m)'
  <2>1. d \in Columns /\ \E m \in Nodes(shape) : SlotOf(L, d, m)
    BY <1>2 DEF Memory, Slots
  <2>2. scanDest'[d] = scanDest[d]
    BY <1>8
  <2> QED
    BY <1>1, <1>3, <1>6, <1>7, <2>1, <2>2, SlotGrown
<1>11. Slots(M)'
  <2>1. ASSUME NEW d \in DOMAIN scanDest'
        PROVE  d \in Columns' /\ dest' # 0 /\ \E m \in Nodes(shape') : SlotOf(M, d, m)'
    <3>1. CASE d \in DOMAIN scanDest
      BY <1>1, <1>7, <1>10, <3>1
    <3>2. CASE d = c
      BY <1>1, <1>7, <1>9, <3>2
    <3> QED
      BY <1>8, <2>1, <3>1, <3>2
  <2> QED
    BY <2>1 DEF Slots
<1> QED
  BY <1>1, <1>2, <1>6, <1>11, GrowScan

KeptToo(kp, k, ks) == kp \in Seq(Kept) /\ k \in Kept /\ ks = Append(kp, k)

LEMMA LastKept ==
    ASSUME NEW kp, NEW k, NEW ks, KeptToo(kp, k, ks),
           NEW r \in Nat, \A i \in DOMAIN kp : kp[i].row \in 1..r,
           NEW x, x = r + 1, k.row = x
    PROVE  Max(RowsInto(ks, k.dest)) = x
<1>1. /\ DOMAIN ks = DOMAIN kp \cup {Len(kp) + 1} /\ ks[Len(kp) + 1] = k
      /\ \A i \in DOMAIN kp : ks[i] = kp[i]
  BY SMT DEF KeptToo
<1> DEFINE d == k.dest
<1>2. x \in Nat
  OBVIOUS
<1>3. \E i \in DOMAIN ks : ks[i].dest = d /\ ks[i].row = x
  BY <1>1
<1>4. \A i \in DOMAIN ks : ks[i].row \in Nat /\ ks[i].row <= x
  BY <1>1
<1> HIDE DEF d
<1>5. Max(RowsInto(ks, d)) = x
  BY <1>2, <1>3, <1>4, LastRow
<1> QED
  BY <1>5 DEF d

LEMMA OthersKept ==
    ASSUME NEW kp, NEW k, NEW ks, KeptToo(kp, k, ks), NEW d, d # k.dest
    PROVE  RowsInto(ks, d) = RowsInto(kp, d)
<1>1. /\ DOMAIN ks = DOMAIN kp \cup {Len(kp) + 1} /\ ks[Len(kp) + 1] = k
      /\ \A i \in DOMAIN kp : ks[i] = kp[i]
  BY SMT DEF KeptToo
<1> QED
  BY <1>1 DEF RowsInto

LEMMA ScanReady ==
    ASSUME ScanInv, NEW L, Memory(L), dest # 0, Unfilled = {}
    PROVE  Ready(L)
<1>1. shape \in Shapes /\ row \in Nat
  BY MaxRowsAssumption DEF ScanInv
<1>2. Good(shape, heap, L) /\ dest \in DOMAIN L
  BY DEF Memory
<1>3. Columns \subseteq Seq(Words)
  BY ColumnField DEF ScanInv
<1>4. \A c \in Columns : \E n \in Nodes(shape) : SlotOf(L, c, n)
  BY DEF Memory, Slots, Unfilled
<1> QED
  BY <1>1, <1>2, <1>3, <1>4 DEF Ready

(* A row kept earlier, when another is scanned. *)
LEMMA OldScanned ==
    ASSUME NEW L, Ready(L), NEW k, Keeps(L, k),
           NEW g, Good(shape, g, L), Grown(shape, After, L, g, L),
           NEW now, now = IF k.dest = dest THEN row + 1 ELSE LastInto(k.dest)
    PROVE  /\ k.obj = k.dest \/ IsCopy(g, L, k)
           /\ \A c \in Columns : \E n \in Nodes(shape) :
                 Describes(names[c], n) /\ n.type = Scalar /\ Cell(shape, g, L, k, n, c, now)
<1>1. k.dest \in DOMAIN L /\ (k.obj = k.dest \/ IsCopy(heap, L, k))
  BY DEF Keeps
<1>2. /\ After \in Seq(Objects(shape)) /\ DOMAIN After = DOMAIN heap
      /\ \A o \in DOMAIN heap : After[o].type = heap[o].type
  BY AfterType DEF After
<1>3. Good(shape, After, L) /\ g \in Seq(Objects(shape))
  BY ScanGood DEF Good
<1> DEFINE a == After
<1>4. Good(shape, a, L) /\ Grown(shape, a, L, g, L) /\ a \in Seq(Objects(shape))
  BY <1>2, <1>3
<1>5. k.obj = k.dest \/ IsCopy(a, L, k)
  <2> HIDE DEF a
  <2>1. ASSUME IsCopy(heap, L, k)
        PROVE  IsCopy(After, L, k)
    <3> DEFINE b == After
    <3>1. DOMAIN b = DOMAIN heap /\ \A o \in DOMAIN heap : b[o].type = heap[o].type
      BY <1>2
    <3> HIDE DEF b
    <3>2. IsCopy(b, L, k)
      BY <2>1, <3>1 DEF IsCopy
    <3> QED
      BY <3>2 DEF b
  <2> QED
    BY <1>1, <2>1 DEF a
<1>6. k.obj = k.dest => Owns(L, k.obj)
  <2> DEFINE d == k.dest
  <2>1. d \in DOMAIN L
    BY <1>1
  <2> HIDE DEF d, a
  <2>2. Owns(L, d)
    BY <1>4, <2>1 DEF Good, Owns
  <2> QED
    BY <2>2 DEF d
<1>7. ASSUME NEW c \in Columns
      PROVE  \E n \in Nodes(shape) :
                Describes(names[c], n) /\ n.type = Scalar /\ Cell(shape, g, L, k, n, c, now)
  <2> DEFINE last == LastInto(k.dest)
  <2>1. PICK n \in Nodes(shape) : /\ Describes(names[c], n) /\ n.type = Scalar
                                  /\ Cell(shape, heap, L, k, n, c, last)
    BY DEF Keeps
  <2> HIDE DEF last
  <2>2. now = IF k.dest = dest THEN row + 1 ELSE last
    BY DEF last
  <2>3. Cell(shape, a, L, k, n, c, now)
    BY <1>1, <2>1, <2>2, CellScanned
  <2> HIDE DEF a
  <2>4. Cell(shape, g, L, k, n, c, now)
    BY <1>1, <1>4, <1>5, <1>6, <2>1, <2>3, CellGrown
  <2> QED
    BY <2>1, <2>4
<1>8. k.obj = k.dest \/ IsCopy(g, L, k)
  <2> HIDE DEF a
  <2> QED
    BY <1>3, <1>4, <1>5, CopyGrown
<1> QED
  BY <1>7, <1>8

(* The heap after a row is scanned. *)
LEMMA HeapScanned ==
    ASSUME NEW L, Ready(L), NEW k, NEW copied \in BOOLEAN, k.dest = dest,
           k.obj = IF copied THEN Len(heap) + 1 ELSE dest,
           NEW g, g = IF copied THEN Append(After, After[dest]) ELSE After
    PROVE  /\ Good(shape, g, L) /\ Grown(shape, After, L, g, L)
           /\ k.obj \in Nat
           /\ k.obj = k.dest \/ IsCopy(g, L, k)
<1>0. /\ shape \in Shapes /\ shape \in Declarations /\ Good(shape, heap, L) /\ dest \in DOMAIN L
      /\ heap \in Seq(Objects(shape)) /\ Len(heap) \in Nat
  BY Laid DEF Ready, Good
<1>1. /\ After \in Seq(Objects(shape)) /\ Len(After) = Len(heap)
      /\ \A o \in DOMAIN heap : After[o].type = heap[o].type
  BY AfterType
<1>2. Good(shape, After, L)
  BY ScanGood
<1>3. dest \in DOMAIN heap /\ heap[dest].type = Root
  <2>1. <<>> \in DOMAIN L[dest] /\ L[dest][<<>>] = dest
    BY <1>0 DEF Good
  <2>2. dest \in DOMAIN heap
    BY <1>0, <2>1 DEF Good
  <2>3. PICK n \in Nodes(shape) : n.path = <<>> /\ heap[dest].type = n.type
    BY <1>0, <2>1 DEF Good
  <2>4. Start \in Nodes(shape) /\ Start.path = <<>> /\ Start.type = Root
    BY <1>0, NodesClosed DEF Closed, Start
  <2>5. n = Start
    BY <1>0, <2>3, <2>4, NodeUnique
  <2> QED
    BY <2>2, <2>3, <2>4, <2>5
<1>4. dest \in DOMAIN After
  BY <1>0, <1>1, <1>3
<1> DEFINE a == After
           o == After[dest]
<1>5. /\ a \in Seq(Objects(shape)) /\ Len(a) = Len(heap) /\ Good(shape, a, L)
      /\ o \in Objects(shape) /\ o.type = Root
      /\ g = IF copied THEN Append(a, o) ELSE a
  BY <1>1, <1>2, <1>3, <1>4
<1>6. /\ Good(shape, g, L) /\ Grown(shape, a, L, g, L) /\ k.obj \in Nat
      /\ k.obj = k.dest \/ IsCopy(g, L, k)
  <2> HIDE DEF a, o
  <2>1. CASE copied
    <3> DEFINE z == Len(a) + 1
    <3>1. g = Append(a, o) /\ z = Len(a) + 1 /\ k.obj = z
      BY <1>5, <2>1
    <3>2. z \in DOMAIN g /\ g[z] = o /\ z \in Nat
      BY <1>5, <3>1
    <3> HIDE DEF z
    <3>3. Good(shape, g, L) /\ Grown(shape, a, L, g, L) /\ ~Owns(L, z)
      BY <1>0, <1>5, <3>1, AppendGood
    <3>4. IsCopy(g, L, k)
      BY <1>5, <3>1, <3>2, <3>3 DEF IsCopy
    <3> QED
      BY <3>1, <3>2, <3>3, <3>4
  <2>2. CASE ~copied
    <3>1. g = a /\ k.obj = dest
      BY <1>5, <2>2
    <3>2. Grown(shape, a, L, a, L)
      BY <1>5, GrownSame
    <3>3. dest \in Nat
      BY <1>0, <1>3
    <3> QED
      BY <1>5, <3>1, <3>2, <3>3
  <2> QED
    BY <2>1, <2>2
<1> QED
  BY <1>6 DEF a

LEMMA ScanScan ==
    ASSUME ScanInv, NEW copied \in BOOLEAN, Scan(copied)
    PROVE  ScanInv'
<1>1. PICK k : /\ k = [obj |-> IF copied THEN Len(heap) + 1 ELSE dest, row |-> row + 1,
                       dest |-> dest]
               /\ kept' = Append(kept, k)
  BY DEF Scan
<1>2. /\ Mapped /\ dest # 0 /\ row < MaxRows /\ Unfilled = {}
      /\ heap' = IF copied THEN Append(After, After[dest]) ELSE After
      /\ row' = row + 1 /\ DOMAIN scanDest' = {} /\ UNCHANGED mapVars /\ dest' = dest
  BY DEF Scan, After
<1>3. PICK L : Memory(L)
  BY DEF ScanInv
<1>4. Ready(L)
  BY <1>2, <1>3, ScanReady
<1>5. /\ k.dest = dest /\ k.row = row + 1
      /\ k.obj = IF copied THEN Len(heap) + 1 ELSE dest
  BY <1>1
<1>6. PICK g : g = IF copied THEN Append(After, After[dest]) ELSE After
  OBVIOUS
<1>7. /\ Good(shape, g, L) /\ Grown(shape, After, L, g, L) /\ k.obj \in Nat
      /\ k.obj = k.dest \/ IsCopy(g, L, k)
  BY <1>4, <1>5, <1>6, HeapScanned
<1>8. heap' = g
  BY <1>2, <1>6
<1>9. /\ Inv' /\ FramesAreNodes' /\ EntriesAreNodes'
      /\ Columns' = Columns /\ shape' = shape /\ names' = names /\ stack' = stack
  BY <1>2, MapsSame DEF ScanInv
<1>10. /\ row \in Nat /\ row + 1 \in 0..MaxRows /\ dest \in Nat /\ kept \in Seq(Kept)
       /\ dest \in DOMAIN L /\ Columns \subseteq Seq(Words)
  BY <1>2, <1>4, MaxRowsAssumption DEF ScanInv, Ready
<1>11. k \in Kept
  <2> DEFINE o == k.obj
             r == row + 1
  <2>1. o \in Nat /\ r \in Nat
    BY <1>7, <1>10
  <2>2. k = [obj |-> o, row |-> r, dest |-> dest]
    BY <1>1
  <2> HIDE DEF o, r
  <2> QED
    BY <1>10, <2>1, <2>2 DEF Kept
<1>12. \A i \in DOMAIN kept : Keeps(L, kept[i])
  BY <1>3 DEF Memory
<1>13. \A d : LastInto(d)' = IF d = dest THEN row + 1 ELSE LastInto(d)
  <2>1. \A i \in DOMAIN kept : kept[i].row \in 1..row
    BY <1>12 DEF Keeps
  <2>2. TAKE d
  <2>3. Max(RowsInto(kept', d)) = IF d = dest THEN row + 1 ELSE Max(RowsInto(kept, d))
    <3>1. PICK ks : ks = Append(kept, k) /\ kept' = ks
      BY <1>1
    <3> DEFINE x == row + 1
    <3>2. KeptToo(kept, k, ks)
      BY <1>10, <1>11, <3>1 DEF KeptToo
    <3>3. x = row + 1 /\ k.row = x /\ row \in Nat
      BY <1>5, <1>10
    <3> HIDE DEF x
    <3>4. Max(RowsInto(ks, k.dest)) = x
      BY <2>1, <3>2, <3>3, LastKept
    <3>5. d # k.dest => RowsInto(ks, d) = RowsInto(kept, d)
      BY <3>2, OthersKept
    <3> QED
      BY <1>5, <3>1, <3>4, <3>5 DEF x
  <2> QED
    BY <2>3 DEF LastInto, RowsInto
<1>14. ASSUME NEW x, \/ x = k
                     \/ Keeps(L, x)
       PROVE  Keeps(L, x)'
  <2>1. x.dest \in DOMAIN L /\ x.row \in 1..(row + 1)
    BY <1>5, <1>10, <1>14 DEF Keeps
  <2>2. /\ x.obj = x.dest \/ IsCopy(g, L, x)
        /\ \A c \in Columns : \E n \in Nodes(shape) :
              /\ Describes(names[c], n) /\ n.type = Scalar
              /\ Cell(shape, g, L, x, n, c, LastInto(x.dest)')
    <3> DEFINE now == LastInto(x.dest)'
    <3>1. CASE x = k
      <4>1. now = row + 1
        BY <1>5, <1>13, <3>1
      <4>2. ASSUME NEW c \in Columns
            PROVE  \E n \in Nodes(shape) : /\ Describes(names[c], n) /\ n.type = Scalar
                                           /\ Cell(shape, g, L, k, n, c, row + 1)
        <5>1. PICK n \in Nodes(shape) : SlotOf(L, c, n)
          BY <1>4 DEF Ready
        <5>2. Describes(names[c], n) /\ n.type = Scalar
          BY <5>1 DEF SlotOf, IsFieldOf
        <5>3. \/ k.obj = dest /\ g = After
              \/ k.obj = Len(heap) + 1 /\ g = Append(After, After[dest])
          BY <1>5, <1>6
        <5>4. Cell(shape, g, L, k, n, c, row + 1)
          BY <1>4, <1>5, <5>1, <5>3, CellNew
        <5> QED
          BY <5>2, <5>4
      <4> HIDE DEF now
      <4> QED
        BY <1>7, <3>1, <4>1, <4>2 DEF now
    <3>2. CASE Keeps(L, x)
      <4>1. now = IF x.dest = dest THEN row + 1 ELSE LastInto(x.dest)
        BY <1>13
      <4> HIDE DEF now
      <4>2. /\ x.obj = x.dest \/ IsCopy(g, L, x)
            /\ \A c \in Columns : \E n \in Nodes(shape) :
                  Describes(names[c], n) /\ n.type = Scalar /\ Cell(shape, g, L, x, n, c, now)
        BY <1>4, <1>7, <3>2, <4>1, OldScanned
      <4> QED
        BY <4>2 DEF now
    <3> QED
      BY <1>14, <3>1, <3>2
  <2>3. \A c \in Columns' : \E n \in Nodes(shape') :
           /\ Describes(names'[c], n) /\ n.type = Scalar
           /\ Cell(shape', heap', L, x, n, c, LastInto(x.dest)')
    BY <1>8, <1>9, <2>2
  <2>4. x.obj = x.dest \/ IsCopy(heap', L, x)
    BY <1>8, <2>2
  <2> QED
    BY <1>2, <2>1, <2>3, <2>4 DEF Keeps
<1>15. (\A i \in DOMAIN kept : Keeps(L, kept[i]))'
  <2>1. ASSUME NEW i \in DOMAIN kept'
        PROVE  \E x : x = kept'[i] /\ (x = k \/ Keeps(L, x))
    <3>1. CASE i \in DOMAIN kept
      BY <1>1, <1>10, <1>12, <3>1
    <3>2. CASE i = Len(kept) + 1
      BY <1>1, <1>10, <3>2
    <3> QED
      BY <1>1, <1>10, <2>1, <3>1, <3>2
  <2>2. SUFFICES ASSUME NEW i \in DOMAIN kept'
                 PROVE  Keeps(L, kept[i])'
    OBVIOUS
  <2>3. PICK x : x = kept'[i] /\ (x = k \/ Keeps(L, x))
    BY <2>1
  <2>4. Keeps(L, x)'
    BY <1>14, <2>3
  <2> QED
    BY <2>3, <2>4 DEF Keeps
<1>16. Memory(L)'
  <2>1. Slots(L)'
    BY <1>2 DEF Slots
  <2>2. Good(shape', heap', L)
    BY <1>7, <1>8, <1>9
  <2>3. dest' \in DOMAIN L
    BY <1>2, <1>10
  <2> QED
    BY <1>15, <2>1, <2>2, <2>3 DEF Memory
<1>17. kept' \in Seq(Kept)
  BY <1>1, <1>10, <1>11
<1>18. shape' \in Shapes /\ dest' \in Nat /\ row' \in 0..MaxRows /\ stack' = <<>>
  BY <1>2, <1>9, <1>10 DEF ScanInv, Mapped
<1> QED
  BY <1>9, <1>16, <1>17, <1>18 DEF ScanInv

LEMMA NextScan == ScanInv /\ [Next]_vars => ScanInv'
<1> SUFFICES ASSUME ScanInv, [Next]_vars PROVE ScanInv'
  OBVIOUS
<1>1. CASE Map
  BY <1>1, MapScan
<1>2. CASE NewDest
  BY <1>2, NewDestScan
<1>3. CASE Populate
  BY <1>3, PopulateScan
<1>4. CASE Finished
  BY <1>4, FinishedScan DEF Finished
<1>5. ASSUME NEW c \in Columns, FieldByName(c)
      PROVE  ScanInv'
  BY <1>5, FieldByNameScan
<1>6. ASSUME NEW copied \in BOOLEAN, Scan(copied)
      PROVE  ScanInv'
  BY <1>6, ScanScan
<1>7. CASE UNCHANGED vars
  BY <1>7, FinishedScan
<1> QED
  BY <1>1, <1>2, <1>3, <1>4, <1>5, <1>6, <1>7 DEF Next

LEMMA ScanInvHolds == Spec => []ScanInv
  BY InitScan, NextScan, PTL DEF Spec
-----------------------------------------------------------------------------
(* A row that is kept is what the driver delivered for it: every field,    *)
(* read back by reflection, has the value of its own column, of its own    *)
(* row or, behind the pointers of a struct that was scanned into again, of *)
(* the last one.                                                           *)
THEOREM KeptRowsStay == Spec => []RowsAreKept
<1>1. ASSUME ScanInv PROVE RowsAreKept
  <2>1. PICK L : Memory(L)
    BY <1>1 DEF ScanInv
  <2>2. shape \in Shapes /\ Good(shape, heap, L)
    BY <1>1, <2>1 DEF ScanInv, Memory
  <2> SUFFICES ASSUME NEW i \in DOMAIN kept, NEW c \in Columns
               PROVE  ReadOnly(heap, kept[i].obj, names[c].index) =
                         <<IF names[c].isPtrPath \/ kept[i].obj = kept[i].dest
                           THEN LastInto(kept[i].dest) ELSE kept[i].row, c>>
    BY DEF RowsAreKept
  <2> DEFINE k == kept[i]
             fi == names[c]
             last == LastInto(k.dest)
  <2>3. Keeps(L, k)
    BY <2>1 DEF Memory
  <2>4. /\ k.dest \in DOMAIN L /\ (k.obj = k.dest \/ IsCopy(heap, L, k))
        /\ \E n \in Nodes(shape) : Describes(fi, n) /\ Cell(shape, heap, L, k, n, c, last)
    BY <2>3 DEF Keeps
  <2> HIDE DEF k, fi, last
  <2>5. PICK n \in Nodes(shape) : Describes(fi, n) /\ Cell(shape, heap, L, k, n, c, last)
    BY <2>4
  <2>6. fi.index = n.path /\ (fi.isPtrPath <=> n.marked)
    BY <2>5 DEF Describes
  <2>7. ReadOnly(heap, k.obj, n.path) = <<IF n.marked \/ k.obj = k.dest THEN last ELSE k.row, c>>
    BY <2>2, <2>4, <2>5, CellRead
  <2>8. ReadOnly(heap, k.obj, fi.index) =
           <<IF fi.isPtrPath \/ k.obj = k.dest THEN last ELSE k.row, c>>
    BY <2>6, <2>7
  <2> QED
    BY <2>8 DEF k, fi, last
<1> QED
  BY <1>1, ScanInvHolds, PTL

(* Every variable keeps its type: objects are of the types of the program, *)
(* the struct that is scanned into and those that are kept are objects,    *)
(* and only columns have slots.                                            *)
THEOREM ScanTypeCorrect == Spec => []TypeOK
<1>1. ASSUME ScanInv PROVE TypeOK
  <2>1. PICK L : Memory(L)
    BY <1>1 DEF ScanInv
  <2>2. shape \in Shapes /\ Good(shape, heap, L) /\ MapTypeOK /\ row \in 0..MaxRows
    BY <1>1, <2>1 DEF ScanInv, Memory, Inv
  <2>3. heap \in Seq(Objects(shape)) /\ Len(heap) \in Nat /\ DOMAIN heap = 1..Len(heap)
    BY <2>2 DEF Good
  <2>4. \A o \in DOMAIN heap : heap[o].type \in Types \cup {Scalar}
    BY <2>3, ObjectType
  <2>5. \A b \in DOMAIN L : b \in DOMAIN heap
    BY <2>2 DEF Good
  <2>6. dest \in 0..Len(heap)
    BY <2>1, <2>3, <2>5 DEF Memory
  <2>7. DOMAIN scanDest \subseteq Columns
    BY <2>1 DEF Memory, Slots
  <2>8. \A i \in DOMAIN kept : kept[i].obj \in DOMAIN heap
    BY <2>1, <2>5 DEF Memory, Keeps, IsCopy
  <2> QED
    BY <2>2, <2>4, <2>6, <2>7, <2>8 DEF TypeOK
<1> QED
  BY <1>1, ScanInvHolds, PTL

(* The flattening is that of MapSpec, and scanning does not touch it: what *)
(* holds of every StructMap holds of the one that rows are scanned with.   *)
THEOREM ScanImplementsMap == Spec => MapSpec
<1>1. Init => MapInit
  BY DEF Init
<1>2. [Next]_vars => [MapNext]_mapVars
  BY DEF Next, Map, NewDest, Populate, Finished, FieldByName, Scan, vars, mapVars
<1> QED
  BY <1>1, <1>2, PTL DEF Spec, MapSpec

(* The guard, the marks and the names of the StructMap that rows are       *)
(* scanned with are right all the way through.                             *)
THEOREM MapStaysRight ==
    Spec => [](GuardIsThePath /\ PointersAreMarked /\ PathWinsOverBareName)
  BY ScanImplementsMap, GuardHolds, MarksAreRight, FullPathsWin, PTL

-----------------------------------------------------------------------------
(* The declarations alone, as MappedAsDeclared goes by them.               *)

(***************************************************************************)
(* The declarations s alone: the type, the field and the column at the end *)
(* of a sequence of positions, and the sequences that are flattened.       *)
(***************************************************************************)
Into(s, t, i) == s[t][i].type
TyFrom(h, b, p) == FoldLeft(LAMBDA t, i : h[t][i].type, b, p)
Ty(s, p) == TyFrom(s, Root, p)
FieldIn(s, p) == s[Ty(s, Front(p))][Last(p)]
Bit(f) == IF Embedded(f) THEN <<>> ELSE f.name
Col(s, p) == FlattenSeq([n \in DOMAIN p |-> Bit(FieldIn(s, SubSeq(p, 1, n)))])

LEMMA TyFold ==
    ASSUME NEW h, NEW b, NEW S, NEW s \in Seq(S)
    PROVE  \E e : IsFold(4, h, b, s, Len(s), e) /\ TyFrom(h, b, s) = e[1..Len(s)]
<1> DEFINE n == Len(s)
           F(e) == [u \in SUBSET DOMAIN s |->
                      IF u = {} THEN b ELSE Into(h, e[u \ {Max(u)}], s[Max(u)])]
           e == CHOOSE e : e = F(e)
<1>1. n \in Nat /\ DOMAIN s = 1..n
  OBVIOUS
<1>2. \A a, x : Op(4, h, a, x) = Into(h, a, x)
  BY DEF Op, Into
<1>3. \A f : IsFold(4, h, b, s, n, f) <=> f = F(f)
  <2> SUFFICES ASSUME NEW f
               PROVE  IsFold(4, h, b, s, n, f) <=> f = F(f)
    OBVIOUS
  <2> HIDE DEF n
  <2> QED
    BY <1>1, <1>2 DEF IsFold
<1>4. \E f : f = F(f)
  <2>1. \E f : IsFold(4, h, b, s, n, f)
    BY <1>1, FoldExists
  <2> HIDE DEF F, n
  <2> QED
    BY <1>3, <2>1
<1>5. e = F(e)
  <2> HIDE DEF F
  <2> QED
    BY <1>4
<1>6. TyFrom(h, b, s) = e[DOMAIN s]
  BY DEF Into, TyFrom, FoldLeft, MapThenFoldSet
<1>7. IsFold(4, h, b, s, n, e)
  <2> HIDE DEF F, e, n
  <2> QED
    BY <1>3, <1>5
<1> QED
  BY <1>1, <1>6, <1>7

LEMMA TySteps ==
    ASSUME NEW h
    PROVE  /\ Ty(h, <<>>) = Root
           /\ \A s \in Seq(Nat) : \A x \in Nat :
                Ty(h, Append(s, x)) = h[Ty(h, s)][x].type
<1> DEFINE b == Root
<1>1. ASSUME NEW s \in Seq(Nat)
      PROVE  \E e : IsFold(4, h, b, s, Len(s), e) /\ Ty(h, s) = e[1..Len(s)]
  <2> HIDE DEF b
  <2>1. \E e : IsFold(4, h, b, s, Len(s), e) /\ TyFrom(h, b, s) = e[1..Len(s)]
    BY TyFold
  <2> QED
    BY <2>1 DEF Ty, b
<1>2. Ty(h, <<>>) = b
  <2>1. <<>> \in Seq(Nat) /\ Len(<<>>) = 0
    OBVIOUS
  <2>2. PICK e : IsFold(4, h, b, <<>>, 0, e) /\ Ty(h, <<>>) = e[1..0]
    <3> HIDE DEF b
    <3> QED
      BY <1>1, <2>1
  <2>3. Along(4, h, b, <<>>, 0, e)
    <3> HIDE DEF b
    <3> QED
      BY <2>2, FoldSteps
  <2> HIDE DEF b
  <2> QED
    BY <2>2, <2>3 DEF Along
<1>3. ASSUME NEW s \in Seq(Nat), NEW x \in Nat
      PROVE  Ty(h, Append(s, x)) = h[Ty(h, s)][x].type
  <2>1. Append(s, x) \in Seq(Nat) /\ Len(Append(s, x)) = Len(s) + 1
    OBVIOUS
  <2> DEFINE t == Append(s, x)
             n == Len(s) + 1
  <2>2. PICK e : IsFold(4, h, b, s, Len(s), e) /\ Ty(h, s) = e[1..Len(s)]
    <3> HIDE DEF b
    <3> QED
      BY <1>1
  <2>3. PICK f : IsFold(4, h, b, t, n, f) /\ Ty(h, t) = f[1..n]
    <3> HIDE DEF b
    <3> QED
      BY <1>1, <2>1
  <2>4. Longer(s, x, t, Len(s), n)
    BY <2>1 DEF Longer
  <2>5. f[1..n] = Op(4, h, e[1..Len(s)], x)
    <3> HIDE DEF b, t, n
    <3> QED
      BY <2>2, <2>3, <2>4, FoldAppend
  <2> HIDE DEF b, t, n
  <2>6. Ty(h, t) = Op(4, h, Ty(h, s), x)
    BY <2>2, <2>3, <2>5
  <2> QED
    BY <2>6 DEF Op, t
<1> HIDE DEF b
<1>4. Ty(h, <<>>) = Root
  BY <1>2 DEF b
<1> QED
  BY <1>3, <1>4

LEMMA AppendFront ==
    ASSUME NEW p \in Seq(Nat), NEW i \in Nat, NEW a, a = Append(p, i)
    PROVE  /\ a \in Seq(Nat) /\ Len(a) = Len(p) + 1 /\ Front(a) = p /\ Last(a) = i
           /\ \A k \in 1..Len(p) : a[k] = p[k]
<1>1. a \in Seq(Nat) /\ Len(a) = Len(p) + 1 /\ a[Len(p) + 1] = i /\ Len(p) \in Nat
      /\ \A k \in 1..Len(p) : a[k] = p[k]
  OBVIOUS
<1>2. SubSeq(a, 1, Len(p)) = p
  <2>1. SubSeq(a, 1, Len(p)) \in Seq(Nat) /\ Len(SubSeq(a, 1, Len(p))) = Len(p)
        /\ \A k \in 1..Len(p) : SubSeq(a, 1, Len(p))[k] = a[k]
    BY <1>1
  <2> QED
    BY <1>1, <2>1, SeqEqual
<1>3. Len(a) - 1 = Len(p)
  BY <1>1
<1> QED
  BY <1>1, <1>2, <1>3 DEF Front, Last

(* The field i of a struct, and where it is. *)
GoesTo(q, i, c) == q \in Seq(Nat) /\ i \in Nat /\ c = Append(q, i)
IsField(s, q, i, c) == FieldIn(s, c) = s[Ty(s, q)][i] /\ Ty(s, c) = FieldIn(s, c).type

LEMMA FieldStep ==
    ASSUME NEW s, NEW q, NEW i, NEW c, GoesTo(q, i, c)
    PROVE  IsField(s, q, i, c)
<1>1. Front(c) = q /\ Last(c) = i
  BY AppendFront DEF GoesTo
<1>2. Ty(s, c) = s[Ty(s, q)][i].type
  BY TySteps DEF GoesTo
<1> QED
  BY <1>1, <1>2 DEF FieldIn, IsField

(* The flattened sequence, one element after the other. *)
IsFlat(s, n, e) == e = [i \in 1..n |-> IF i = 1 THEN s[i] ELSE e[i - 1] \o s[i]]

LEMMA FlatExists ==
    ASSUME NEW s
    PROVE  \A n \in Nat : \E e : IsFlat(s, n, e)
<1> DEFINE T == {n \in Nat : \E e : IsFlat(s, n, e)}
<1>1. 0 \in T
  <2> DEFINE e == [i \in 1..0 |-> s]
  <2>1. \A i : i \notin 1..0
    OBVIOUS
  <2>2. IsFlat(s, 0, e)
    BY <2>1 DEF IsFlat
  <2> QED
    BY <2>2
<1>2. ASSUME NEW n \in Nat, n \in T
      PROVE  n + 1 \in T
  <2>1. PICK e : IsFlat(s, n, e)
    BY <1>2
  <2>2. \A i \in 1..n : e[i] = IF i = 1 THEN s[i] ELSE e[i - 1] \o s[i]
    BY <2>1 DEF IsFlat
  <2> DEFINE f == [i \in 1..n + 1 |->
                     IF i = 1 THEN s[i] ELSE IF i = n + 1 THEN e[n] \o s[i] ELSE e[i]]
  <2>3. \A i \in 1..n : f[i] = e[i]
    BY <2>2
  <2>4. ASSUME NEW i \in 1..n + 1
        PROVE  f[i] = IF i = 1 THEN s[i] ELSE f[i - 1] \o s[i]
    <3>1. CASE i = 1
      BY <3>1
    <3>2. CASE i # 1 /\ i = n + 1
      <4>0. f[i] = IF i = 1 THEN s[i] ELSE IF i = n + 1 THEN e[n] \o s[i] ELSE e[i]
        OBVIOUS
      <4>1. f[i] = e[n] \o s[i] /\ i - 1 = n /\ n \in 1..n
        <5> HIDE DEF f
        <5>1. f[i] = e[n] \o s[i]
          BY <3>2, <4>0
        <5> QED
          BY <3>2, <5>1
      <4>2. f[n] = e[n]
        BY <2>3, <4>1
      <4> HIDE DEF f
      <4> QED
        BY <3>2, <4>1, <4>2
    <3>3. CASE i # 1 /\ i # n + 1
      <4>1. i \in 1..n /\ i - 1 \in 1..n
        BY <3>3
      <4>2. f[i] = e[i] /\ f[i - 1] = e[i - 1]
        BY <2>3, <4>1
      <4>3. e[i] = e[i - 1] \o s[i]
        BY <2>2, <3>3, <4>1
      <4> HIDE DEF f
      <4> QED
        BY <3>3, <4>2, <4>3
    <3> QED
      BY <3>1, <3>2, <3>3
  <2>5. f = [i \in 1..n + 1 |-> f[i]]
    OBVIOUS
  <2> HIDE DEF f
  <2>6. IsFlat(s, n + 1, f)
    BY <2>4, <2>5 DEF IsFlat
  <2> QED
    BY <2>6
<1>3. \A n \in Nat : n \in T
  <2> HIDE DEF T
  <2> QED
    BY <1>1, <1>2, Induction
<1> QED
  BY <1>3

LEMMA FlatSame ==
    ASSUME NEW s, NEW t, NEW n \in Nat, NEW m \in Nat, n <= m,
           NEW e, IsFlat(s, n, e), NEW f, IsFlat(t, m, f), \A i \in 1..n : s[i] = t[i]
    PROVE  \A i \in 1..n : e[i] = f[i]
<1> DEFINE T == {i \in Nat : i \in 1..n => e[i] = f[i]}
<1>1. \A i \in 1..n : e[i] = IF i = 1 THEN s[i] ELSE e[i - 1] \o s[i]
  BY DEF IsFlat
<1>2. \A i \in 1..m : f[i] = IF i = 1 THEN t[i] ELSE f[i - 1] \o t[i]
  BY DEF IsFlat
<1>3. 0 \in T
  OBVIOUS
<1>4. ASSUME NEW i \in Nat, i \in T
      PROVE  i + 1 \in T
  <2> DEFINE j == i + 1
  <2> SUFFICES ASSUME j \in 1..n
               PROVE  e[j] = f[j]
    OBVIOUS
  <2>1. j \in 1..m /\ j - 1 = i /\ s[j] = t[j] /\ (j # 1 => i \in 1..n)
    OBVIOUS
  <2> HIDE DEF j
  <2>2. CASE j = 1
    BY <1>1, <1>2, <2>1, <2>2
  <2>3. CASE j # 1
    <3>1. e[i] = f[i]
      BY <1>4, <2>1, <2>3
    <3>2. e[j] = e[j - 1] \o s[j] /\ f[j] = f[j - 1] \o t[j]
      BY <1>1, <1>2, <2>1, <2>3
    <3> QED
      BY <2>1, <3>1, <3>2
  <2> QED
    BY <2>2, <2>3
<1>5. \A i \in Nat : i \in T
  <2> HIDE DEF T
  <2> QED
    BY <1>3, <1>4, Induction
<1> QED
  BY <1>5

LEMMA FlatIs ==
    ASSUME NEW n \in Nat, NEW s, DOMAIN s = 1..n, Len(s) = n
    PROVE  /\ n = 0 => FlattenSeq(s) = s
           /\ n # 0 => \E e : IsFlat(s, n, e) /\ FlattenSeq(s) = e[n]
<1> DEFINE F(e) == [i \in 1..n |-> IF i = 1 THEN s[i] ELSE e[i - 1] \o s[i]]
           e == CHOOSE e : e = F(e)
<1>1. \A f : IsFlat(s, n, f) <=> f = F(f)
  BY DEF IsFlat
<1>2. \E f : f = F(f)
  <2> HIDE DEF F
  <2> QED
    BY <1>1, FlatExists
<1>3. e = F(e)
  <2> HIDE DEF F
  <2> QED
    BY <1>2
<1>4. IsFlat(s, n, e)
  <2> HIDE DEF F, e
  <2> QED
    BY <1>1, <1>3
<1>5. n # 0 => FlattenSeq(s) = e[n]
  BY DEF FlattenSeq
<1>6. n = 0 => FlattenSeq(s) = s
  BY DEF FlattenSeq
<1> HIDE DEF F, e
<1> QED
  BY <1>4, <1>5, <1>6

(* Concatenation of one more element. *)
LEMMA FlatAppend ==
    ASSUME NEW n \in Nat, NEW s, DOMAIN s = 1..n, Len(s) = n,
           NEW t, DOMAIN t = 1..n + 1, Len(t) = n + 1, \A i \in 1..n : s[i] = t[i],
           NEW S, t[n + 1] \in Seq(S), n = 0 => s = <<>>
    PROVE  FlattenSeq(t) = FlattenSeq(s) \o t[n + 1]
<1> DEFINE m == n + 1
           x == t[m]
<1>1. m \in Nat /\ m # 0 /\ DOMAIN t = 1..m /\ Len(t) = m /\ n <= m /\ m - 1 = n /\ m \in 1..m
  OBVIOUS
<1>2. x \in Seq(S)
  OBVIOUS
<1> HIDE DEF m
<1>3. PICK f : IsFlat(t, m, f) /\ FlattenSeq(t) = f[m]
  BY <1>1, FlatIs
<1>4. f[m] = IF m = 1 THEN t[m] ELSE f[m - 1] \o t[m]
  BY <1>1, <1>3 DEF IsFlat
<1>5. CASE n = 0
  <2>1. FlattenSeq(s) = <<>>
    BY <1>5, FlatIs
  <2>2. FlattenSeq(t) = x
    BY <1>1, <1>3, <1>4, <1>5
  <2> HIDE DEF x
  <2>3. <<>> \o x = x
    BY <1>2, ConcatEmptySeq
  <2> QED
    BY <2>1, <2>2, <2>3 DEF x, m
<1>6. CASE n # 0
  <2>1. PICK e : IsFlat(s, n, e) /\ FlattenSeq(s) = e[n]
    BY <1>6, FlatIs
  <2>2. e[n] = f[n]
    <3>1. \A i \in 1..n : e[i] = f[i]
      BY <1>1, <1>3, <2>1, FlatSame
    <3> QED
      BY <1>6, <3>1
  <2>3. FlattenSeq(t) = f[n] \o x
    <3>1. m # 1
      BY <1>1, <1>6
    <3> QED
      BY <1>1, <1>3, <1>4, <3>1
  <2> QED
    BY <2>1, <2>2, <2>3 DEF x, m
<1> QED
  BY <1>5, <1>6

LEMMA ColSteps ==
    ASSUME NEW s, NEW p \in Seq(Nat), NEW i \in Nat, NEW a, a = Append(p, i),
           Bit(FieldIn(s, a)) \in Seq(Words)
    PROVE  Col(s, a) = Col(s, p) \o Bit(FieldIn(s, a))
<1> DEFINE n == Len(p)
           u == [k \in DOMAIN p |-> Bit(FieldIn(s, SubSeq(p, 1, k)))]
           v == [k \in DOMAIN a |-> Bit(FieldIn(s, SubSeq(a, 1, k)))]
<1>1. n \in Nat /\ a \in Seq(Nat) /\ Len(a) = n + 1 /\ \A k \in 1..n : a[k] = p[k]
  BY AppendFront
<1>2. DOMAIN u = 1..n /\ Len(u) = n /\ DOMAIN v = 1..n + 1 /\ Len(v) = n + 1
  BY <1>1
<1>3. ASSUME NEW k \in 1..n
      PROVE  u[k] = v[k]
  <2>1. SubSeq(p, 1, k) = SubSeq(a, 1, k)
    <3>1. /\ SubSeq(p, 1, k) \in Seq(Nat) /\ SubSeq(a, 1, k) \in Seq(Nat)
          /\ Len(SubSeq(p, 1, k)) = k /\ Len(SubSeq(a, 1, k)) = k
          /\ \A l \in 1..k : SubSeq(p, 1, k)[l] = SubSeq(a, 1, k)[l]
      BY <1>1
    <3> QED
      BY <3>1, SeqEqual
  <2>2. k \in DOMAIN p /\ k \in DOMAIN a
    BY <1>1
  <2> QED
    BY <2>1, <2>2
<1>4. v[n + 1] = Bit(FieldIn(s, a))
  <2>1. SubSeq(a, 1, n + 1) = a /\ n + 1 \in DOMAIN a
    <3>1. /\ SubSeq(a, 1, n + 1) \in Seq(Nat) /\ Len(SubSeq(a, 1, n + 1)) = n + 1
          /\ \A l \in 1..n + 1 : SubSeq(a, 1, n + 1)[l] = a[l]
      BY <1>1
    <3> QED
      BY <1>1, <3>1, SeqEqual
  <2> QED
    BY <2>1
<1>5. n = 0 => u = <<>>
  BY <1>2
<1> DEFINE m == n + 1
<1> HIDE DEF u, v, n
<1>n. n \in Nat
  BY <1>1
<1>6. FlattenSeq(v) = FlattenSeq(u) \o v[n + 1]
  <2>1. v[n + 1] \in Seq(Words)
    BY <1>4
  <2> QED
    BY ONLY <1>n, <1>2, <1>3, <1>5, <2>1, FlatAppend
<1> QED
  BY <1>4, <1>6 DEF Col, u, v

Fits(s, c) == Bit(FieldIn(s, c)) \in Seq(Words)
Joins(s, q, c) == Col(s, c) = Col(s, q) \o Bit(FieldIn(s, c))
LEMMA ColStep ==
    ASSUME NEW s, NEW q, NEW i, NEW c, GoesTo(q, i, c), Fits(s, c)
    PROVE  Joins(s, q, c)
<1>1. Bit(FieldIn(s, c)) \in Seq(Words) /\ q \in Seq(Nat) /\ i \in Nat /\ c = Append(q, i)
  BY DEF GoesTo, Fits
<1> QED
  BY <1>1, ColSteps DEF Joins

LEMMA ColStart ==
    ASSUME NEW s
    PROVE  Col(s, <<>>) = <<>>
<1> DEFINE u == [k \in DOMAIN <<>> |-> Bit(FieldIn(s, SubSeq(<<>>, 1, k)))]
<1>1. DOMAIN u = 1..0 /\ Len(u) = 0 /\ u = <<>>
  OBVIOUS
<1> HIDE DEF u
<1>2. FlattenSeq(u) = u
  BY <1>1, FlatIs
<1> QED
  BY <1>1, <1>2 DEF Col, u

(* What is declared, and the columns among it. *)
FlatAt(s, p) == Ty(s, p) \in Types /\ \A q \in Before(p) : Ty(s, q) # Ty(s, p)
Allowed(s, q, i) == FlatAt(s, q) /\ i \in DOMAIN s[Ty(s, q)] /\ ~Ignored(s[Ty(s, q)][i])
Pos(s) == UNION {[1..n -> UNION {DOMAIN s[t] : t \in Types}] : n \in 1..Cardinality(Types)}
Dec(s) ==
    {p \in Pos(s) :
        \A n \in DOMAIN p : LET q == SubSeq(p, 1, n) IN
            /\ FlatAt(s, Front(q)) /\ p[n] \in DOMAIN s[Ty(s, Front(q))]
            /\ ~Ignored(FieldIn(s, q))}
OfCol(s) == {p \in Dec(s) : ~Embedded(FieldIn(s, p))}

LEMMA TyIs == \A p : TypeAt(p) = Ty(shape, p)
  BY DEF TypeAt, Ty, TyFrom

LEMMA FieldIs == \A p : At(p) = FieldIn(shape, p)
  BY TyIs DEF At, FieldIn

LEMMA ColIs == \A p : Column(p) = Col(shape, p)
<1> SUFFICES ASSUME NEW p PROVE Column(p) = Col(shape, p)
  OBVIOUS
<1> DEFINE u == [n \in DOMAIN p |-> IF Embedded(At(SubSeq(p, 1, n))) THEN <<>>
                                    ELSE At(SubSeq(p, 1, n)).name]
           v == [n \in DOMAIN p |-> Bit(FieldIn(shape, SubSeq(p, 1, n)))]
<1>1. u = v
  BY FieldIs DEF Bit
<1>2. Column(p) = FlattenSeq(u)
  BY DEF Column
<1>3. Col(shape, p) = FlattenSeq(v)
  BY DEF Col
<1> QED
  BY <1>1, <1>2, <1>3

LEMMA DecIs == Declared = Dec(shape) /\ OfColumns = OfCol(shape)
<1>1. \A p : Flattened(p) <=> FlatAt(shape, p)
  BY TyIs DEF Flattened, FlatAt
<1>2. Positions = Pos(shape)
  BY DEF Positions, Pos
<1>3. Declared = Dec(shape)
  BY <1>1, <1>2, TyIs, FieldIs DEF Declared, Dec
<1>4. OfColumns = OfCol(shape)
  BY <1>3, FieldIs DEF OfColumns, OfCol
<1> QED
  BY <1>3, <1>4

(* The positions of what is declared. *)
LEMMA PosType ==
    ASSUME NEW s \in Declarations, NEW p \in Pos(s)
    PROVE  /\ p \in Seq(Nat) /\ Len(p) \in Nat \ {0} /\ DOMAIN p = 1..Len(p)
           /\ \A k \in 1..Len(p) : p[k] \in Nat \ {0}
<1>1. PICK n \in 1..Cardinality(Types) : p \in [1..n -> UNION {DOMAIN s[t] : t \in Types}]
  BY DEF Pos
<1>2. \A i \in UNION {DOMAIN s[t] : t \in Types} : i \in Nat \ {0}
  BY FieldType
<1>3. n \in Nat \ {0}
  OBVIOUS
<1>4. p \in [1..n -> Nat] /\ \A k \in 1..n : p[k] \in Nat \ {0}
  BY <1>1, <1>2
<1>5. p \in Seq(Nat) /\ Len(p) = n
  BY <1>3, <1>4, SeqDef, LenProperties
<1> QED
  BY <1>3, <1>4, <1>5

LEMMA FrontOfPart ==
    ASSUME NEW p \in Seq(Nat), NEW n \in 1..Len(p), NEW q, q = SubSeq(p, 1, n)
    PROVE  Front(q) = SubSeq(p, 1, n - 1) /\ Last(q) = p[n]
<1>1. n \in Nat /\ n - 1 \in Nat /\ Len(p) \in Nat
  OBVIOUS
<1>2. q \in Seq(Nat) /\ Len(q) = n /\ \A k \in 1..n : q[k] = p[k]
  BY <1>1
<1>3. SubSeq(q, 1, n - 1) = SubSeq(p, 1, n - 1)
  <2>1. /\ SubSeq(q, 1, n - 1) \in Seq(Nat) /\ SubSeq(p, 1, n - 1) \in Seq(Nat)
        /\ Len(SubSeq(q, 1, n - 1)) = n - 1 /\ Len(SubSeq(p, 1, n - 1)) = n - 1
    BY <1>1, <1>2
  <2>2. \A k \in 1..n - 1 : SubSeq(q, 1, n - 1)[k] = SubSeq(p, 1, n - 1)[k]
    BY <1>1, <1>2
  <2> QED
    BY <2>1, <2>2, SeqEqual
<1> QED
  BY <1>1, <1>2, <1>3 DEF Front, Last

LEMMA DecWhen ==
    ASSUME NEW s \in Declarations, NEW p \in Pos(s)
    PROVE  p \in Dec(s) <=> \A n \in 1..Len(p) : Allowed(s, SubSeq(p, 1, n - 1), p[n])
<1>1. p \in Seq(Nat) /\ DOMAIN p = 1..Len(p)
  BY PosType
<1>2. \A n \in 1..Len(p) : /\ Front(SubSeq(p, 1, n)) = SubSeq(p, 1, n - 1)
                           /\ Last(SubSeq(p, 1, n)) = p[n]
  BY <1>1, FrontOfPart
<1> QED
  BY <1>1, <1>2 DEF Dec, Allowed, FieldIn

LEMMA UnderSub ==
    ASSUME NEW p \in Seq(Nat), NEW q \in Seq(Nat), Len(q) <= Len(p)
    PROVE  Under(q, p) <=> SubSeq(p, 1, Len(q)) = q
<1> DEFINE n == Len(q)
           u == SubSeq(p, 1, n)
<1>1. n \in 0..Len(p) /\ u \in Seq(Nat) /\ Len(u) = n /\ \A k \in 1..n : u[k] = p[k]
  OBVIOUS
<1> HIDE DEF u
<1>2. (u = q) <=> \A k \in 1..n : u[k] = q[k]
  BY <1>1, SeqEqual
<1> QED
  BY <1>1, <1>2 DEF Under, u

LEMMA DecType ==
    ASSUME NEW s \in Declarations, NEW p \in Dec(s)
    PROVE  /\ p \in Seq(Nat) /\ Len(p) \in Nat \ {0} /\ DOMAIN p = 1..Len(p) /\ p \in Pos(s)
           /\ \A k \in 1..Len(p) : p[k] \in Nat \ {0}
  BY PosType DEF Dec

(* Every position on the way to one that is declared is allowed. *)
LEMMA OnTheWay ==
    ASSUME NEW s \in Declarations, NEW p \in Dec(s), NEW q \in Seq(Nat), NEW i \in Nat,
           Under(Append(q, i), p)
    PROVE  Allowed(s, q, i)
<1> DEFINE a == Append(q, i)
           n == Len(q) + 1
<1>1. a \in Seq(Nat) /\ Len(a) = n /\ a[n] = i /\ Len(q) \in Nat
  OBVIOUS
<1>2. p \in Seq(Nat) /\ p \in Pos(s) /\ Len(p) \in Nat
  BY DecType
<1>3. n \in 1..Len(p) /\ n - 1 = Len(q) /\ p[n] = i
  BY <1>1, <1>2 DEF Under
<1>4. Allowed(s, SubSeq(p, 1, n - 1), p[n])
  BY <1>2, <1>3, DecWhen
<1>5. SubSeq(p, 1, Len(q)) = q
  <2>1. Under(q, a)
    BY UnderAppend
  <2>2. Under(q, p)
    BY <1>1, <1>2, <2>1, UnderTrans
  <2>3. Len(q) <= Len(p)
    BY <1>1, <1>3
  <2> QED
    BY <1>2, <2>2, <2>3, UnderSub
<1> QED
  BY <1>3, <1>4, <1>5

(* And what is allowed next is declared. *)
LEMMA NextDeclared ==
    ASSUME NEW s \in Declarations, NEW q \in Seq(Nat), q = <<>> \/ q \in Dec(s),
           NEW i \in Nat, Allowed(s, q, i), Len(q) + 1 <= Cardinality(Types), 
           Cardinality(Types) \in Nat, Ty(s, q) \in Types
    PROVE  Append(q, i) \in Dec(s)
<1> DEFINE a == Append(q, i)
           n == Len(q) + 1
           I == UNION {DOMAIN s[t] : t \in Types}
<1>1. a \in Seq(Nat) /\ Len(a) = n /\ a[n] = i /\ Len(q) \in Nat /\ \A k \in 1..Len(q) : a[k] = q[k]
  BY AppendFront
<1>2. i \in I
  BY DEF Allowed
<1>3. \A k \in 1..Len(q) : q[k] \in I
  <2>1. CASE q = <<>>
    BY <2>1
  <2>2. CASE q \in Dec(s)
    <3>1. PICK m \in 1..Cardinality(Types) : q \in [1..m -> I]
      BY <2>2 DEF Dec, Pos
    <3> HIDE DEF I
    <3>2. DOMAIN q = 1..m /\ DOMAIN q = 1..Len(q) /\ \A k \in 1..m : q[k] \in I
      BY <3>1
    <3> QED
      BY <3>2
  <2> QED
    BY <2>1, <2>2
<1>4. a \in Pos(s)
  <2>1. a \in [1..n -> I]
    <3>1. \A k \in 1..n : a[k] \in I
      <4> SUFFICES ASSUME NEW k \in 1..n PROVE a[k] \in I
        OBVIOUS
      <4>1. CASE k = n
        BY <1>1, <1>2, <4>1
      <4>2. CASE k # n
        <5>1. k \in 1..Len(q)
          BY <1>1, <4>2
        <5> HIDE DEF I, a
        <5> QED
          BY <1>1, <1>3, <5>1
      <4> QED
        BY <4>1, <4>2
    <3> HIDE DEF a, I
    <3>2. a = [k \in 1..n |-> a[k]]
      <4>1. DOMAIN a = 1..n /\ a = [k \in DOMAIN a |-> a[k]]
        BY <1>1
      <4> QED
        BY <4>1
    <3> QED
      BY <3>1, <3>2
  <2>2. n \in 1..Cardinality(Types)
    BY <1>1
  <2> HIDE DEF a, n
  <2> QED
    BY <2>1, <2>2 DEF Pos
<1>5. ASSUME NEW k \in 1..n
      PROVE  Allowed(s, SubSeq(a, 1, k - 1), a[k])
  <2>1. CASE k = n
    <3>1. SubSeq(a, 1, k - 1) = q
      <4>1. Under(q, a) /\ Len(q) <= Len(a) /\ k - 1 = Len(q)
        BY <1>1, <2>1, UnderAppend
      <4> HIDE DEF a
      <4> QED
        BY <1>1, <4>1, UnderSub
    <3> QED
      BY <1>1, <2>1, <3>1
  <2>2. CASE k # n
    <3>1. k \in 1..Len(q) /\ q # <<>>
      BY <1>1, <2>2
    <3>2. SubSeq(a, 1, k - 1) = SubSeq(q, 1, k - 1)
      <4>1. k - 1 \in Nat /\ k - 1 <= Len(q) /\ k - 1 <= Len(a)
        BY <1>1, <3>1
      <4> HIDE DEF a
      <4>a. SubSeq(a, 1, k - 1) \in Seq(Nat) /\ Len(SubSeq(a, 1, k - 1)) = k - 1
        <5>1. a \in Seq(Nat)
          BY <1>1
        <5> QED
          BY <4>1, <5>1
      <4>b. SubSeq(q, 1, k - 1) \in Seq(Nat) /\ Len(SubSeq(q, 1, k - 1)) = k - 1
        BY <4>1
      <4>2. /\ SubSeq(a, 1, k - 1) \in Seq(Nat) /\ SubSeq(q, 1, k - 1) \in Seq(Nat)
            /\ Len(SubSeq(a, 1, k - 1)) = k - 1 /\ Len(SubSeq(q, 1, k - 1)) = k - 1
        BY <4>a, <4>b
      <4>3. \A l \in 1..k - 1 : SubSeq(a, 1, k - 1)[l] = SubSeq(q, 1, k - 1)[l]
        BY <1>1, <4>1
      <4> QED
        BY <4>2, <4>3, SeqEqual
    <3>3. Allowed(s, SubSeq(q, 1, k - 1), q[k])
      <4>1. q \in Dec(s) /\ q \in Pos(s)
        BY <3>1, DecType
      <4> QED
        BY <3>1, <4>1, DecWhen
    <3>4. a[k] = q[k]
      BY <1>1, <3>1
    <3> QED
      BY <3>2, <3>3, <3>4
  <2> QED
    BY <2>1, <2>2
<1> HIDE DEF a
<1> QED
  BY <1>1, <1>4, <1>5, DecWhen DEF a

-----------------------------------------------------------------------------
(* The order of registration.                                              *)

(* The order of registration, position by position. *)
Lt(p, c) == \E n \in 1..Len(p) : n <= Len(c) /\ (\A k \in 1..n - 1 : p[k] = c[k]) /\ p[n] < c[n]
Sooner(p, q) == (Under(q, p) /\ p # q) \/ Lt(p, q)

LEMMA EarlierIs ==
    ASSUME NEW p \in Seq(Nat), NEW q \in Seq(Nat)
    PROVE  Earlier(p, q) <=> Sooner(p, q)
<1>0. Len(p) \in Nat /\ Len(q) \in Nat /\ DOMAIN p = 1..Len(p) /\ DOMAIN q = 1..Len(q)
  OBVIOUS
<1>1. IsStrictPrefix(q, p) <=> Under(q, p) /\ p # q
  <2>1. SubSeq(q, 1, Len(q)) = q
    <3>1. Under(q, q)
      BY <1>0 DEF Under
    <3> QED
      BY <1>0, <3>1, UnderSub
  <2>2. Len(q) <= Len(p) => (Under(q, p) <=> SubSeq(p, 1, Len(q)) = q)
    BY UnderSub
  <2> QED
    BY <2>1, <2>2 DEF IsStrictPrefix, IsPrefix, Under
<1>2. ASSUME NEW n \in Nat, n \in DOMAIN p \cap DOMAIN q
      PROVE  SubSeq(p, 1, n - 1) = SubSeq(q, 1, n - 1) <=> \A k \in 1..n - 1 : p[k] = q[k]
  <2> DEFINE u == SubSeq(p, 1, n - 1)
             v == SubSeq(q, 1, n - 1)
  <2>0. n - 1 \in Nat /\ n - 1 <= Len(p) /\ n - 1 <= Len(q)
    BY <1>0, <1>2
  <2>1. /\ u \in Seq(Nat) /\ v \in Seq(Nat) /\ Len(u) = n - 1 /\ Len(v) = n - 1
        /\ \A k \in 1..n - 1 : u[k] = p[k] /\ v[k] = q[k]
    BY <1>0, <2>0
  <2> HIDE DEF u, v
  <2>2. u = v <=> \A k \in 1..n - 1 : u[k] = v[k]
    BY <2>1, SeqEqual
  <2> QED
    BY <2>1, <2>2 DEF u, v
<1>3. Lt(p, q) <=> \E n \in DOMAIN p \cap DOMAIN q :
                      SubSeq(p, 1, n - 1) = SubSeq(q, 1, n - 1) /\ p[n] < q[n]
  <2>1. \A n : n \in DOMAIN p \cap DOMAIN q <=> n \in 1..Len(p) /\ n <= Len(q)
    BY <1>0
  <2>2. \A n \in 1..Len(p) : n \in Nat
    BY <1>0
  <2> QED
    BY <1>0, <1>2, <2>1, <2>2 DEF Lt
<1> QED
  BY <1>1, <1>3 DEF Earlier, Sooner

(* No two are sooner than each other. *)
LEMMA SoonerOne ==
    ASSUME NEW p \in Seq(Nat), NEW q \in Seq(Nat), Sooner(p, q), Sooner(q, p)
    PROVE  FALSE
<1>0. Len(p) \in Nat /\ Len(q) \in Nat /\ (\A k \in 1..Len(p) : p[k] \in Nat)
      /\ \A k \in 1..Len(q) : q[k] \in Nat
  OBVIOUS
<1>1. CASE Under(q, p) /\ Under(p, q)
  <2>1. Len(p) = Len(q)
    BY <1>0, <1>1 DEF Under
  <2>2. p = q
    BY <1>1, <2>1, UnderSame
  <2>3. ~Lt(p, p)
    BY <1>0 DEF Lt
  <2> QED
    BY <2>2, <2>3 DEF Sooner
<1>2. CASE Lt(p, q)
  <2>1. PICK n \in 1..Len(p) : n <= Len(q) /\ (\A k \in 1..n - 1 : p[k] = q[k]) /\ p[n] < q[n]
    BY <1>2 DEF Lt
  <2>2. ~Under(p, q)
    BY <1>0, <2>1 DEF Under
  <2>3. PICK m \in 1..Len(q) : m <= Len(p) /\ (\A k \in 1..m - 1 : q[k] = p[k]) /\ q[m] < p[m]
    BY <2>2 DEF Lt, Sooner
  <2>4. n < m \/ m < n \/ m = n
    BY <1>0
  <2>5. p[n] \in Nat /\ q[n] \in Nat /\ p[m] \in Nat /\ q[m] \in Nat
    BY <1>0, <2>1, <2>3
  <2>6. CASE n < m
    <3>1. n \in 1..m - 1
      BY <2>6
    <3> QED
      BY <2>1, <2>3, <2>5, <3>1
  <2>7. CASE m < n
    <3>1. m \in 1..n - 1
      BY <2>7
    <3> QED
      BY <2>1, <2>3, <2>5, <3>1
  <2>8. CASE m = n
    BY <2>1, <2>3, <2>5, <2>8
  <2> QED
    BY <2>4, <2>6, <2>7, <2>8
<1>3. CASE Under(q, p) /\ Lt(q, p)
  <2>1. PICK m \in 1..Len(q) : m <= Len(p) /\ (\A k \in 1..m - 1 : q[k] = p[k]) /\ q[m] < p[m]
    BY <1>3 DEF Lt
  <2>2. q[m] = p[m]
    BY <1>3 DEF Under
  <2> QED
    BY <1>0, <2>1, <2>2
<1> QED
  BY <1>1, <1>2, <1>3 DEF Sooner

(* Two fields of a struct, one after the other. *)
NextTo(q, i, c, d) ==
    q \in Seq(Nat) /\ i \in Nat /\ c = Append(q, i) /\ d = Append(q, i + 1)

(* What is before a position, as the position moves: to the next field,    *)
LEMMA LtNext ==
    ASSUME NEW p \in Seq(Nat), NEW q, NEW i, NEW c, NEW d, NextTo(q, i, c, d)
    PROVE  Lt(p, d) <=> Lt(p, c) \/ Under(c, p)
<1> DEFINE n == Len(q) + 1
           j == i + 1
<1>n. q \in Seq(Nat) /\ i \in Nat /\ c = Append(q, i) /\ d = Append(q, j)
  BY DEF NextTo
<1>0. n \in Nat /\ n \in 1..n /\ Len(p) \in Nat /\ \A k \in 1..Len(p) : p[k] \in Nat
  BY <1>n
<1>1. /\ Len(c) = n /\ Len(d) = n /\ c[n] = i /\ d[n] = j
      /\ \A k \in 1..n - 1 : c[k] = q[k] /\ d[k] = q[k]
  BY <1>0, <1>n
<1>2. i \in Nat /\ j = i + 1
  BY <1>n
<1> HIDE DEF n, j
<1>4. ASSUME Lt(p, c) PROVE Lt(p, d)
  <2>1. PICK m \in 1..Len(p) : m <= n /\ (\A k \in 1..m - 1 : p[k] = c[k]) /\ p[m] < c[m]
    BY <1>1, <1>2, <1>4 DEF Lt
  <2>2. \A k \in 1..m - 1 : k \in 1..n - 1
    BY <1>0, <2>1
  <2>3. p[m] < d[m]
    <3>1. CASE m = n
      BY <1>0, <1>1, <1>2, <2>1, <3>1
    <3>2. CASE m # n
      <4>1. m \in 1..n - 1
        BY <1>0, <2>1, <3>2
      <4> QED
        BY <1>1, <1>2, <2>1, <4>1
    <3> QED
      BY <3>1, <3>2
  <2>4. \A k \in 1..m - 1 : p[k] = d[k]
    BY <1>1, <1>2, <2>1, <2>2
  <2> QED
    BY <1>1, <1>2, <2>1, <2>3, <2>4 DEF Lt
<1>5. ASSUME Under(c, p) PROVE Lt(p, d)
  <2>1. n \in 1..Len(p) /\ \A k \in 1..n : p[k] = c[k]
    BY <1>0, <1>1, <1>2, <1>5 DEF Under
  <2>2. p[n] < d[n]
    BY <1>0, <1>1, <1>2, <2>1
  <2>3. \A k \in 1..n - 1 : p[k] = d[k]
    BY <1>0, <1>1, <1>2, <2>1
  <2>4. n <= Len(d)
    BY <1>0, <1>1, <1>2
  <2> QED
    BY <2>1, <2>2, <2>3, <2>4 DEF Lt
<1>6. ASSUME Lt(p, d), ~Lt(p, c) PROVE Under(c, p)
  <2>1. PICK m \in 1..Len(p) : m <= n /\ (\A k \in 1..m - 1 : p[k] = d[k]) /\ p[m] < d[m]
    BY <1>1, <1>2, <1>6 DEF Lt
  <2>2. \A k \in 1..m - 1 : p[k] = c[k]
    <3>1. \A k \in 1..m - 1 : k \in 1..n - 1
      BY <1>0, <2>1
    <3> QED
      BY <1>1, <1>2, <2>1, <3>1
  <2>3. ~(p[m] < c[m])
    BY <1>1, <1>2, <1>6, <2>1, <2>2 DEF Lt
  <2>4. m = n
    <3>1. ASSUME m # n PROVE FALSE
      <4>1. m \in 1..n - 1
        BY <1>0, <2>1, <3>1
      <4> QED
        BY <1>1, <1>2, <2>1, <2>3, <4>1
    <3> QED
      BY <3>1
  <2>5. p[n] = c[n]
    BY <1>0, <1>1, <1>2, <2>1, <2>3, <2>4
  <2>6. \A k \in 1..n : p[k] = c[k]
    <3>1. \A k \in 1..n : k = n \/ k \in 1..m - 1
      BY <1>0, <2>4
    <3> QED
      BY <2>2, <2>5, <3>1
  <2> QED
    BY <1>0, <1>1, <1>2, <2>1, <2>4, <2>6 DEF Under
<1> QED
  BY <1>4, <1>5, <1>6

(* into a struct, *)
LEMMA LtDown ==
    ASSUME NEW p \in Seq(Nat), \A k \in 1..Len(p) : p[k] \in Nat \ {0},
           NEW c \in Seq(Nat), NEW d, d = Append(c, 1)
    PROVE  Lt(p, d) <=> Lt(p, c)
<1> DEFINE n == Len(c)
<1>1. n \in Nat /\ Len(d) = n + 1 /\ d[n + 1] = 1 /\ (\A k \in 1..n : d[k] = c[k]) /\ Len(p) \in Nat
  OBVIOUS
<1> HIDE DEF n
<1>2. ASSUME Lt(p, c) PROVE Lt(p, d)
  <2>1. PICK m \in 1..Len(p) : m <= n /\ (\A k \in 1..m - 1 : p[k] = c[k]) /\ p[m] < c[m]
    BY <1>2 DEF Lt, n
  <2>2. m <= Len(d) /\ m \in 1..n /\ \A k \in 1..m - 1 : k \in 1..n
    BY <1>1, <2>1
  <2>3. p[m] < d[m] /\ \A k \in 1..m - 1 : p[k] = d[k]
    BY <1>1, <2>1, <2>2
  <2> QED
    BY <2>2, <2>3 DEF Lt
<1>3. ASSUME Lt(p, d) PROVE Lt(p, c)
  <2>1. PICK m \in 1..Len(p) : m <= n + 1 /\ (\A k \in 1..m - 1 : p[k] = d[k]) /\ p[m] < d[m]
    BY <1>1, <1>3 DEF Lt
  <2>2. m # n + 1
    BY <1>1, <2>1
  <2>3. m <= n /\ m \in 1..n /\ \A k \in 1..m - 1 : k \in 1..n
    BY <1>1, <2>1, <2>2
  <2>4. p[m] < c[m] /\ \A k \in 1..m - 1 : p[k] = c[k]
    BY <1>1, <2>1, <2>3
  <2>5. m <= Len(c)
    BY <2>3 DEF n
  <2> QED
    BY <2>4, <2>5 DEF Lt
<1> QED
  BY <1>2, <1>3

(* and out of it. *)
LEMMA LtUp ==
    ASSUME NEW p \in Seq(Nat), NEW q \in Seq(Nat), NEW i \in Nat, NEW c, c = Append(q, i)
    PROVE  /\ Lt(p, c) => Sooner(p, q)
           /\ Lt(p, q) => Lt(p, c)
           /\ Under(q, p) /\ p # q => Len(q) + 1 \in 1..Len(p)
           /\ Under(q, p) /\ p # q /\ p[Len(q) + 1] < i => Lt(p, c)
<1> DEFINE n == Len(q)
<1>1. n \in Nat /\ Len(c) = n + 1 /\ c[n + 1] = i /\ (\A k \in 1..n : c[k] = q[k]) /\ Len(p) \in Nat
  OBVIOUS
<1> HIDE DEF n
<1>2. ASSUME Lt(p, c) PROVE Sooner(p, q)
  <2>1. PICK m \in 1..Len(p) : m <= n + 1 /\ (\A k \in 1..m - 1 : p[k] = c[k]) /\ p[m] < c[m]
    BY <1>1, <1>2 DEF Lt
  <2>2. CASE m = n + 1
    <3>1. \A k \in 1..n : k \in 1..m - 1
      BY <1>1, <2>2
    <3>2. \A k \in 1..n : p[k] = q[k]
      BY <1>1, <2>1, <3>1
    <3>3. n < Len(p) /\ n <= Len(p)
      BY <1>1, <2>1, <2>2
    <3>4. Under(q, p)
      BY <3>2, <3>3 DEF Under, n
    <3>5. p # q
      BY <1>1, <3>3 DEF n
    <3> QED
      BY <3>4, <3>5 DEF Sooner
  <2>3. CASE m # n + 1
    <3>1. m <= n /\ m \in 1..n /\ \A k \in 1..m - 1 : k \in 1..n
      BY <1>1, <2>1, <2>3
    <3>2. p[m] < q[m] /\ \A k \in 1..m - 1 : p[k] = q[k]
      BY <1>1, <2>1, <3>1
    <3>3. Lt(p, q)
      BY <3>1, <3>2 DEF Lt, n
    <3> QED
      BY <3>3 DEF Sooner
  <2> QED
    BY <2>2, <2>3
<1>3. ASSUME Lt(p, q) PROVE Lt(p, c)
  <2>1. PICK m \in 1..Len(p) : m <= n /\ (\A k \in 1..m - 1 : p[k] = q[k]) /\ p[m] < q[m]
    BY <1>3 DEF Lt, n
  <2>2. m <= Len(c) /\ m \in 1..n /\ \A k \in 1..m - 1 : k \in 1..n
    BY <1>1, <2>1
  <2>3. p[m] < c[m] /\ \A k \in 1..m - 1 : p[k] = c[k]
    BY <1>1, <2>1, <2>2
  <2> QED
    BY <2>2, <2>3 DEF Lt
<1>4. ASSUME Under(q, p), p # q PROVE n + 1 \in 1..Len(p)
  <2>1. n <= Len(p)
    BY <1>4 DEF Under, n
  <2>2. n # Len(p)
    BY <1>4, UnderSame DEF n
  <2> QED
    BY <1>1, <2>1, <2>2
<1>5. ASSUME Under(q, p), p # q, p[n + 1] < i PROVE Lt(p, c)
  <2>1. n + 1 \in 1..Len(p) /\ n + 1 <= Len(c)
    BY <1>1, <1>4, <1>5
  <2>2. \A k \in 1..n : p[k] = c[k]
    BY <1>1, <1>5 DEF Under, n
  <2>3. p[n + 1] < c[n + 1]
    BY <1>1, <1>5
  <2> DEFINE m == n + 1
  <2>4. m \in 1..Len(p) /\ m <= Len(c) /\ (\A k \in 1..m - 1 : p[k] = c[k]) /\ p[m] < c[m]
    BY <1>1, <2>1, <2>2, <2>3
  <2> HIDE DEF m
  <2> QED
    BY <2>4 DEF Lt
<1> QED
  BY <1>2, <1>3, <1>4, <1>5 DEF n

(* Maps that have the columns of D: each path the last of its name, each   *)
(* bare name that is no path the first.                                    *)
Latest(s, D, c, p) ==
    p \in D /\ Col(s, p) = c /\ \A q \in D : Col(s, q) = c /\ q # p => Sooner(q, p)
Foremost(s, D, c, p) ==
    p \in D /\ FieldIn(s, p).name = c
    /\ \A q \in D : FieldIn(s, q).name = c /\ q # p => Sooner(p, q)
Reflects(s, ns, ps, D) ==
    /\ DOMAIN ps = {Col(s, p) : p \in D}
    /\ \A c \in DOMAIN ps : Latest(s, D, c, ps[c].index)
    /\ DOMAIN ns = DOMAIN ps \cup {FieldIn(s, p).name : p \in D}
    /\ \A c \in DOMAIN ns \ DOMAIN ps : Foremost(s, D, c, ns[c].index)

LEMMA RegisterReflects ==
    ASSUME NEW s, NEW D, Reflects(s, names, paths, D),
           NEW p, \A q \in D : Sooner(q, p),
           NEW fi, fi.index = p, fi.path = Col(s, p), fi.name = FieldIn(s, p).name,
           Register(fi), NEW E, E = D \cup {p}
    PROVE  Reflects(s, names', paths', E)
<1> DEFINE x == fi.path
           y == fi.name
           mid == Put(names, x, fi)
<1>1. /\ DOMAIN paths' = DOMAIN paths \cup {x} /\ paths'[x] = fi
      /\ \A c \in DOMAIN paths : c # x => paths'[c] = paths[c]
  BY DEF Register, Put
<1>2. /\ DOMAIN mid = DOMAIN names \cup {x} /\ mid[x] = fi
      /\ \A c \in DOMAIN names : c # x => mid[c] = names[c]
  BY DEF Put
<1>3. names' = IF y \in DOMAIN mid THEN mid ELSE Put(mid, y, fi)
  BY DEF Register
<1> HIDE DEF mid
<1>4. /\ DOMAIN names' = DOMAIN names \cup {x, y}
      /\ \A c \in DOMAIN names : c # x => names'[c] = names[c]
      /\ y \notin DOMAIN names /\ y # x => names'[y] = fi
  <2>1. CASE y \in DOMAIN mid
    BY <1>2, <1>3, <2>1
  <2>2. CASE y \notin DOMAIN mid
    BY <1>2, <1>3, <2>2 DEF Put
  <2> QED
    BY <2>1, <2>2
<1>5. x = Col(s, p) /\ y = FieldIn(s, p).name /\ fi.index = p
  OBVIOUS
<1> HIDE DEF x, y
<1>6. /\ DOMAIN paths = {Col(s, q) : q \in D}
      /\ \A c \in DOMAIN paths : Latest(s, D, c, paths[c].index)
      /\ DOMAIN names = DOMAIN paths \cup {FieldIn(s, q).name : q \in D}
      /\ \A c \in DOMAIN names \ DOMAIN paths : Foremost(s, D, c, names[c].index)
  BY DEF Reflects
<1>7. DOMAIN paths' = {Col(s, q) : q \in E}
  BY <1>1, <1>5, <1>6
<1>8. DOMAIN names' = DOMAIN paths' \cup {FieldIn(s, q).name : q \in E}
  BY <1>1, <1>4, <1>5, <1>6
<1>9. ASSUME NEW c \in DOMAIN paths'
      PROVE  Latest(s, E, c, paths'[c].index)
  <2>1. CASE c = x
    BY <1>1, <1>5, <2>1 DEF Latest
  <2>2. CASE c # x
    <3>1. Latest(s, D, c, paths[c].index) /\ paths'[c] = paths[c]
      BY <1>1, <1>6, <1>9, <2>2
    <3> QED
      BY <1>5, <2>2, <3>1 DEF Latest
  <2> QED
    BY <2>1, <2>2
<1>10. ASSUME NEW c \in DOMAIN names' \ DOMAIN paths'
       PROVE  Foremost(s, E, c, names'[c].index)
  <2>1. c # x /\ c \notin DOMAIN paths
    BY <1>1
  <2>2. CASE c \in DOMAIN names
    <3>1. Foremost(s, D, c, names[c].index) /\ names'[c] = names[c]
      BY <1>4, <1>6, <2>1, <2>2
    <3> QED
      BY <3>1 DEF Foremost
  <2>3. CASE c \notin DOMAIN names
    <3>1. c = y /\ names'[c] = fi
      BY <1>4, <2>1, <2>3
    <3>2. \A q \in D : FieldIn(s, q).name # c
      BY <1>6, <2>3
    <3> QED
      BY <1>5, <3>1, <3>2 DEF Foremost
  <2> QED
    BY <2>2, <2>3
<1> QED
  BY <1>7, <1>8, <1>9, <1>10 DEF Reflects

(* The maps in the words of MappedAsDeclared. *)
LEMMA ReflectsNamed ==
    ASSUME shape \in Declarations, Reflects(shape, names, paths, OfCol(shape)),
           \A c \in DOMAIN paths : names[c] = paths[c]
    PROVE  /\ DOMAIN paths = {Column(p) : p \in OfColumns}
           /\ DOMAIN names = DOMAIN paths \cup {At(p).name : p \in OfColumns}
           /\ \A c \in DOMAIN names : names[c].index = FieldNamed(c)
<1> DEFINE D == OfCol(shape)
<1>1. OfColumns = D /\ (\A p : Column(p) = Col(shape, p)) /\ \A p : At(p) = FieldIn(shape, p)
  BY DecIs, ColIs, FieldIs
<1>2. \A p \in D : p \in Seq(Nat)
  BY DecType DEF OfCol
<1> HIDE DEF D
<1>3. /\ DOMAIN paths = {Col(shape, p) : p \in D}
      /\ \A c \in DOMAIN paths : Latest(shape, D, c, paths[c].index)
      /\ DOMAIN names = DOMAIN paths \cup {FieldIn(shape, p).name : p \in D}
      /\ \A c \in DOMAIN names \ DOMAIN paths : Foremost(shape, D, c, names[c].index)
  BY DEF Reflects, D
<1>4. ASSUME NEW c \in DOMAIN names
      PROVE  names[c].index = FieldNamed(c)
  <2> DEFINE full == {p \in OfColumns : Column(p) = c}
             bare == {p \in OfColumns : At(p).name = c}
             i == names[c].index
             z == CHOOSE p \in full : \A q \in full \ {p} : Earlier(q, p)
             w == CHOOSE p \in bare : \A q \in bare \ {p} : Earlier(p, q)
  <2>1. \A p : p \in full <=> p \in D /\ Col(shape, p) = c
    BY <1>1
  <2>2. \A p : p \in bare <=> p \in D /\ FieldIn(shape, p).name = c
    BY <1>1
  <2>3. FieldNamed(c) = IF full # {} THEN z ELSE w
    BY DEF FieldNamed
  <2> HIDE DEF full, bare, i
  <2>4. CASE c \in DOMAIN paths
    <3>1. Latest(shape, D, c, i)
      BY <1>3, <2>4 DEF i
    <3>2. i \in full /\ \A q \in full \ {i} : Earlier(q, i)
      BY <1>2, <2>1, <3>1, EarlierIs DEF Latest
    <3>3. z \in full /\ \A q \in full \ {z} : Earlier(q, z)
      BY <3>2
    <3> HIDE DEF z
    <3>4. ASSUME z # i PROVE FALSE
      <4>1. z \in Seq(Nat) /\ i \in Seq(Nat)
        BY <1>2, <2>1, <3>2, <3>3
      <4>2. Earlier(z, i) /\ Earlier(i, z)
        BY <3>2, <3>3, <3>4
      <4> QED
        BY <4>1, <4>2, EarlierIs, SoonerOne
    <3> QED
      BY <2>3, <3>2, <3>4 DEF i
  <2>5. CASE c \notin DOMAIN paths
    <3>1. Foremost(shape, D, c, i)
      BY <1>3, <2>5 DEF i
    <3>2. i \in bare /\ \A q \in bare \ {i} : Earlier(i, q)
      BY <1>2, <2>2, <3>1, EarlierIs DEF Foremost
    <3>3. w \in bare /\ \A q \in bare \ {w} : Earlier(w, q)
      BY <3>2
    <3>4. full = {}
      BY <1>3, <2>1, <2>5
    <3> HIDE DEF w
    <3>5. ASSUME w # i PROVE FALSE
      <4>1. w \in Seq(Nat) /\ i \in Seq(Nat)
        BY <1>2, <2>2, <3>2, <3>3
      <4>2. Earlier(w, i) /\ Earlier(i, w)
        BY <3>2, <3>3, <3>5
      <4> QED
        BY <4>1, <4>2, EarlierIs, SoonerOne
    <3> QED
      BY <2>3, <3>4, <3>5 DEF i
  <2> QED
    BY <2>4, <2>5
<1> QED
  BY <1>1, <1>3, <1>4

LEMMA BeforeAppend ==
    ASSUME NEW q \in Seq(Nat), NEW i \in Nat
    PROVE  Before(Append(q, i)) = Before(q) \cup {q}
<1> DEFINE a == Append(q, i)
           n == Len(q)
<1>1. n \in Nat /\ a \in Seq(Nat) /\ Len(a) = n + 1 /\ \A k \in 1..n : a[k] = q[k]
  OBVIOUS
<1>2. ASSUME NEW m \in 0..n
      PROVE  SubSeq(a, 1, m) = SubSeq(q, 1, m)
  <2> HIDE DEF a, n
  <2>1. /\ SubSeq(a, 1, m) \in Seq(Nat) /\ SubSeq(q, 1, m) \in Seq(Nat)
        /\ Len(SubSeq(a, 1, m)) = m /\ Len(SubSeq(q, 1, m)) = m
    BY <1>1 DEF n
  <2>2. ASSUME NEW l \in 1..m
        PROVE  SubSeq(a, 1, m)[l] = SubSeq(q, 1, m)[l]
    <3>1. SubSeq(a, 1, m)[l] = a[l]
      BY <1>1
    <3>2. SubSeq(q, 1, m)[l] = q[l]
      BY <1>1 DEF n
    <3>3. l \in 1..n
      BY <1>1
    <3> QED
      BY <1>1, <3>1, <3>2, <3>3
  <2> QED
    BY <2>1, <2>2, SeqEqual
<1>3. SubSeq(q, 1, n) = q
  <2>1. Under(q, q)
    BY DEF Under
  <2> QED
    BY <1>1, <2>1, UnderSub
<1> HIDE DEF a
<1>4. \A m : m \in 0..(Len(a) - 1) <=> m \in 0..(n - 1) \/ m = n
  BY <1>1
<1>5. ASSUME NEW r
      PROVE  r \in Before(a) <=> r \in Before(q) \/ r = q
  <2>1. r \in Before(a) <=> \E m \in 0..(Len(a) - 1) : r = SubSeq(a, 1, m)
    BY DEF Before
  <2>2. r \in Before(q) <=> \E m \in 0..(n - 1) : r = SubSeq(q, 1, m)
    BY DEF Before
  <2>3. \A m \in 0..(n - 1) : m \in 0..n /\ n \in 0..n
    BY <1>1
  <2>4. n \in 0..n
    BY <1>1
  <2> HIDE DEF n
  <2> QED
    BY <1>2, <1>3, <1>4, <2>1, <2>2, <2>3, <2>4
<1> QED
  BY <1>5 DEF a

LEMMA BeforeNothing == Before(<<>>) = {}
<1>1. Len(<<>>) = 0
  OBVIOUS
<1>2. 0..(0 - 1) = {}
  OBVIOUS
<1> QED
  BY <1>1, <1>2 DEF Before

(* A longer way that is declared goes on in a field. *)
LEMMA GoesOn ==
    ASSUME NEW s \in Declarations, NEW p \in Dec(s), NEW q \in Seq(Nat), Under(q, p), p # q
    PROVE  \E i \in Nat : i = p[Len(q) + 1] /\ Len(q) + 1 \in 1..Len(p) /\ Allowed(s, q, i)
<1>1. p \in Seq(Nat) /\ \A k \in 1..Len(p) : p[k] \in Nat
  BY DecType
<1>2. Len(q) + 1 \in 1..Len(p)
  BY <1>1, LtUp
<1> DEFINE i == p[Len(q) + 1]
<1>3. i \in Nat
  BY <1>1, <1>2
<1>4. Under(Append(q, i), p)
  <2> DEFINE a == Append(q, i)
             n == Len(q) + 1
  <2>1. Len(a) = n /\ a[n] = p[n] /\ (\A k \in 1..Len(q) : a[k] = q[k]) /\ Len(q) \in Nat
    BY <1>3
  <2>2. n <= Len(p) /\ \A k \in 1..Len(q) : q[k] = p[k]
    BY <1>2 DEF Under
  <2>3. \A k \in 1..n : k = n \/ k \in 1..Len(q)
    BY <2>1
  <2>4. \A k \in 1..n : a[k] = p[k]
    <3> HIDE DEF a, n
    <3> QED
      BY <2>1, <2>2, <2>3
  <2> HIDE DEF a, n
  <2>5. Under(a, p)
    BY <2>1, <2>2, <2>4 DEF Under
  <2> QED
    BY <2>5 DEF a
<1>5. Allowed(s, q, i)
  BY <1>3, <1>4, OnTheWay
<1> QED
  BY <1>2, <1>3, <1>5

(* What is done when a field is skipped, mapped with no fields of its own, *)
(* or left, and when the struct itself is left.                            *)
LEMMA DoneSkip ==
    ASSUME NEW s \in Declarations, NEW q, NEW i, NEW c, NEW d, NextTo(q, i, c, d),
           ~Allowed(s, q, i), NEW p \in Dec(s)
    PROVE  Lt(p, d) <=> Lt(p, c)
<1>1. p \in Seq(Nat)
  BY DecType
<1>2. ~Under(c, p)
  BY OnTheWay DEF NextTo
<1> QED
  BY <1>1, <1>2, LtNext

LEMMA DoneLeaf ==
    ASSUME NEW s \in Declarations, NEW q, NEW i, NEW c, NEW d, NextTo(q, i, c, d),
           ~FlatAt(s, c), NEW p \in Dec(s)
    PROVE  Lt(p, d) <=> Lt(p, c) \/ p = c
<1>1. p \in Seq(Nat) /\ c \in Seq(Nat)
  BY DecType DEF NextTo
<1>2. Under(c, p) <=> p = c
  <2>1. ASSUME Under(c, p), p # c PROVE FALSE
    BY <1>1, <2>1, GoesOn DEF Allowed
  <2>2. Under(c, c)
    BY <1>1 DEF Under
  <2> QED
    BY <2>1, <2>2
<1> QED
  BY <1>1, <1>2, LtNext

LEMMA DoneDown ==
    ASSUME NEW s \in Declarations, NEW p \in Dec(s), NEW c \in Seq(Nat), NEW d, d = Append(c, 1)
    PROVE  Lt(p, d) <=> Lt(p, c)
  BY DecType, LtDown

IsOver(s, q, i) == \A k \in DOMAIN s[Ty(s, q)] : k < i
LEMMA DoneUp ==
    ASSUME NEW s \in Declarations, NEW r, NEW j, NEW q, NEW d, NextTo(r, j, q, d),
           NEW i, IsOver(s, q, i), NEW p \in Dec(s), NEW c, GoesTo(q, i, c)
    PROVE  Lt(p, d) <=> Lt(p, c) \/ p = q
<1>0. i \in Nat /\ (\A k \in DOMAIN s[Ty(s, q)] : k < i) /\ c = Append(q, i)
  BY DEF GoesTo, IsOver
<1>1. p \in Seq(Nat) /\ q \in Seq(Nat)
  BY DecType DEF NextTo
<1>2. Lt(p, d) <=> Lt(p, q) \/ Under(q, p)
  BY <1>1, LtNext
<1>3. /\ Lt(p, c) => Sooner(p, q)
      /\ Lt(p, q) => Lt(p, c)
      /\ Under(q, p) /\ p # q /\ p[Len(q) + 1] < i => Lt(p, c)
  BY <1>0, <1>1, LtUp
<1>4. Under(q, p) /\ p # q => p[Len(q) + 1] < i
  BY <1>0, <1>1, GoesOn DEF Allowed
<1>5. Under(q, q)
  BY <1>1 DEF Under
<1> QED
  BY <1>2, <1>3, <1>4, <1>5 DEF Sooner

LEMMA DoneAll ==
    ASSUME NEW s \in Declarations, NEW i \in Nat, \A k \in DOMAIN s[Ty(s, <<>>)] : k < i,
           NEW p \in Dec(s), NEW c, c = Append(<<>>, i)
    PROVE  Lt(p, c)
<1> DEFINE q == <<>>
<1>1. p \in Seq(Nat) /\ q \in Seq(Nat) /\ Len(p) # 0
  BY DecType
<1>2. Len(q) = 0 /\ Under(q, p) /\ p # q
  BY <1>1 DEF Under
<1>3. Under(q, p) /\ p # q /\ p[Len(q) + 1] < i => Lt(p, c)
  BY <1>1, LtUp
<1>4. p[Len(q) + 1] < i
  <2>1. \A k \in DOMAIN s[Ty(s, q)] : k < i
    OBVIOUS
  <2> HIDE DEF q
  <2>2. PICK j \in Nat : j = p[Len(q) + 1] /\ Allowed(s, q, j)
    BY <1>1, <1>2, GoesOn
  <2>3. j \in DOMAIN s[Ty(s, q)]
    BY <2>2 DEF Allowed
  <2> QED
    BY <2>1, <2>2, <2>3
<1> QED
  BY <1>2, <1>3, <1>4

-----------------------------------------------------------------------------
(* The flattening goes through the declarations in this order.             *)

(* A call of flattenFields is at the field of its parent, which is         *)
(* declared, and knows its column; the calls are on the way to each other. *)
FrameAt(s, fr, q) ==
    /\ q \in Seq(Nat) /\ fr.type = Ty(s, q) /\ fr.prefix = Col(s, q)
    /\ q = <<>> => fr.parent.path = <<>>
    /\ q # <<>> => /\ q \in Dec(s)
                   /\ fr.parent.path = IF Embedded(FieldIn(s, q)) THEN <<>> ELSE Col(s, q)
                   /\ ~Embedded(FieldIn(s, q)) => fr.parent.name = FieldIn(s, q).name
Follows(s, st, k) ==
    /\ FrameAt(s, st[k], st[k].parent.index) /\ Len(st[k].parent.index) = k - 1
    /\ st[k].i \in 1..Len(s[st[k].type]) + 1
    /\ {Ty(s, r) : r \in Before(st[k].parent.index)} = {st[j].type : j \in 1..k - 1}
    /\ k > 1 => st[k].parent.index = Append(st[k - 1].parent.index, st[k - 1].i)
Stands(s, st) == \A k \in DOMAIN st : Follows(s, st, k)

(* The same calls, or the outer ones among them, the innermost moved on.   *)
LEMMA StandsOn ==
    ASSUME NEW s \in Declarations, NEW st \in Seq(Frame), Stands(s, st),
           NEW m \in 1..Len(st), st[m].i \in DOMAIN s[st[m].type],
           NEW su \in Seq(Frame), Len(su) = m,
           \A k \in 1..m : /\ su[k].type = st[k].type /\ su[k].parent = st[k].parent
                           /\ su[k].prefix = st[k].prefix
                           /\ su[k].i = IF k = m THEN st[k].i + 1 ELSE st[k].i
    PROVE  Stands(s, su)
<1>1. m \in Nat /\ Len(st) \in Nat /\ DOMAIN st = 1..Len(st) /\ DOMAIN su = 1..m
  OBVIOUS
<1> SUFFICES ASSUME NEW k \in 1..m PROVE Follows(s, su, k)
  BY <1>1 DEF Stands
<1>2. Follows(s, st, k)
  BY <1>1 DEF Stands
<1>3. su[k].type = st[k].type /\ su[k].parent = st[k].parent /\ su[k].prefix = st[k].prefix
  OBVIOUS
<1>4. FrameAt(s, su[k], su[k].parent.index) /\ Len(su[k].parent.index) = k - 1
  BY <1>2, <1>3 DEF Follows, FrameAt
<1>5. su[k].i \in 1..Len(s[su[k].type]) + 1
  <2>1. CASE k = m
    <3> DEFINE t == st[k].type
    <3>1. t \in Types
      <4>1. st[k] \in Frame
        BY <1>1
      <4> QED
        BY <4>1 DEF Frame
    <3> HIDE DEF t
    <3>2. s[t] \in Seq(Field)
      BY <3>1 DEF Declarations
    <3>3. Len(s[t]) \in Nat /\ DOMAIN s[t] = 1..Len(s[t])
      BY <3>2
    <3>4. st[k].i \in 1..Len(s[t]) /\ su[k].i = st[k].i + 1
      BY <2>1, <3>3 DEF t
    <3>5. su[k].i \in 1..Len(s[t]) + 1
      BY <3>3, <3>4
    <3> QED
      BY <1>3, <3>5 DEF t
  <2>2. CASE k # m
    BY <1>2, <1>3, <2>2 DEF Follows
  <2> QED
    BY <2>1, <2>2
<1>6. {Ty(s, r) : r \in Before(su[k].parent.index)} = {su[j].type : j \in 1..k - 1}
  <2>1. \A j \in 1..k - 1 : j \in 1..m
    BY <1>1
  <2>2. {su[j].type : j \in 1..k - 1} = {st[j].type : j \in 1..k - 1}
    BY <2>1
  <2>3. {Ty(s, r) : r \in Before(st[k].parent.index)} = {st[j].type : j \in 1..k - 1}
    BY <1>2 DEF Follows
  <2> QED
    BY <1>3, <2>2, <2>3
<1>7. ASSUME k > 1
      PROVE  su[k].parent.index = Append(su[k - 1].parent.index, su[k - 1].i)
  <2> DEFINE j == k - 1
  <2>1. j \in 1..m /\ j # m
    BY <1>1, <1>7
  <2>2. st[k].parent.index = Append(st[j].parent.index, st[j].i)
    BY <1>2, <1>7 DEF Follows
  <2> HIDE DEF j
  <2>3. su[j].parent = st[j].parent /\ su[j].i = st[j].i
    BY <2>1
  <2>4. su[k].parent.index = Append(su[j].parent.index, su[j].i)
    BY <1>3, <2>2, <2>3
  <2> QED
    BY <2>4 DEF j
<1> QED
  BY <1>4, <1>5, <1>6, <1>7 DEF Follows

(* One more call. *)
LEMMA StandsDown ==
    ASSUME NEW s \in Declarations, NEW st \in Seq(Frame), Stands(s, st), NEW n, n = Len(st),
           n # 0, NEW q, q = st[n].parent.index, NEW i, i = st[n].i,
           NEW fr \in Frame, fr.parent.index = Append(q, i), FrameAt(s, fr, Append(q, i)),
           fr.i = 1, NEW su, su = Append(st, fr)
    PROVE  Stands(s, su)
<1> DEFINE m == n + 1
           c == Append(q, i)
<1>1. n \in Nat /\ n \in 1..n /\ m \in Nat /\ m - 1 = n /\ DOMAIN st = 1..n /\ DOMAIN su = 1..m
      /\ su[m] = fr /\ \A k \in 1..n : su[k] = st[k]
  BY SMT
<1>2. Follows(s, st, n)
  BY <1>1 DEF Stands
<1>3. q \in Seq(Nat) /\ Len(q) = n - 1 /\ i \in Nat
  BY <1>2, <1>1 DEF Follows, FrameAt
<1>4. ASSUME NEW k \in 1..n PROVE Follows(s, su, k)
  <2>1. Follows(s, st, k)
    BY <1>1, <1>4 DEF Stands
  <2>2. su[k] = st[k] /\ \A j \in 1..k - 1 : j \in 1..n
    BY <1>1, <1>4
  <2>3. {su[j].type : j \in 1..k - 1} = {st[j].type : j \in 1..k - 1}
    BY <1>1, <2>2
  <2>4. k > 1 => su[k - 1] = st[k - 1]
    <3>1. k > 1 => k - 1 \in 1..n
      BY <1>1, <1>4
    <3> QED
      BY <1>1, <3>1
  <2> QED
    BY <2>1, <2>2, <2>3, <2>4 DEF Follows
<1>5. Follows(s, su, m)
  <2>1. FrameAt(s, su[m], su[m].parent.index)
    BY <1>1
  <2>2. Len(su[m].parent.index) = m - 1
    <3>1. Len(c) = Len(q) + 1
      BY <1>3
    <3> QED
      BY <1>1, <1>3, <3>1
  <2>3. su[m].i \in 1..Len(s[su[m].type]) + 1
    <3>1. s[fr.type] \in Seq(Field)
      BY DEF Frame, Declarations
    <3> DEFINE z == Len(s[fr.type])
    <3>2. z \in Nat
      BY <3>1
    <3> HIDE DEF z
    <3>3. 1 \in 1..z + 1
      BY <3>2
    <3> QED
      BY <1>1, <3>3 DEF z
  <2>4. {Ty(s, r) : r \in Before(su[m].parent.index)} = {su[j].type : j \in 1..m - 1}
    <3>1. Before(c) = Before(q) \cup {q}
      BY <1>3, BeforeAppend
    <3>2. {Ty(s, r) : r \in Before(q)} = {st[j].type : j \in 1..n - 1}
      BY <1>2 DEF Follows
    <3>3. st[n].type = Ty(s, q)
      BY <1>2 DEF Follows, FrameAt
    <3>4. \A j : j \in 1..n <=> j \in 1..n - 1 \/ j = n
      BY <1>1
    <3> HIDE DEF m, c
    <3>5. {Ty(s, r) : r \in Before(c)} = {st[j].type : j \in 1..n}
      <4>1. {Ty(s, r) : r \in Before(c)} = {Ty(s, r) : r \in Before(q)} \cup {Ty(s, q)}
        BY <3>1
      <4>2. {st[j].type : j \in 1..n} = {st[j].type : j \in 1..n - 1} \cup {st[n].type}
        <5>1. \A x : x \in {st[j].type : j \in 1..n} <=> \E j : j \in 1..n /\ x = st[j].type
          OBVIOUS
        <5> QED
          BY <3>4, <5>1
      <4> QED
        BY <3>2, <3>3, <4>1, <4>2
    <3>6. {su[j].type : j \in 1..n} = {st[j].type : j \in 1..n}
      BY <1>1
    <3>7. su[m].parent.index = c
      BY <1>1 DEF c
    <3> QED
      BY <1>1, <3>5, <3>6, <3>7
  <2>5. su[m].parent.index = Append(su[m - 1].parent.index, su[m - 1].i)
    BY <1>1
  <2> HIDE DEF m
  <2> QED
    BY <2>1, <2>2, <2>3, <2>4, <2>5 DEF Follows
<1>6. \A k \in 1..m : k = m \/ k \in 1..n
  BY <1>1
<1> QED
  BY <1>1, <1>4, <1>5, <1>6 DEF Stands

(* What the flattening has done when it is at the field c of the struct q: *)
(* the maps have the columns before c, and the bad tags are those before c *)
(* and on the way to it.                                                   *)
BadTags(s) == {p \in Dec(s) : FieldIn(s, p).tag \in {"invalid", "empty"}}
Done(s, c) == {p \in OfCol(s) : Lt(p, c)}
Told(s, q, c) == {p \in BadTags(s) : Lt(p, c) \/ Under(p, q)}
DoneAt(s, q, i, ns, ps, es) ==
    Reflects(s, ns, ps, Done(s, Append(q, i))) /\ es = Told(s, q, Append(q, i))
DoneIn(s, st, ns, ps, es) ==
    IF st = <<>> THEN Reflects(s, ns, ps, OfCol(s)) /\ es = BadTags(s)
    ELSE Stands(s, st) /\ DoneAt(s, st[Len(st)].parent.index, st[Len(st)].i, ns, ps, es)
DeclInv == DoneIn(shape, stack, names, paths, errors)

(* The innermost call. *)
At0(q, i) ==
    /\ q = Top.parent.index /\ i = Top.i
    /\ q \in Seq(Nat) /\ i \in Nat \ {0} /\ (q = <<>> \/ q \in Dec(shape))
    /\ Top.type = Ty(shape, q) /\ Ty(shape, q) \in Types /\ Top.prefix = Col(shape, q)
    /\ FlatAt(shape, q) /\ Len(q) + 1 = Len(stack) /\ i \in 1..Len(shape[Top.type]) + 1
    /\ visited = {Ty(shape, r) : r \in Before(q)} \cup {Ty(shape, q)}
    /\ Stands(shape, stack) /\ DoneAt(shape, q, i, names, paths, errors)

LEMMA AtTop ==
    ASSUME Inv, DeclInv, stack # <<>>
    PROVE  \E q, i : At0(q, i)
<1> DEFINE q == Top.parent.index
           i == Top.i
           n == Len(stack)
<1>1. MapTypeOK /\ GuardIsThePath /\ shape \in Declarations
  BY ShapeType DEF Inv
<1>2. n \in Nat \ {0} /\ n \in DOMAIN stack /\ Top \in Frame /\ Top = stack[n]
  BY <1>1, TopType DEF Top
<1>3. DOMAIN stack = 1..n /\ stack \in Seq(Frame)
  BY <1>1, LenProperties DEF MapTypeOK
<1>4. Stands(shape, stack) /\ DoneAt(shape, q, i, names, paths, errors)
  BY DEF DeclInv, DoneIn, Top
<1> HIDE DEF n
<1>5. Follows(shape, stack, n)
  BY <1>2, <1>4 DEF Stands
<1>6. /\ FrameAt(shape, Top, q) /\ Len(q) = n - 1
      /\ i \in 1..Len(shape[Top.type]) + 1
      /\ {Ty(shape, r) : r \in Before(q)} = {stack[j].type : j \in 1..n - 1}
  BY <1>2, <1>5 DEF Follows
<1>7. q \in Seq(Nat) /\ Top.type = Ty(shape, q) /\ Top.prefix = Col(shape, q)
      /\ (q = <<>> \/ q \in Dec(shape))
  BY <1>6 DEF FrameAt
<1>8. Top.type \in Types /\ i \in Nat \ {0}
  <2>1. Top.type \in Types /\ i \in Nat
    BY <1>2 DEF Frame
  <2>2. Len(shape[Top.type]) \in Nat
    BY <1>1, <2>1 DEF Declarations
  <2> QED
    BY <1>6, <2>1, <2>2
<1>9. Len(q) + 1 = n
  BY <1>2, <1>6
<1>10. \A j : j \in 1..n <=> j \in 1..n - 1 \/ j = n
  BY <1>2
<1>11. n \notin 1..n - 1
  BY <1>2
<1>12. visited = {stack[j].type : j \in 1..n - 1} \cup {Top.type}
  <2>1. \A x : x \in visited <=> \E j \in 1..n : x = stack[j].type
    BY <1>1, <1>3 DEF GuardIsThePath
  <2> QED
    BY <1>2, <1>10, <2>1
<1>13. \A j \in 1..n - 1 : stack[j].type # Top.type
  BY <1>1, <1>2, <1>3, <1>10, <1>11 DEF GuardIsThePath
<1>14. FlatAt(shape, q)
  <2>1. Top.type \notin {stack[j].type : j \in 1..n - 1}
    BY <1>13
  <2>2. Ty(shape, q) \notin {Ty(shape, r) : r \in Before(q)}
    BY <1>6, <1>7, <2>1
  <2>3. \A r \in Before(q) : Ty(shape, r) # Ty(shape, q)
    BY <2>2
  <2> QED
    BY <1>7, <1>8, <2>3 DEF FlatAt
<1>15. At0(q, i)
  BY <1>4, <1>6, <1>7, <1>8, <1>9, <1>12, <1>14 DEF At0, n
<1> QED
  BY <1>15

(* The current field. *)
Field0(q, i, c, f) ==
    /\ f = FieldIn(shape, c) /\ c = Append(q, i) /\ c \in Seq(Nat) /\ f \in Field
    /\ i \in DOMAIN shape[Ty(shape, q)]
    /\ f = Current /\ Ty(shape, c) = f.type
    /\ Allowed(shape, q, i) <=> ~Ignored(f)
    /\ ~Ignored(f) => c \in Dec(shape)
    /\ Col(shape, c) = Col(shape, q) \o Bit(f)
    /\ FlatAt(shape, c) <=> f.type \in Types /\ f.type \notin visited

LEMMA AtField ==
    ASSUME IsFiniteSet(Types), Inv, MoreFields, NEW q, NEW i, At0(q, i)
    PROVE  \E c, f : Field0(q, i, c, f)
<1>c. PICK c : c = Append(q, i)
  OBVIOUS
<1>f. PICK f : f = Current
  OBVIOUS
<1>1. /\ q = Top.parent.index /\ i = Top.i
      /\ q \in Seq(Nat) /\ i \in Nat \ {0} /\ (q = <<>> \/ q \in Dec(shape))
      /\ Top.type = Ty(shape, q) /\ Ty(shape, q) \in Types
      /\ FlatAt(shape, q) /\ Len(q) + 1 = Len(stack)
      /\ visited = {Ty(shape, r) : r \in Before(q)} \cup {Ty(shape, q)}
  BY DEF At0
<1>2. shape \in Declarations /\ f \in Field /\ i \in DOMAIN shape[Ty(shape, q)]
  BY <1>1, <1>f, ShapeType, CurrentType DEF Inv, MoreFields, Fields
<1>3. c \in Seq(Nat) /\ i \in Nat /\ q \in Seq(Nat) /\ c = Append(q, i)
  BY <1>1, <1>c
<1>d. GoesTo(q, i, c)
  BY <1>3 DEF GoesTo
<1>4. f = shape[Ty(shape, q)][i]
  BY <1>1, <1>f DEF Current, Fields
<1>5. FieldIn(shape, c) = shape[Ty(shape, q)][i] /\ Ty(shape, c) = FieldIn(shape, c).type
  BY <1>d, FieldStep DEF IsField
<1>6. Allowed(shape, q, i) <=> ~Ignored(f)
  BY <1>1, <1>2, <1>4 DEF Allowed
<1>7. ~Ignored(f) => c \in Dec(shape)
  <2>1. Cardinality(Types) \in Nat /\ Len(q) + 1 <= Cardinality(Types)
    BY <1>1, Bounded
  <2> QED
    BY <1>1, <1>2, <1>3, <1>6, <2>1, NextDeclared
<1>8. Col(shape, c) = Col(shape, q) \o Bit(f)
  <2>1. Bit(f) \in Seq(Words)
    BY <1>2 DEF Bit, Field
  <2>2. Fits(shape, c)
    BY <1>4, <1>5, <2>1 DEF Fits
  <2>3. Joins(shape, q, c)
    BY <1>d, <2>2, ColStep
  <2> QED
    BY <1>4, <1>5, <2>3 DEF Joins
<1>9. FlatAt(shape, c) <=> f.type \in Types /\ f.type \notin visited
  <2>1. Before(c) = Before(q) \cup {q}
    BY <1>1, <1>3, BeforeAppend
  <2>2. Ty(shape, c) = f.type
    BY <1>4, <1>5
  <2>3. f.type \notin visited <=> \A r \in Before(q) \cup {q} : Ty(shape, r) # f.type
    BY <1>1
  <2> QED
    BY <2>1, <2>2, <2>3 DEF FlatAt
<1>10. Field0(q, i, c, f)
  BY <1>f, <1>2, <1>3, <1>4, <1>5, <1>6, <1>7, <1>8, <1>9 DEF Field0
<1> QED
  BY <1>10

(* What is done grows with the position. *)
LEMMA DoneSame ==
    ASSUME NEW s, NEW q, NEW c, NEW d, \A p \in Dec(s) : Lt(p, d) <=> Lt(p, c)
    PROVE  Done(s, d) = Done(s, c) /\ Told(s, q, d) = Told(s, q, c)
<1>1. OfCol(s) \subseteq Dec(s) /\ BadTags(s) \subseteq Dec(s)
  BY DEF OfCol, BadTags
<1> QED
  BY <1>1 DEF Done, Told

LEMMA DoneOne ==
    ASSUME NEW s, NEW c, c \in Dec(s), NEW b, NEW d,
           \A p \in Dec(s) : Lt(p, d) <=> Lt(p, b) \/ p = c
    PROVE  /\ Embedded(FieldIn(s, c)) => Done(s, d) = Done(s, b)
           /\ ~Embedded(FieldIn(s, c)) => Done(s, d) = Done(s, b) \cup {c}
<1>1. \A p : p \in OfCol(s) <=> p \in Dec(s) /\ ~Embedded(FieldIn(s, p))
  BY DEF OfCol
<1>2. \A p : p \in Done(s, d) <=> p \in OfCol(s) /\ Lt(p, d)
  BY DEF Done
<1>3. \A p : p \in Done(s, b) <=> p \in OfCol(s) /\ Lt(p, b)
  BY DEF Done
<1> QED
  BY <1>1, <1>2, <1>3

(* The bad tags, when the position moves on: past the field c, into it, or *)
(* out of it.                                                              *)
TellsOf(s, c, old, new) ==
    new = IF FieldIn(s, c).tag \in {"invalid", "empty"} THEN old \cup {c} ELSE old
LEMMA TellNext ==
    ASSUME NEW s, NEW q, NEW c, c \in Dec(s), NEW d, NEW new,
           \A p \in Dec(s) : Lt(p, d) <=> Lt(p, c) \/ p = c,
           TellsOf(s, c, Told(s, q, c), new)
    PROVE  new = Told(s, q, d)
<1>1. \A p : p \in BadTags(s) <=> p \in Dec(s) /\ FieldIn(s, p).tag \in {"invalid", "empty"}
  BY DEF BadTags
<1>2. \A p : p \in Told(s, q, d) <=> p \in BadTags(s) /\ (Lt(p, d) \/ Under(p, q))
  BY DEF Told
<1>3. \A p : p \in Told(s, q, c) <=> p \in BadTags(s) /\ (Lt(p, c) \/ Under(p, q))
  BY DEF Told
<1>4. \A p : p \in new <=> p \in Told(s, q, c)
                           \/ (p = c /\ FieldIn(s, c).tag \in {"invalid", "empty"})
  BY DEF TellsOf
<1>5. \A p : p \in new <=> p \in Told(s, q, d)
  BY <1>1, <1>2, <1>3, <1>4
<1> QED
  BY <1>5

LEMMA TellDown ==
    ASSUME NEW s \in Declarations, NEW q, NEW i, NEW c, GoesTo(q, i, c), c \in Dec(s),
           NEW d, NEW new,
           \A p \in Dec(s) : Lt(p, d) <=> Lt(p, c),
           TellsOf(s, c, Told(s, q, c), new)
    PROVE  new = Told(s, c, d)
<1>1. \A p : p \in BadTags(s) <=> p \in Dec(s) /\ FieldIn(s, p).tag \in {"invalid", "empty"}
  BY DEF BadTags
<1>2. \A p : p \in Told(s, c, d) <=> p \in BadTags(s) /\ (Lt(p, d) \/ Under(p, c))
  BY DEF Told
<1>3. \A p : p \in Told(s, q, c) <=> p \in BadTags(s) /\ (Lt(p, c) \/ Under(p, q))
  BY DEF Told
<1>4. \A p : p \in new <=> p \in Told(s, q, c)
                           \/ (p = c /\ FieldIn(s, c).tag \in {"invalid", "empty"})
  BY DEF TellsOf
<1>5. \A p \in Dec(s) : Under(p, c) <=> p = c \/ Under(p, q)
  <2>1. \A p \in Dec(s) : p \in Seq(Nat)
    BY DecType
  <2> QED
    BY <2>1, UnderAppend DEF GoesTo
<1> QED
  BY <1>1, <1>2, <1>3, <1>4, <1>5

LEMMA TellUp ==
    ASSUME NEW s \in Declarations, NEW r, NEW j, NEW q, GoesTo(r, j, q), NEW c, NEW d,
           \A p \in Dec(s) : Lt(p, d) <=> Lt(p, c) \/ p = q
    PROVE  Told(s, q, c) = Told(s, r, d)
<1>1. \A p \in BadTags(s) : p \in Dec(s)
  BY DEF BadTags
<1>2. \A p : p \in Told(s, r, d) <=> p \in BadTags(s) /\ (Lt(p, d) \/ Under(p, r))
  BY DEF Told
<1>3. \A p : p \in Told(s, q, c) <=> p \in BadTags(s) /\ (Lt(p, c) \/ Under(p, q))
  BY DEF Told
<1>5. \A p \in Dec(s) : Under(p, q) <=> p = q \/ Under(p, r)
  <2>1. \A p \in Dec(s) : p \in Seq(Nat)
    BY DecType
  <2> QED
    BY <2>1, UnderAppend DEF GoesTo
<1>6. \A p : p \in Told(s, r, d) <=> p \in Told(s, q, c)
  BY <1>1, <1>2, <1>3, <1>5
<1> QED
  BY <1>6

LEMMA TellAll ==
    ASSUME NEW s \in Declarations, NEW c, \A p \in Dec(s) : Lt(p, c)
    PROVE  Told(s, <<>>, c) = BadTags(s) /\ Done(s, c) = OfCol(s)
<1>1. \A p \in BadTags(s) : p \in Dec(s)
  BY DEF BadTags
<1>2. \A p \in OfCol(s) : p \in Dec(s)
  BY DEF OfCol
<1> QED
  BY <1>1, <1>2 DEF Told, Done

(* The invariant, in the state after a step. *)
LEMMA DoneThere ==
    ASSUME shape' = shape, NEW st, stack' = st, st # <<>>, Stands(shape, st),
           NEW q, q = st[Len(st)].parent.index, NEW i, i = st[Len(st)].i,
           DoneAt(shape, q, i, names', paths', errors')
    PROVE  DeclInv'
  BY DEF DeclInv, DoneIn

(* The loop goes on. *)
LEMMA GoesNext ==
    ASSUME MapTypeOK, MoreFields, NextField, NEW q, NEW i, At0(q, i)
    PROVE  \E st : /\ stack' = st /\ st # <<>> /\ Stands(shape, st)
                   /\ st[Len(st)].parent.index = q /\ st[Len(st)].i = i + 1
<1>1. PICK n : n = Len(stack)
  OBVIOUS
<1>2. PICK old : old = stack
  OBVIOUS
<1>3. PICK s : s = shape
  OBVIOUS
<1>4. n \in Nat \ {0} /\ old \in Seq(Frame) /\ DOMAIN old = 1..n /\ Len(old) = n /\ n \in 1..n
  <2>1. stack \in Seq(Frame) /\ Len(stack) \in Nat \ {0}
    BY TopType DEF MapTypeOK, MoreFields
  <2>2. old \in Seq(Frame) /\ Len(old) = n /\ n \in Nat \ {0}
    BY <1>1, <1>2, <2>1
  <2> QED
    BY <2>2
<1>5. old[n].parent.index = q /\ old[n].i = i /\ i \in Nat
  BY <1>1, <1>2 DEF At0, Top
<1>6. s \in Declarations /\ Stands(s, old) /\ old[n].i \in DOMAIN s[old[n].type]
  BY <1>1, <1>2, <1>3, ShapeType DEF At0, MoreFields, Fields, Top
<1>7. PICK st : st = stack'
  OBVIOUS
<1>8. st \in Seq(Frame) /\ DOMAIN st = 1..n /\ \A k \in 1..n : SameFrame(st[k], old[k])
  <2>1. /\ stack' \in Seq(Frame) /\ DOMAIN stack' = DOMAIN stack
        /\ \A k \in DOMAIN stack : SameFrame(stack'[k], stack[k])
    BY NextFieldKeeps
  <2> QED
    BY <1>2, <1>4, <1>7, <2>1
<1>9. st = [old EXCEPT ![n].i = @ + 1]
  BY <1>1, <1>2, <1>7 DEF NextField
<1>10. \A k \in 1..n : st[k].i = IF k = n THEN old[k].i + 1 ELSE old[k].i
  <2>1. \A k \in 1..n : old[k] \in Frame
    BY <1>4, ElementOfSeq
  <2>2. \A k \in 1..n : k # n => st[k] = old[k]
    BY <1>4, <1>9
  <2>3. st[n] = [old[n] EXCEPT !.i = @ + 1]
    BY <1>4, <1>9
  <2>4. old[n] \in Frame
    BY <1>4, <2>1
  <2>5. st[n].i = old[n].i + 1
    BY <2>3, <2>4 DEF Frame
  <2> QED
    BY <2>2, <2>5
<1>11. Len(st) = n
  BY <1>4, <1>8
<1>12. \A k \in 1..n : /\ st[k].type = old[k].type /\ st[k].parent = old[k].parent
                       /\ st[k].prefix = old[k].prefix
                       /\ st[k].i = IF k = n THEN old[k].i + 1 ELSE old[k].i
  BY <1>8, <1>10 DEF SameFrame
<1>13. Stands(s, st)
  BY <1>4, <1>6, <1>8, <1>11, <1>12, StandsOn
<1>14. st # <<>> /\ st[n].parent.index = q /\ st[n].i = i + 1
  BY <1>4, <1>5, <1>11, <1>12
<1> QED
  BY <1>3, <1>7, <1>11, <1>13, <1>14

LEMMA InitDone == MapInit => DeclInv
<1> SUFFICES ASSUME MapInit PROVE DeclInv
  OBVIOUS
<1> DEFINE fr == [type |-> Root, parent |-> Tree, prefix |-> <<>>, i |-> 1]
<1>1. PICK s : s = shape
  OBVIOUS
<1>2. s \in Declarations
  BY <1>1, InitInv, ShapeType DEF Inv
<1>3. Tree.index = <<>> /\ Tree.path = <<>>
  BY DEF Tree
<1>4. fr.type = Root /\ fr.prefix = <<>> /\ fr.parent = Tree /\ fr.i = 1
  OBVIOUS
<1>5. stack = <<fr>>
  BY DEF MapInit
<1> HIDE DEF fr
<1>6. stack # <<>> /\ Len(stack) = 1 /\ stack[1] = fr /\ DOMAIN stack = {1}
  BY <1>5
<1>7. Follows(s, stack, 1)
  <2>1. FrameAt(s, fr, <<>>)
    <3>1. <<>> \in Seq(Nat)
      OBVIOUS
    <3>2. Ty(s, <<>>) = Root
      BY TySteps
    <3> QED
      BY <1>3, <1>4, <3>1, <3>2, ColStart DEF FrameAt
  <2>2. Len(<<>>) = 1 - 1
    OBVIOUS
  <2>3. fr.i \in 1..Len(s[fr.type]) + 1
    <3>1. s[Root] \in Seq(Field)
      BY <1>2, TypesAssumption DEF Declarations
    <3>2. Len(s[Root]) \in Nat
      BY <3>1
    <3>3. 1 \in 1..Len(s[Root]) + 1
      BY <3>2
    <3> QED
      BY <1>4, <3>3
  <2>4. {Ty(s, r) : r \in Before(<<>>)} = {stack[j].type : j \in 1..1 - 1}
    <3>1. 1..1 - 1 = {}
      OBVIOUS
    <3> QED
      BY <3>1, BeforeNothing
  <2>5. ~(1 > 1)
    OBVIOUS
  <2> QED
    BY <1>3, <1>4, <1>6, <2>1, <2>2, <2>3, <2>4, <2>5 DEF Follows
<1>8. Stands(s, stack)
  BY <1>6, <1>7 DEF Stands
<1>9. \A p \in Dec(s) : ~Lt(p, Append(<<>>, 1)) /\ ~Under(p, <<>>)
  <2> SUFFICES ASSUME NEW p \in Dec(s) PROVE ~Lt(p, Append(<<>>, 1)) /\ ~Under(p, <<>>)
    OBVIOUS
  <2>1. p \in Seq(Nat) /\ Len(p) \in Nat \ {0} /\ \A k \in 1..Len(p) : p[k] \in Nat \ {0}
    BY <1>2, DecType
  <2>2. Len(<<>>) = 0
    OBVIOUS
  <2>3. ~Under(p, <<>>)
    BY <2>1, <2>2 DEF Under
  <2>4. Lt(p, Append(<<>>, 1)) <=> Lt(p, <<>>)
    <3>1. <<>> \in Seq(Nat)
      OBVIOUS
    <3> QED
      BY <2>1, <3>1, LtDown
  <2>5. ~Lt(p, <<>>)
    BY <2>1, <2>2 DEF Lt
  <2> QED
    BY <2>3, <2>4, <2>5
<1>10. Done(s, Append(<<>>, 1)) = {} /\ Told(s, <<>>, Append(<<>>, 1)) = {}
  <2>1. OfCol(s) \subseteq Dec(s) /\ BadTags(s) \subseteq Dec(s)
    BY DEF OfCol, BadTags
  <2> QED
    BY <1>9, <2>1 DEF Done, Told
<1>11. Reflects(s, names, paths, {})
  <2>1. DOMAIN names = {} /\ DOMAIN paths = {}
    BY DEF MapInit
  <2> QED
    BY <2>1 DEF Reflects
<1>12. DoneAt(s, <<>>, 1, names, paths, errors)
  BY <1>10, <1>11 DEF DoneAt, MapInit
<1> QED
  BY <1>1, <1>3, <1>4, <1>6, <1>8, <1>12 DEF DeclInv, DoneIn

LEMMA SkipDone ==
    ASSUME IsFiniteSet(Types), Inv, DeclInv, SkipField
    PROVE  DeclInv'
<1>1. MapTypeOK /\ MoreFields /\ stack # <<>> /\ NextField /\ Ignored(Current)
      /\ UNCHANGED <<shape, names, paths, errors>>
  BY DEF Inv, SkipField, MoreFields
<1>2. PICK q, i : At0(q, i)
  BY <1>1, AtTop
<1>3. PICK c, f : Field0(q, i, c, f)
  BY <1>1, <1>2, AtField
<1>4. PICK d : d = Append(q, i + 1)
  OBVIOUS
<1>5. c = Append(q, i) /\ q \in Seq(Nat) /\ i \in Nat /\ ~Allowed(shape, q, i)
  BY <1>1, <1>2, <1>3 DEF At0, Field0
<1>6. NextTo(q, i, c, d)
  BY <1>4, <1>5 DEF NextTo
<1>7. \A p \in Dec(shape) : Lt(p, d) <=> Lt(p, c)
  BY <1>1, <1>5, <1>6, DoneSkip, ShapeType
<1>8. Done(shape, d) = Done(shape, c) /\ Told(shape, q, d) = Told(shape, q, c)
  BY <1>7, DoneSame
<1>9. DoneAt(shape, q, i, names, paths, errors)
  BY <1>2 DEF At0
<1>10. DoneAt(shape, q, i + 1, names', paths', errors')
  BY <1>1, <1>4, <1>5, <1>8, <1>9 DEF DoneAt
<1>11. PICK st : /\ stack' = st /\ st # <<>> /\ Stands(shape, st)
                 /\ st[Len(st)].parent.index = q /\ st[Len(st)].i = i + 1
  BY <1>1, <1>2, GoesNext
<1> QED
  BY <1>1, <1>10, <1>11, DoneThere

(* The field is registered, unless it is embedded. *)
LEMMA NamedIs ==
    ASSUME NEW f, f = Current, NEW c, c = Append(Top.parent.index, Top.i)
    PROVE  /\ Named(f).index = c /\ Named(f).path = Top.prefix \o f.name
           /\ Named(f).name = f.name /\ NewField(f).index = c /\ NewField(f).path = <<>>
  BY DEF Named, NewField

LEMMA TellsWhen ==
    ASSUME NEW f, NEW c, c = Append(Top.parent.index, Top.i), Validate(f),
           f = FieldIn(shape, c)
    PROVE  TellsOf(shape, c, errors, errors')
  BY DEF TellsOf, Validate

(* The maps after a field of its own name is registered. *)
LEMMA RegisteredNext ==
    ASSUME NEW s, NEW fi, NEW c, c \in Dec(s), NEW b, NEW d,
           \A p \in Dec(s) : Lt(p, d) <=> Lt(p, b) \/ p = c,
           \A p \in Dec(s) : Lt(p, b) => Sooner(p, c),
           Reflects(s, names, paths, Done(s, b)),
           fi.index = c, fi.path = Col(s, c), fi.name = FieldIn(s, c).name,
           ~Embedded(FieldIn(s, c)), Register(fi)
    PROVE  Reflects(s, names', paths', Done(s, d))
<1>1. Done(s, d) = Done(s, b) \cup {c}
  BY DoneOne
<1>2. \A p \in Done(s, b) : Sooner(p, c)
  BY DEF Done, OfCol
<1> QED
  BY <1>1, <1>2, RegisterReflects

LEMMA LeafDone ==
    ASSUME IsFiniteSet(Types), Inv, DeclInv, MapLeaf
    PROVE  DeclInv'
<1>1. MapTypeOK /\ MoreFields /\ stack # <<>> /\ NextField /\ ~Ignored(Current)
      /\ Validate(Current) /\ shape' = shape /\ (Current.type \notin Types \/ Current.type \in visited)
      /\ IF Embedded(Current) THEN UNCHANGED <<names, paths>> ELSE Register(Named(Current))
  BY DEF Inv, MapLeaf, MoreFields, CutOff
<1>2. PICK q, i : At0(q, i)
  BY <1>1, AtTop
<1>3. PICK c, f : Field0(q, i, c, f)
  BY <1>1, <1>2, AtField
<1>4. PICK d : d = Append(q, i + 1)
  OBVIOUS
<1>5. /\ c = Append(q, i) /\ q \in Seq(Nat) /\ i \in Nat /\ c \in Dec(shape) /\ ~FlatAt(shape, c)
      /\ f = Current /\ f = FieldIn(shape, c) /\ Col(shape, c) = Col(shape, q) \o Bit(f)
  BY <1>1, <1>2, <1>3 DEF At0, Field0
<1>6. NextTo(q, i, c, d)
  BY <1>4, <1>5 DEF NextTo
<1>7. \A p \in Dec(shape) : Lt(p, d) <=> Lt(p, c) \/ p = c
  <2>1. shape \in Declarations
    BY <1>1, ShapeType
  <2>2. ~FlatAt(shape, c)
    BY <1>5
  <2> QED
    BY ONLY <1>6, <2>1, <2>2, DoneLeaf
<1>8. c = Append(Top.parent.index, Top.i) /\ Top.prefix = Col(shape, q)
      /\ DoneAt(shape, q, i, names, paths, errors)
  BY <1>2, <1>5 DEF At0
<1>9. Reflects(shape, names, paths, Done(shape, c)) /\ errors = Told(shape, q, c)
  BY <1>5, <1>8 DEF DoneAt
<1>10. errors' = Told(shape, q, d)
  <2>1. TellsOf(shape, c, Told(shape, q, c), errors')
    BY <1>1, <1>5, <1>8, <1>9, TellsWhen
  <2> QED
    BY <1>5, <1>7, <2>1, TellNext
<1>11. Reflects(shape, names', paths', Done(shape, d))
  <2>1. CASE Embedded(f)
    <3>1. Done(shape, d) = Done(shape, c)
      <4>1. Embedded(FieldIn(shape, c)) /\ c \in Dec(shape)
        BY <1>5, <2>1
      <4> QED
        BY <1>7, <4>1, DoneOne
    <3>2. names' = names /\ paths' = paths
      BY <1>1, <1>5, <2>1
    <3> QED
      BY <1>9, <3>1, <3>2
  <2>2. CASE ~Embedded(f)
    <3>1. PICK fi : fi = Named(f)
      OBVIOUS
    <3>2. fi.index = c /\ fi.path = Top.prefix \o f.name /\ fi.name = f.name
      BY <1>5, <1>8, <3>1, NamedIs
    <3>3. Bit(f) = f.name
      BY <2>2 DEF Bit
    <3>4. fi.path = Col(shape, c) /\ fi.name = FieldIn(shape, c).name
      BY <1>5, <1>8, <3>2, <3>3
    <3>5. Register(fi)
      BY <1>1, <1>5, <2>2, <3>1
    <3>6. \A p \in Dec(shape) : Lt(p, c) => Sooner(p, c)
      BY DEF Sooner
    <3> QED
      BY <1>5, <1>7, <1>9, <2>2, <3>2, <3>4, <3>5, <3>6, RegisteredNext
  <2> QED
    BY <2>1, <2>2
<1>12. DoneAt(shape, q, i + 1, names', paths', errors')
  BY <1>4, <1>10, <1>11 DEF DoneAt
<1>13. PICK st : /\ stack' = st /\ st # <<>> /\ Stands(shape, st)
                 /\ st[Len(st)].parent.index = q /\ st[Len(st)].i = i + 1
  BY <1>1, <1>2, GoesNext
<1> QED
  BY <1>1, <1>12, <1>13, DoneThere

(* Into a struct. *)
LEMMA DownDone ==
    ASSUME IsFiniteSet(Types), Inv, DeclInv, Descend
    PROVE  DeclInv'
<1>1. MapTypeOK /\ MoreFields /\ stack # <<>> /\ ~Ignored(Current)
      /\ Validate(Current) /\ UNCHANGED <<shape, names, paths>>
      /\ Current.type \in Types /\ Current.type \notin visited
  BY DEF Inv, Descend, DescendIf, CutOff, MoreFields
<1>2. PICK q, i : At0(q, i)
  BY <1>1, AtTop
<1>3. PICK c, f : Field0(q, i, c, f)
  BY <1>1, <1>2, AtField
<1>4. PICK d : d = Append(c, 1)
  OBVIOUS
<1>5. /\ c = Append(q, i) /\ q \in Seq(Nat) /\ i \in Nat /\ c \in Dec(shape) /\ c \in Seq(Nat)
      /\ f = Current /\ f = FieldIn(shape, c) /\ Col(shape, c) = Col(shape, q) \o Bit(f)
      /\ Ty(shape, c) = f.type /\ f \in Field
  BY <1>1, <1>2, <1>3 DEF At0, Field0
<1>6. GoesTo(q, i, c)
  BY <1>5 DEF GoesTo
<1>7. \A p \in Dec(shape) : Lt(p, d) <=> Lt(p, c)
  BY <1>1, <1>4, <1>5, DoneDown, ShapeType
<1>8. c = Append(Top.parent.index, Top.i) /\ Top.prefix = Col(shape, q)
      /\ DoneAt(shape, q, i, names, paths, errors)
  BY <1>2, <1>5 DEF At0
<1>9. Reflects(shape, names, paths, Done(shape, c)) /\ errors = Told(shape, q, c)
  BY <1>5, <1>8 DEF DoneAt
<1>10. errors' = Told(shape, c, d)
  <2>1. TellsOf(shape, c, Told(shape, q, c), errors')
    BY <1>1, <1>5, <1>8, <1>9, TellsWhen
  <2> QED
    BY <1>1, <1>5, <1>6, <1>7, <2>1, TellDown, ShapeType
<1>11. Reflects(shape, names', paths', Done(shape, d))
  <2>1. Done(shape, d) = Done(shape, c)
    BY <1>7, DoneSame
  <2> QED
    BY <1>1, <1>9, <2>1
<1>12. DoneAt(shape, c, 1, names', paths', errors')
  BY <1>4, <1>10, <1>11 DEF DoneAt
<1> DEFINE fi0 == IF Embedded(f) THEN NewField(f) ELSE Named(f)
           prefix0 == IF Embedded(f) THEN Top.prefix ELSE fi0.path
           fr0 == [type |-> f.type, parent |-> fi0, prefix |-> prefix0, i |-> 1]
<1>13. PICK fi : fi = fi0
  OBVIOUS
<1>14. PICK fr : fr = fr0
  OBVIOUS
<1>15. /\ fi.index = c
       /\ fi.path = IF Embedded(f) THEN <<>> ELSE Top.prefix \o f.name
       /\ ~Embedded(f) => fi.name = f.name
  BY <1>5, <1>8, <1>13, NamedIs
<1>16. stack' = Append(stack, fr)
  BY <1>5, <1>14 DEF Descend, DescendIf
<1>17. fr.type = f.type /\ fr.parent = fi /\ fr.i = 1
       /\ fr.prefix = IF Embedded(f) THEN Top.prefix ELSE fi.path
  BY <1>13, <1>14
<1>18. Marked(Top.parent) /\ Top \in Frame
  BY <1>1, TopIsMarked, TopType DEF Inv, PointersAreMarked
<1>19. fr \in Frame
  <2>1. fi \in FieldInfo
    BY <1>1, <1>5, <1>13, <1>18, FieldInfoType
  <2>2. Top.prefix \in Seq(Words) /\ fi.path \in Seq(Words)
    BY <1>18, <2>1 DEF Frame, FieldInfo
  <2> HIDE DEF fi0
  <2>3. fr0.type \in Types /\ fr0.parent \in FieldInfo /\ fr0.prefix \in Seq(Words) /\ fr0.i \in Nat
    BY <1>1, <1>5, <1>13, <2>1, <2>2
  <2> QED
    BY <1>14, <2>3 DEF Frame
<1> HIDE DEF fi0, prefix0, fr0
<1>20. Bit(f) = IF Embedded(f) THEN <<>> ELSE f.name
  BY DEF Bit
<1>21. Embedded(f) => Col(shape, c) = Col(shape, q)
  <2>1. Col(shape, q) \in Seq(Words)
    BY <1>8, <1>18 DEF Frame
  <2> QED
    BY <1>5, <1>20, <2>1, ConcatEmptySeq
<1>22. FrameAt(shape, fr, c)
  <2>1. c # <<>>
    BY <1>5
  <2>2. fr.prefix = Col(shape, c)
    BY <1>5, <1>8, <1>15, <1>17, <1>20, <1>21
  <2>3. fr.parent.path = IF Embedded(f) THEN <<>> ELSE Col(shape, c)
    BY <1>5, <1>8, <1>15, <1>17, <1>20
  <2> QED
    BY <1>5, <1>15, <1>17, <2>1, <2>2, <2>3 DEF FrameAt
<1>23. PICK st : st = stack'
  OBVIOUS
<1>24. PICK old : old = stack
  OBVIOUS
<1>25. PICK n : n = Len(stack)
  OBVIOUS
<1>26. PICK s : s = shape
  OBVIOUS
<1>27. n \in Nat \ {0} /\ old \in Seq(Frame) /\ n = Len(old) /\ q = old[n].parent.index
       /\ i = old[n].i /\ s \in Declarations /\ Stands(s, old)
  <2>1. stack \in Seq(Frame) /\ Len(stack) \in Nat \ {0}
    BY <1>1, TopType DEF MapTypeOK
  <2> QED
    BY <1>1, <1>2, <1>24, <1>25, <1>26, <2>1, ShapeType DEF At0, Top
<1>28. fr.parent.index = Append(q, i) /\ FrameAt(s, fr, Append(q, i)) /\ st = Append(old, fr)
  BY <1>5, <1>15, <1>16, <1>17, <1>22, <1>23, <1>24, <1>26
<1>29. Stands(s, st)
  BY <1>17, <1>19, <1>27, <1>28, StandsDown
<1>30. st # <<>> /\ Len(st) = n + 1 /\ st[n + 1] = fr
  BY <1>19, <1>27, <1>28
<1>31. st[Len(st)].parent.index = c /\ st[Len(st)].i = 1
  BY <1>15, <1>17, <1>30
<1> QED
  BY <1>1, <1>12, <1>23, <1>26, <1>29, <1>30, <1>31, DoneThere

(* What the end of a call needs to know of the call and of its caller.     *)
Ends(s, q, i, fi) ==
    /\ s \in Declarations /\ q \in Seq(Nat) /\ i \in Nat /\ fi.index = q
    /\ \A k \in DOMAIN s[Ty(s, q)] : k < i
    /\ q = <<>> => fi.path = <<>>
    /\ q # <<>> => /\ q \in Dec(s)
                   /\ fi.path = IF Embedded(FieldIn(s, q)) THEN <<>> ELSE Col(s, q)
                   /\ ~Embedded(FieldIn(s, q)) => fi.name = FieldIn(s, q).name
    /\ DoneAt(s, q, i, names, paths, errors)

LEMMA AtEnd ==
    ASSUME Inv, DeclInv, stack # <<>>, ~MoreFields
    PROVE  \E s, q, i, fi : /\ s = shape /\ fi = Top.parent /\ Ends(s, q, i, fi) /\ At0(q, i)
<1>1. PICK q, i : At0(q, i)
  BY AtTop
<1>2. PICK s : s = shape
  OBVIOUS
<1>3. PICK fi : fi = Top.parent
  OBVIOUS
<1>4. /\ q = Top.parent.index /\ i = Top.i
      /\ q \in Seq(Nat) /\ i \in Nat /\ i \in 1..Len(s[Ty(s, q)]) + 1
      /\ DoneAt(s, q, i, names, paths, errors) /\ Stands(s, stack)
      /\ Top.type = Ty(s, q) /\ Ty(s, q) \in Types
  BY <1>1, <1>2 DEF At0
<1>5. s \in Declarations
  BY <1>2, ShapeType DEF Inv
<1>6. Len(stack) \in DOMAIN stack
  BY TopType DEF Inv
<1>7. FrameAt(s, Top, q)
  BY <1>4, <1>6 DEF Stands, Follows, Top
<1>8. \A k \in DOMAIN s[Ty(s, q)] : k < i
  <2>1. i \notin DOMAIN s[Ty(s, q)]
    BY <1>2, <1>4 DEF MoreFields, Fields
  <2>2. s[Ty(s, q)] \in Seq(Field)
    BY <1>4, <1>5 DEF Declarations
  <2> QED
    BY <1>4, <2>1, <2>2
<1>9. /\ q = <<>> => fi.path = <<>>
      /\ q # <<>> => /\ q \in Dec(s)
                     /\ fi.path = IF Embedded(FieldIn(s, q)) THEN <<>> ELSE Col(s, q)
                     /\ ~Embedded(FieldIn(s, q)) => fi.name = FieldIn(s, q).name
  BY <1>3, <1>7 DEF FrameAt
<1>10. Ends(s, q, i, fi)
  BY <1>3, <1>4, <1>5, <1>8, <1>9 DEF Ends
<1> QED
  BY <1>1, <1>2, <1>3, <1>10

(* The caller goes on, after the field whose struct is done.               *)
LEMMA GoesUp ==
    ASSUME Inv, Return, NEW q, NEW i, At0(q, i), Len(stack) # 1
    PROVE  \E st, r, j : /\ stack' = st /\ st # <<>> /\ Stands(shape, st)
                         /\ st[Len(st)].parent.index = r /\ st[Len(st)].i = j + 1
                         /\ GoesTo(r, j, q) /\ Col(shape, r) \in Seq(Words)
                         /\ FieldIn(shape, q) \in Field /\ q # <<>>
<1>1. PICK n : n = Len(stack)
  OBVIOUS
<1>2. PICK old : old = stack
  OBVIOUS
<1>3. PICK s : s = shape
  OBVIOUS
<1>4. PICK st : st = stack'
  OBVIOUS
<1>5. PICK m : m = n - 1
  OBVIOUS
<1>6. /\ MapTypeOK /\ stack # <<>> /\ s \in Declarations
      /\ stack' = [SubSeq(stack, 1, Len(stack) - 1) EXCEPT ![Len(stack) - 1].i = Caller.i + 1]
  BY <1>3, ShapeType DEF Inv, Return, Leave
<1>7. stack \in Seq(Frame) /\ Len(stack) \in Nat \ {0}
  BY <1>6, TopType DEF MapTypeOK
<1>8. n \in Nat \ {0} /\ n # 1 /\ old \in Seq(Frame) /\ DOMAIN old = 1..n /\ Len(old) = n
  BY <1>1, <1>2, <1>7
<1>9. m \in Nat \ {0} /\ n = m + 1 /\ m \in 1..n /\ n \in 1..n /\ n > 1 /\ m \in 1..m
  BY <1>5, <1>8
<1>10. Stands(s, old) /\ q = old[n].parent.index /\ q \in Seq(Nat) /\ Len(q) + 1 = n
       /\ (q = <<>> \/ q \in Dec(s))
  BY <1>1, <1>2, <1>3 DEF At0, Top
<1>11. Follows(s, old, n) /\ Follows(s, old, m)
  BY <1>8, <1>9, <1>10 DEF Stands
<1>12. PICK r : r = old[m].parent.index
  OBVIOUS
<1>13. PICK j : j = old[m].i
  OBVIOUS
<1>14. q = Append(r, j)
  BY <1>5, <1>9, <1>10, <1>11, <1>12, <1>13 DEF Follows
<1>15. r \in Seq(Nat) /\ old[m].type = Ty(s, r) /\ old[m].prefix = Col(s, r)
  BY <1>11, <1>12 DEF Follows, FrameAt
<1>16. old[m] \in Frame
  BY <1>8, <1>9, ElementOfSeq
<1>17. j \in Nat /\ Col(s, r) \in Seq(Words) /\ Ty(s, r) \in Types
  BY <1>13, <1>15, <1>16 DEF Frame
<1>18. GoesTo(r, j, q)
  BY <1>14, <1>15, <1>17 DEF GoesTo
<1>19. q # <<>> /\ q \in Dec(s)
  <2>1. q # <<>>
    BY <1>8, <1>10
  <2> QED
    BY <1>10, <2>1
<1>20. Allowed(s, r, j)
  <2>1. Under(Append(r, j), q)
    BY <1>10, <1>14 DEF Under
  <2> QED
    BY <1>6, <1>15, <1>17, <1>19, <2>1, OnTheWay
<1>21. j \in DOMAIN s[Ty(s, r)]
  BY <1>20 DEF Allowed
<1>22. FieldIn(s, q) \in Field
  <2>1. s[Ty(s, r)][j] \in Field
    BY <1>6, <1>17, <1>21, FieldType
  <2>2. IsField(s, r, j, q)
    BY <1>18, FieldStep
  <2> QED
    BY <2>1, <2>2 DEF IsField
<1>23. st \in Seq(Frame) /\ DOMAIN st = 1..m /\ \A k \in 1..m : SameFrame(st[k], old[k])
  BY <1>1, <1>2, <1>4, <1>5, <1>6, ReturnKeeps
<1>24. Len(st) = m
  BY <1>9, <1>23
<1>25. \A k \in 1..m : st[k].i = IF k = m THEN old[k].i + 1 ELSE old[k].i
  <2>1. PICK rest : rest = SubSeq(old, 1, m)
    OBVIOUS
  <2>2. \A k \in 1..m : old[k] \in Frame
    BY <1>8, <1>9, ElementOfSeq
  <2>3. rest \in Seq(Frame) /\ Len(rest) = m /\ \A k \in 1..m : rest[k] = old[k]
    BY <1>9, <2>1, <2>2, SubSeqProperties
  <2>4. st = [rest EXCEPT ![m].i = old[m].i + 1]
    BY <1>1, <1>2, <1>4, <1>5, <1>6, <2>1 DEF Caller
  <2>5. DOMAIN rest = 1..m
    BY <2>3
  <2>6. \A k \in 1..m : k # m => st[k] = old[k]
    BY <2>3, <2>4, <2>5
  <2>7. st[m] = [rest[m] EXCEPT !.i = old[m].i + 1]
    BY <1>9, <2>4, <2>5
  <2>8. st[m].i = old[m].i + 1
    <3>1. rest[m] \in Frame
      BY <1>9, <2>2, <2>3
    <3> QED
      BY <2>7, <3>1 DEF Frame
  <2> QED
    BY <2>6, <2>8
<1>26. \A k \in 1..m : /\ st[k].type = old[k].type /\ st[k].parent = old[k].parent
                       /\ st[k].prefix = old[k].prefix
                       /\ st[k].i = IF k = m THEN old[k].i + 1 ELSE old[k].i
  BY <1>23, <1>25 DEF SameFrame
<1>27. Stands(s, st)
  <2>1. old[m].i \in DOMAIN s[old[m].type] /\ m \in 1..Len(old)
    BY <1>8, <1>9, <1>13, <1>15, <1>21
  <2> QED
    BY <1>6, <1>8, <1>10, <1>23, <1>24, <1>26, <2>1, StandsOn
<1>28. st # <<>> /\ st[m].parent.index = r /\ st[m].i = j + 1
  BY <1>9, <1>12, <1>13, <1>24, <1>26
<1> QED
  BY <1>3, <1>4, <1>17, <1>18, <1>19, <1>22, <1>24, <1>27, <1>28

LEMMA UpDone ==
    ASSUME Inv, DeclInv, Return
    PROVE  DeclInv'
<1>1. /\ stack # <<>> /\ ~MoreFields /\ shape' = shape /\ errors' = errors
      /\ IF Top.parent.path = <<>> THEN UNCHANGED <<names, paths>> ELSE Register(Top.parent)
      /\ Len(stack) = 1 => stack' = <<>>
  BY DEF Return, Leave
<1>2. PICK s, q, i, fi : s = shape /\ fi = Top.parent /\ Ends(s, q, i, fi) /\ At0(q, i)
  BY <1>1, AtEnd
<1>3. /\ s \in Declarations /\ q \in Seq(Nat) /\ i \in Nat /\ fi.index = q
      /\ \A k \in DOMAIN s[Ty(s, q)] : k < i
  BY <1>2 DEF Ends
<1>4. PICK c : c = Append(q, i)
  OBVIOUS
<1>5. Reflects(s, names, paths, Done(s, c)) /\ errors = Told(s, q, c)
  BY <1>2, <1>4 DEF Ends, DoneAt
<1>6. CASE Len(stack) = 1
  <2>1. q = <<>>
    BY <1>2, <1>3, <1>6 DEF At0
  <2>2. names' = names /\ paths' = paths
    BY <1>1, <1>2, <2>1 DEF Ends
  <2>3. \A p \in Dec(s) : Lt(p, c)
    <3>1. \A k \in DOMAIN s[Ty(s, <<>>)] : k < i
      BY <1>3, <2>1
    <3>2. c = Append(<<>>, i)
      BY <1>4, <2>1
    <3> QED
      BY <1>3, <3>1, <3>2, DoneAll
  <2>4. Told(s, q, c) = BadTags(s) /\ Done(s, c) = OfCol(s)
    BY <1>3, <2>1, <2>3, TellAll
  <2>5. Reflects(s, names', paths', OfCol(s)) /\ errors' = BadTags(s)
    BY <1>1, <1>5, <2>2, <2>4
  <2> QED
    BY <1>1, <1>2, <1>6, <2>5 DEF DeclInv, DoneIn
<1>7. CASE Len(stack) # 1
  <2>1. PICK st, r, j : /\ stack' = st /\ st # <<>> /\ Stands(shape, st)
                        /\ st[Len(st)].parent.index = r /\ st[Len(st)].i = j + 1
                        /\ GoesTo(r, j, q) /\ Col(shape, r) \in Seq(Words)
                        /\ FieldIn(shape, q) \in Field /\ q # <<>>
    BY <1>2, <1>7, GoesUp
  <2>2. PICK d : d = Append(r, j + 1)
    OBVIOUS
  <2>3. NextTo(r, j, q, d)
    BY <2>1, <2>2 DEF NextTo, GoesTo
  <2>4. \A p \in Dec(s) : Lt(p, d) <=> Lt(p, c) \/ p = q
    <3>1. s \in Declarations /\ IsOver(s, q, i) /\ GoesTo(q, i, c)
      BY <1>3, <1>4 DEF IsOver, GoesTo
    <3> QED
      BY ONLY <2>3, <3>1, DoneUp
  <2>5. Told(s, q, c) = Told(s, r, d)
    BY <1>3, <2>1, <2>4, TellUp
  <2>6. /\ q \in Dec(s)
        /\ fi.path = IF Embedded(FieldIn(s, q)) THEN <<>> ELSE Col(s, q)
        /\ ~Embedded(FieldIn(s, q)) => fi.name = FieldIn(s, q).name
    BY <1>2, <2>1 DEF Ends
  <2>7. Reflects(s, names', paths', Done(s, d))
    <3>1. CASE Embedded(FieldIn(s, q))
      <4>1. Done(s, d) = Done(s, c)
        BY <2>4, <2>6, <3>1, DoneOne
      <4>2. names' = names /\ paths' = paths
        BY <1>1, <1>2, <2>6, <3>1
      <4> QED
        BY <1>5, <4>1, <4>2
    <3>2. CASE ~Embedded(FieldIn(s, q))
      <4>1. PICK f : f = FieldIn(s, q)
        OBVIOUS
      <4>2. f.name \in Seq(Words) \ {<<>>} /\ Bit(f) = f.name
        BY <1>2, <2>1, <3>2, <4>1 DEF Field, Bit
      <4>3. Fits(s, q)
        BY <4>1, <4>2 DEF Fits
      <4>4. Joins(s, r, q)
        BY <2>1, <4>3, ColStep
      <4>5. Col(s, q) = Col(s, r) \o f.name /\ Col(s, r) \in Seq(Words)
        BY <1>2, <2>1, <4>1, <4>2, <4>4 DEF Joins
      <4>6. Col(s, q) # <<>>
        <5> DEFINE a == Col(s, r)
                   b == f.name
        <5> HIDE DEF a, b
        <5>1. a \in Seq(Words) /\ b \in Seq(Words) /\ b # <<>>
          BY <4>2, <4>5 DEF a, b
        <5>2. Len(b) # 0 /\ Len(a) \in Nat /\ Len(b) \in Nat
          BY <5>1
        <5>3. Len(a \o b) = Len(a) + Len(b)
          BY <5>1
        <5>4. Len(a \o b) # 0
          BY <5>2, <5>3
        <5>5. a \o b # <<>>
          BY <5>4
        <5> QED
          BY <4>5, <5>5 DEF a, b
      <4>7. Register(fi)
        BY <1>1, <1>2, <2>6, <3>2, <4>6
      <4>8. \A p \in Dec(s) : Lt(p, c) => Sooner(p, q)
        <5>1. \A p \in Dec(s) : p \in Seq(Nat)
          BY <1>3, DecType
        <5> QED
          BY <1>3, <1>4, <5>1, LtUp
      <4>9. fi.path = Col(s, q) /\ fi.name = FieldIn(s, q).name
        BY <2>6, <3>2
      <4> QED
        BY <1>3, <1>5, <2>4, <2>6, <3>2, <4>7, <4>8, <4>9, RegisteredNext
    <3> QED
      BY <3>1, <3>2
  <2>8. DoneAt(s, r, j + 1, names', paths', errors')
    BY <1>1, <1>5, <2>2, <2>5, <2>7 DEF DoneAt
  <2> QED
    BY <1>1, <1>2, <2>1, <2>8, DoneThere
<1> QED
  BY <1>6, <1>7

LEMMA NextDone ==
    ASSUME IsFiniteSet(Types)
    PROVE  Inv /\ DeclInv /\ [MapNext]_mapVars => DeclInv'
<1> SUFFICES ASSUME Inv, DeclInv, [MapNext]_mapVars PROVE DeclInv'
  OBVIOUS
<1>1. CASE SkipField
  BY <1>1, SkipDone
<1>2. CASE MapLeaf
  BY <1>2, LeafDone
<1>3. CASE Descend
  BY <1>3, DownDone
<1>4. CASE Return
  BY <1>4, UpDone
<1>5. CASE UNCHANGED mapVars
  BY <1>5 DEF DeclInv, mapVars
<1> QED
  BY <1>1, <1>2, <1>3, <1>4, <1>5 DEF MapNext
-----------------------------------------------------------------------------
(* Every field the declarations reach is in the StructMap that rows are    *)
(* scanned with, under its path and its bare name; of several fields with  *)
(* one name the last registered has the path and the first the bare name;  *)
(* the fields reported are those with a bad tag, wherever they are.        *)
THEOREM MapIsAsDeclared ==
    ASSUME IsFiniteSet(Types)
    PROVE  Spec => []MappedAsDeclared
<1>1. ASSUME Inv, DeclInv PROVE MappedAsDeclared
  <2> SUFFICES ASSUME stack = <<>>
               PROVE  /\ DOMAIN paths = {Column(p) : p \in OfColumns}
                      /\ DOMAIN names = DOMAIN paths \cup {At(p).name : p \in OfColumns}
                      /\ \A c \in DOMAIN names : names[c].index = FieldNamed(c)
                      /\ errors = {p \in Declared : At(p).tag \in {"invalid", "empty"}}
    BY DEF MappedAsDeclared, Mapped
  <2>1. Reflects(shape, names, paths, OfCol(shape)) /\ errors = BadTags(shape)
    BY <1>1 DEF DeclInv, DoneIn
  <2>2. shape \in Declarations /\ \A c \in DOMAIN paths : names[c] = paths[c]
    BY <1>1, ShapeType DEF Inv, PathWinsOverBareName
  <2>3. errors = {p \in Declared : At(p).tag \in {"invalid", "empty"}}
    BY <2>1, DecIs, FieldIs DEF BadTags
  <2> QED
    BY <2>1, <2>2, <2>3, ReflectsNamed
<1>2. MapSpec => [](Inv /\ DeclInv)
  <2>1. MapInit => Inv /\ DeclInv
    BY InitInv, InitDone
  <2>2. Inv /\ DeclInv /\ [MapNext]_mapVars => (Inv /\ DeclInv)'
    BY NextInv, NextDone
  <2> QED
    BY <2>1, <2>2, PTL DEF MapSpec
<1> QED
  BY <1>1, <1>2, ScanImplementsMap, PTL
=============================================================================
