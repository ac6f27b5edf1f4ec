------------------------------ MODULE FieldMap ------------------------------
(***************************************************************************)
(* mapType and flattenFields (internal/reflectx/reflectx.go): how a struct *)
(* type becomes a StructMap, one field of a struct per step.  The frames   *)
(* of the recursion are an explicit stack, so that its guard against types *)
(* that contain themselves can be reasoned about.                          *)
(*                                                                         *)
(* A name is a sequence of words, so that a tag with a dot in it is <<x,   *)
(* y>> and a Path is a concatenation.  Fields have the name flattenFields  *)
(* gives them (the tag, through tagMapFunc, or mapFunc of the Go name).    *)
(* A type is a struct of Types or Scalar: any other type, and the structs  *)
(* that implement Scanner.  Offsets are counted in words.                  *)
(***************************************************************************)
EXTENDS Naturals, Sequences

CONSTANTS
    Types, Root,    \* the struct types, and the one that is mapped
    Scalar, NoType,
    Words,          \* what names are made of
    Shapes          \* the declarations: the fields of each type

Tags == {"none", "dash", "name", "invalid", "empty"}  \* `-`, `x`, `x!`, `,opt`
Field == [name : Seq(Words) \ {<<>>}, type : Types \cup {Scalar}, ptr : BOOLEAN,
          anonymous : BOOLEAN, exported : BOOLEAN, tag : Tags, off : Nat]

ASSUME TypesAssumption ==
    Root \in Types /\ Scalar \notin Types /\ NoType \notin Types \cup {Scalar}
ASSUME ShapesAssumption ==
    Shapes \subseteq [Types -> Seq(Field)]

VARIABLES
    shape,     \* the declarations of this program
    stack,     \* the calls of flattenFields, the innermost last
    visited,   \* the types they are in
    names, paths,  \* StructMap.Names and Paths: functions to FieldInfos
    errors     \* StructMap.Errors: the fields with a bad tag

mapVars == <<shape, stack, visited, names, paths, errors>>

(* Steps of a Traversal: past an offset, or through a pointer to a type. *)
Step == [off : Nat, type : Types \cup {Scalar, NoType}]
FieldInfo == [index : Seq(Nat), path : Seq(Words), name : Seq(Words),
              traversal : Seq(Step), isPtrPath : BOOLEAN, offset : Nat,
              targetType : Types \cup {Scalar}]
Frame == [type : Types, parent : FieldInfo, prefix : Seq(Words), i : Nat]

Tree == [index |-> <<>>, path |-> <<>>, name |-> <<>>, traversal |-> <<>>,
         isPtrPath |-> FALSE, offset |-> 0, targetType |-> Root]

MapInit ==
    /\ shape \in Shapes
    /\ stack = <<[type |-> Root, parent |-> Tree, prefix |-> <<>>, i |-> 1]>>
    /\ visited = {Root}
    /\ names = [c \in {} |-> Tree]
    /\ paths = [c \in {} |-> Tree]
    /\ errors = {}

Top == stack[Len(stack)]
Caller == stack[Len(stack) - 1]
Fields(t) == shape[t]
Current == Fields(Top.type)[Top.i]
MoreFields == stack # <<>> /\ Top.i \in DOMAIN Fields(Top.type)

(* Unexported, and not embedded; or tagged "-". *)
Ignored(f) == (~f.exported /\ ~f.anonymous) \/ f.tag = "dash"
Embedded(f) == f.type \in Types /\ f.tag = "none" /\ f.anonymous

(* What a field adds to the way to its parent. *)
Way(f) ==
    <<[off |-> f.off, type |-> NoType]>>
        \o (IF f.ptr THEN <<[off |-> 0, type |-> f.type]>> ELSE <<>>)

BehindPointerForgotten(f) == f.ptr
BehindPointer(f) == Top.parent.isPtrPath \/ f.ptr

(* The FieldInfo of the current field, as an embedded one. *)
NewField(f) ==
    [index |-> Append(Top.parent.index, Top.i),
     path |-> <<>>, name |-> <<>>,
     traversal |-> Top.parent.traversal \o Way(f),
     isPtrPath |-> BehindPointer(f),
     offset |-> IF BehindPointer(f) THEN 0 ELSE Top.parent.offset + f.off,
     targetType |-> f.type]
Named(f) == [NewField(f) EXCEPT !.path = Top.prefix \o f.name, !.name = f.name]

Put(map, c, fi) == [d \in DOMAIN map \cup {c} |-> IF d = c THEN fi ELSE map[d]]

(* Paths and Names take the field; its bare name only if it is free. *)
RegisterFirst(fi) ==
    /\ paths' = IF fi.path \in DOMAIN paths THEN paths ELSE Put(paths, fi.path, fi)
    /\ names' = LET first == IF fi.path \in DOMAIN names THEN names ELSE Put(names, fi.path, fi)
                IN IF fi.name \in DOMAIN first THEN first ELSE Put(first, fi.name, fi)
RegisterBareAlways(fi) ==
    /\ paths' = Put(paths, fi.path, fi)
    /\ names' = Put(Put(names, fi.path, fi), fi.name, fi)
Register(fi) ==
    /\ paths' = Put(paths, fi.path, fi)
    /\ names' = LET withPath == Put(names, fi.path, fi)
                IN IF fi.name \in DOMAIN withPath THEN withPath
                   ELSE Put(withPath, fi.name, fi)

(* The loop goes on with the next field. *)
NextField == stack' = [stack EXCEPT ![Len(stack)].i = @ + 1]

Validate(f) ==
    errors' = IF f.tag \in {"invalid", "empty"}
              THEN errors \cup {Append(Top.parent.index, Top.i)} ELSE errors

SkipField ==
    /\ MoreFields /\ Ignored(Current)
    /\ NextField
    /\ UNCHANGED <<shape, visited, names, paths, errors>>

(* The guard against recursion: a type that is being flattened. *)
CutOff(f) == f.type \in visited

(* A field with no fields of its own to flatten. *)
MapLeaf ==
    /\ MoreFields /\ ~Ignored(Current)
    /\ Current.type \notin Types \/ CutOff(Current)
    /\ IF Embedded(Current) THEN UNCHANGED <<names, paths>>
       ELSE Register(Named(Current))
    /\ Validate(Current)
    /\ NextField
    /\ UNCHANGED <<shape, visited>>

(* A struct: its fields first. An embedded one has no name of its own. *)
DescendIf(isStruct) ==
    /\ MoreFields /\ ~Ignored(Current)
    /\ isStruct /\ ~CutOff(Current)
    /\ LET fi == IF Embedded(Current) THEN NewField(Current) ELSE Named(Current)
           prefix == IF Embedded(Current) THEN Top.prefix ELSE fi.path
       IN stack' = Append(stack, [type |-> Current.type, parent |-> fi,
                                  prefix |-> prefix, i |-> 1])
    /\ visited' = visited \cup {Current.type}
    /\ Validate(Current)
    /\ UNCHANGED <<shape, names, paths>>
DescendIntoAnything == DescendIf(TRUE)
Descend == DescendIf(Current.type \in Types)

(* The end of a struct's fields: the guard is lifted, and the caller       *)
(* registers the struct itself, if it has a name, and goes on.             *)
Leave(visitedLeft, goOn) ==
    /\ stack # <<>> /\ ~MoreFields
    /\ visited' = visitedLeft
    /\ IF Top.parent.path = <<>> THEN UNCHANGED <<names, paths>>
       ELSE Register(Top.parent)
    /\ stack' = IF Len(stack) = 1 THEN <<>>
                ELSE [SubSeq(stack, 1, Len(stack) - 1)
                         EXCEPT ![Len(stack) - 1].i = goOn]
    /\ UNCHANGED <<shape, errors>>
ReturnKeepsGuard == Leave(visited, Caller.i + 1)
ReturnToSameField == Leave(visited \ {Top.type}, Caller.i)
Return == Leave(visited \ {Top.type}, Caller.i + 1)

MapNext == SkipField \/ MapLeaf \/ Descend \/ Return

Mapped == stack = <<>>
MapSpec == MapInit /\ [][MapNext]_mapVars
-----------------------------------------------------------------------------
IsMap(map) == map = [c \in DOMAIN map |-> map[c]] /\ DOMAIN map \subseteq Seq(Words)
              /\ \A c \in DOMAIN map : map[c] \in FieldInfo

MapTypeOK ==
    /\ shape \in [Types -> Seq(Field)]
    /\ stack \in Seq(Frame)
    /\ visited \subseteq Types
    /\ IsMap(names) /\ IsMap(paths)
    /\ errors \subseteq Seq(Nat)

(* However types embed and point to each other, no type is flattened       *)
(* inside itself: the calls of flattenFields are of different types, those *)
(* the guard visited holds, so that the recursion is no deeper than there  *)
(* are types and a type in two places of a struct is flattened in both.    *)
GuardIsThePath ==
    /\ visited = {stack[k].type : k \in DOMAIN stack}
    /\ \A k, l \in DOMAIN stack : stack[k].type = stack[l].type => k = l

(* Nothing is addressed by an offset that lies behind a pointer: a field   *)
(* is marked exactly when its traversal goes through one.                  *)
Marked(fi) ==
    fi.isPtrPath <=> \E k \in DOMAIN fi.traversal : fi.traversal[k].type # NoType
PointersAreMarked ==
    /\ \A k \in DOMAIN stack : Marked(stack[k].parent)
    /\ \A c \in DOMAIN names : Marked(names[c])

(* A column named by a full path reaches that field, whatever bare names   *)
(* were entered under the same words before or are entered later.          *)
PathWinsOverBareName ==
    \A c \in DOMAIN paths : c \in DOMAIN names /\ names[c] = paths[c]
=============================================================================
