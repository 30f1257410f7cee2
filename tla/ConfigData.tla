----------------------------- MODULE ConfigData -----------------------------
(***************************************************************************)
(* The trees of librime's configuration (config_types.h, config_data.cc,   *)
(* config_cow_ref.h).  Items are shared: `heap' holds them by number, and  *)
(* a map or a list holds the numbers of its children, Null for nullptr.    *)
(* Whoever edits a node copies it first, with all that leads to it, so     *)
(* that those who share it do not see the edit.                            *)
(*                                                                         *)
(* A key is the sequence of what stands between its slashes: the key       *)
(* `x/+' of a patch is << "x", "+" >>.  The state of a compiler, or of a   *)
(* loaded config, is a record g with the fields                            *)
(*   heap    the items                                                     *)
(*   roots   the root of the tree of each resource                         *)
(*   copied  the copy-on-write references that have made their copy        *)
(*   edits   a number for the references of the next edit                  *)
(***************************************************************************)
EXTENDS Naturals, Sequences, SequencesExt, TLC

CONSTANT KeyOrder  \* the keys in use, in the order in which a map has them

Null == 0

\* Results of what may fail: the code's booleans, with the state they leave.
Done(g)   == [ g |-> g, ok |-> TRUE ]
Failed(g) == [ g |-> g, ok |-> FALSE ]
Also(ok, r) == [ r EXCEPT !.ok = ok /\ @ ]
-----------------------------------------------------------------------------
\* Items.

Allocate(g, item) ==
  [ g |-> [ g EXCEPT !.heap = Append(@, item) ], id |-> Len(g.heap) + 1 ]

Is(g, id, type) == id # Null /\ g.heap[id].type = type

As(g, id, type) == IF Is(g, id, type) THEN id ELSE Null

NewContainer(type) ==
  IF type = "list" THEN [ type |-> "list", seq |-> << >> ]
                   ELSE [ type |-> "map", map |-> << >> ]

InOrder(keys) == SelectSeq(KeyOrder, LAMBDA key : key \in keys)

KeysOf(g, map) == InOrder(DOMAIN g.heap[map].map)

\* ConfigItem::empty.
IsEmptyItem(g, id) ==
  CASE g.heap[id].type = "list" -> g.heap[id].seq = << >>
    [] g.heap[id].type = "map"  -> DOMAIN g.heap[id].map = {}
    [] OTHER                    -> g.heap[id].str = << >>
-----------------------------------------------------------------------------
\* References to the elements of a list: @0, @next, @before 0, @after last...

FormatListIndex(index) == "@" \o ToString(index)

MaxIndex == 3  \* the greatest index that is written out in a key

ListReference ==
  [ key \in { FormatListIndex(n) : n \in 0..MaxIndex } |->
      [ place |-> "at", last |-> FALSE,
        n |-> CHOOSE n \in 0..MaxIndex : key = FormatListIndex(n) ] ]
  @@ ("@next"        :> [ place |-> "next",   last |-> FALSE, n |-> 0 ])
  @@ ("@last"        :> [ place |-> "at",     last |-> TRUE,  n |-> 0 ])
  @@ ("@before 0"    :> [ place |-> "before", last |-> FALSE, n |-> 0 ])
  @@ ("@before last" :> [ place |-> "before", last |-> TRUE,  n |-> 0 ])
  @@ ("@after 0"     :> [ place |-> "after",  last |-> FALSE, n |-> 0 ])
  @@ ("@after last"  :> [ place |-> "after",  last |-> TRUE,  n |-> 0 ])

IsListItemReference(key) == key[1] \in DOMAIN ListReference

ResolveListIndex(size, key) ==
  LET ref   == ListReference[key[1]]
      start == CASE ref.place = "next"  -> size
                 [] ref.place = "after" -> 1
                 [] OTHER               -> 0
      index == start + (IF ref.last THEN size ELSE ref.n)
  IN  IF ref.last /\ index # 0 THEN index - 1 ELSE index

WillInsert(key) == ListReference[key[1]].place \in {"before", "after"}

Resized(seq, size, filling) ==
  seq \o [ i \in 1..(IF size > Len(seq) THEN size - Len(seq) ELSE 0) |-> filling ]

\* ConfigList::Insert, where the reference asks for it, and ConfigList::SetAt.
\* `filling' stands for nullptr.
SetAt(seq, key, value, filling) ==
  LET index == ResolveListIndex(Len(seq), key)
      room  == IF WillInsert(key)
               THEN InsertAt(Resized(seq, index, filling), index + 1, filling)
               ELSE Resized(seq, index + 1, filling)
  IN  [ room EXCEPT ![index + 1] = value ]

ContainerOf(key) == IF IsListItemReference(key) THEN "list" ELSE "map"

IsList(g, container) == g.heap[container].type = "list"

Read(g, container, key) ==
  IF IsList(g, container)
  THEN LET seq   == g.heap[container].seq
           index == ResolveListIndex(Len(seq), key)
       IN  IF index < Len(seq) THEN seq[index + 1] ELSE Null
  ELSE LET map == g.heap[container].map
       IN  IF key \in DOMAIN map THEN map[key] ELSE Null

Write(g, container, key, item) ==
  IF IsList(g, container)
  THEN [ g EXCEPT !.heap[container].seq = SetAt(@, key, item, Null) ]
  ELSE [ g EXCEPT !.heap[container].map = (key :> item) @@ @ ]
-----------------------------------------------------------------------------
\* References to nodes: the root of a resource, an entry of a container, an
\* entry that is copied on write.

RootRef(resource)      == [ kind |-> "root", resource |-> resource ]
EntryRef(container, key) == [ kind |-> "entry", container |-> container, key |-> key ]
CowRef(g, parent, key) ==
  [ kind |-> "cow", parent |-> parent, key |-> key, edit |-> g.edits ]
NoRef == [ kind |-> "none" ]

RECURSIVE GetItem(_, _)
GetItem(g, ref) ==
  CASE ref.kind = "root"  -> g.roots[ref.resource]
    [] ref.kind = "entry" -> Read(g, ref.container, ref.key)
    [] ref.kind = "cow"   ->
         LET container == As(g, GetItem(g, ref.parent), ContainerOf(ref.key))
         IN  IF container = Null THEN Null ELSE Read(g, container, ref.key)

CopyOnWrite(g, container, type) ==
  Allocate(g, IF container = Null THEN NewContainer(type) ELSE g.heap[container])

RECURSIVE SetItem(_, _, _)

WriteToCopy(copy, ref, item) ==
  Write([ SetItem(copy.g, ref.parent, copy.id) EXCEPT !.copied = @ \cup {ref} ],
        copy.id, ref.key, item)

WriteThrough(g, container, ref, item) ==
  IF ref \in g.copied THEN Write(g, container, ref.key, item)
  ELSE WriteToCopy(CopyOnWrite(g, container, ContainerOf(ref.key)), ref, item)

SetItem(g, ref, item) ==
  CASE ref.kind = "root"  -> [ g EXCEPT !.roots[ref.resource] = item ]
    [] ref.kind = "entry" -> Write(g, ref.container, ref.key, item)
    [] ref.kind = "cow"   ->
         WriteThrough(g, As(g, GetItem(g, ref.parent), ContainerOf(ref.key)), ref, item)

SetNewItem(g, ref, new) == SetItem(new.g, ref, new.id)

MayHold(g, parent, key) ==
  LET existing == GetItem(g, parent)
  IN  existing = Null \/ Is(g, existing, ContainerOf(key))

TypeCheckedCopyOnWrite(g, parent, key) ==
  CASE key = << >>          -> parent
    [] MayHold(g, parent, key) -> CowRef(g, parent, key)
    [] OTHER -> NoRef

RECURSIVE TraverseCopyOnWrite(_, _, _)
TraverseCopyOnWrite(g, head, path) ==
  IF path = << >> \/ head = NoRef THEN head
  ELSE TraverseCopyOnWrite(g, TypeCheckedCopyOnWrite(g, head, << path[1] >>), Tail(path))

\* The references of the next edit are others than those of the edits before.
NextEdit(g) == [ g EXCEPT !.edits = @ + 1 ]

SetTarget(g, target, item) ==
  IF target = NoRef THEN Failed(g) ELSE Done(SetItem(g, target, item))

\* Mutant of TraverseWrite: it writes into the container that is there.
TraverseWriteInPlace(g, resource, path, item) ==
  LET target == TraverseCopyOnWrite(g, RootRef(resource), path)
      parent == GetItem(g, target.parent)
  IN  IF target = NoRef \/ parent = Null THEN SetTarget(g, target, item)
      ELSE Done(Write(g, parent, target.key, item))

TraverseWrite(g, resource, path, item) ==
  SetTarget(NextEdit(g), TraverseCopyOnWrite(NextEdit(g), RootRef(resource), path), item)
-----------------------------------------------------------------------------
\* Edits (config_compiler.cc).

ADD_SUFFIX_OPERATOR == "+"
EQU_SUFFIX_OPERATOR == "="
APPEND_DIRECTIVE    == << "__append" >>
MERGE_DIRECTIVE     == << "__merge" >>

IsAppending(key) == key = APPEND_DIRECTIVE \/ Last(key) = ADD_SUFFIX_OPERATOR

\* type is that of the value, "null" for nullptr.
IsMerging(key, type, merge_tree) ==
  \/ key = MERGE_DIRECTIVE
  \/ Last(key) = ADD_SUFFIX_OPERATOR
  \/ merge_tree /\ type \in {"null", "map"} /\ Last(key) # EQU_SUFFIX_OPERATOR

StripOperator(key) ==
  IF key \in {APPEND_DIRECTIVE, MERGE_DIRECTIVE} THEN << >>
  ELSE IF Last(key) \in {ADD_SUFFIX_OPERATOR, EQU_SUFFIX_OPERATOR} THEN Front(key)
  ELSE key

TypeOf(g, id) == IF id = Null THEN "null" ELSE g.heap[id].type

AppendToString(g, target, value) ==
  LET existing == GetItem(g, target)
  IN  IF ~Is(g, existing, "scalar") THEN Failed(g)
      ELSE Done(SetNewItem(g, target,
             Allocate(g, [ type |-> "scalar",
                           str  |-> g.heap[existing].str \o g.heap[value].str ])))

\* An empty node, usually a map that had only directives, becomes a list.
AsList(g, target) ==
  IF Is(g, GetItem(g, target), "list") THEN g
  ELSE SetNewItem(g, target, Allocate(g, NewContainer("list")))

Extend(g, target, elements) ==
  IF elements = << >> THEN g
  ELSE SetNewItem(g, target,
         Allocate(g, [ type |-> "list",
                       seq  |-> g.heap[GetItem(g, target)].seq \o elements ]))

AppendToList(g, target, list) ==
  LET existing == GetItem(g, target)
  IN  IF Is(g, existing, "list") \/ IsEmptyItem(g, existing)
      THEN Done(Extend(AsList(g, target), target, g.heap[list].seq))
      ELSE Failed(g)

RECURSIVE EditNode(_, _, _, _, _), MergeEntries(_, _, _, _)

\* The first edit that fails ends it.
MergeEntries(r, target, map, keys) ==
  IF keys = << >> \/ ~r.ok THEN r
  ELSE MergeEntries(EditNode(r.g, target, keys[1], r.g.heap[map].map[keys[1]], TRUE),
                    target, map, Tail(keys))

MergeTree(g, target, map) == MergeEntries(Done(g), target, map, KeysOf(g, map))

EditTarget(g, target, key, value, merging) ==
  LET type == TypeOf(g, value)
  IN  CASE target = NoRef -> Failed(g)
        [] target # NoRef /\ (~(IsAppending(key) \/ merging) \/ GetItem(g, target) = Null) ->
             Done(SetItem(g, target, value))
        [] OTHER ->
             CASE type = "null"                        -> Done(g)
               [] IsAppending(key) /\ type = "scalar" -> AppendToString(g, target, value)
               [] IsAppending(key) /\ type = "list"   -> AppendToList(g, target, value)
               [] merging /\ type = "map"             -> MergeTree(g, target, value)
               [] OTHER                                -> Failed(g)

FindTarget(g, head, path, merge_tree) ==
  IF merge_tree THEN TypeCheckedCopyOnWrite(g, head, path)
                ELSE TraverseCopyOnWrite(g, head, path)

\* merge_tree: the key is one key of a map, and maps are merged without being asked
\* to; otherwise it is a path, and only `x/+' merges.
EditNode(g, head, key, value, merge_tree) ==
  EditTarget(NextEdit(g), FindTarget(NextEdit(g), head, StripOperator(key), merge_tree),
             key, value, IsMerging(key, TypeOf(g, value), merge_tree))

RECURSIVE PatchEntries(_, _, _, _)

\* PatchLiteral::Resolve: an edit that fails does not keep the others from being made.
PatchEntries(r, target, patch, keys) ==
  IF keys = << >> THEN r
  ELSE PatchEntries(Also(r.ok, EditNode(r.g, target, keys[1], r.g.heap[patch].map[keys[1]], FALSE)),
                    target, patch, Tail(keys))

Patch(g, target, patch) == PatchEntries(Done(g), target, patch, KeysOf(g, patch))
=============================================================================
