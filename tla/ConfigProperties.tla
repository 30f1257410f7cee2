-------------------------- MODULE ConfigProperties --------------------------
(***************************************************************************)
(* What a configuration means, said of values: no item is shared, nothing  *)
(* is kept from one look to the next, and a reference is answered by       *)
(* making what it refers to.  A node is made of what is written in it,     *)
(* its children first, with what it includes beneath that, and the patches *)
(* on top.                                                                 *)
(***************************************************************************)
EXTENDS ConfigCompiler

Nothing   == [ type |-> "null" ]
\* What cannot be made, because something that it needs is missing; and what needs
\* itself, edits something of the wrong type, or would rather do without what cannot
\* be made: there the code makes what it can, in the order in which it comes to it.
Undefined == [ type |-> "undefined" ]
Unsettled  == [ type |-> "unsettled" ]

IsMade(tree) == tree \notin {Undefined, Unsettled}
-----------------------------------------------------------------------------
\* The value of an item; a tree deeper than any document is a cycle.
MaxDepth == 12

RECURSIVE TreeOf(_, _, _)
TreeOf(heap, id, depth) ==
  IF id = Null THEN Nothing
  ELSE IF depth = 0 THEN Undefined
  ELSE LET item == heap[id]
       IN  CASE item.type = "list" ->
                  [ type |-> "list",
                    seq |-> [ i \in DOMAIN item.seq |-> TreeOf(heap, item.seq[i], depth - 1) ] ]
             [] item.type = "map" ->
                  [ type |-> "map",
                    map |-> [ key \in DOMAIN item.map |-> TreeOf(heap, item.map[key], depth - 1) ] ]
             [] OTHER -> item

Tree == TreeOf(config.heap, config.roots[Target], MaxDepth)
-----------------------------------------------------------------------------
\* Editing values.

Child(tree, key) ==
  IF tree.type # ContainerOf(key) THEN Nothing
  ELSE IF tree.type = "map"
  THEN IF key \in DOMAIN tree.map THEN tree.map[key] ELSE Nothing
  ELSE LET index == ResolveListIndex(Len(tree.seq), key)
       IN  IF index < Len(tree.seq) THEN tree.seq[index + 1] ELSE Nothing

RECURSIVE At(_, _)
At(tree, path) == IF path = << >> THEN tree ELSE At(Child(tree, path[1]), Tail(path))

PutChild(tree, key, child) ==
  CASE tree.type # ContainerOf(key) \/ ~IsMade(child) -> Unsettled
    [] tree.type = "map"  /\ ContainerOf(key) = "map"  /\ IsMade(child) ->
         [ tree EXCEPT !.map = (key :> child) @@ @ ]
    [] tree.type = "list" /\ ContainerOf(key) = "list" /\ IsMade(child) ->
         [ tree EXCEPT !.seq = SetAt(@, key, child, Nothing) ]

OrNew(tree, type) == IF tree = Nothing THEN NewContainer(type) ELSE tree

\* tree with value at path, a sequence of keys; what is missing on the way is made.
RECURSIVE Put(_, _, _)
Put(tree, path, value) ==
  IF path = << >> \/ ~IsMade(value) THEN value
  ELSE LET base == OrNew(tree, ContainerOf(path[1]))
       IN  PutChild(base, path[1], Put(Child(base, path[1]), Tail(path), value))

\* Each element of a path, as a key.
Split(path) == [ i \in DOMAIN path |-> << path[i] >> ]

\* A map that is merged has its keys as they are, and a patch has paths for keys.
PathTo(key, merge) ==
  LET to == StripOperator(key)
  IN  IF merge /\ to # << >> THEN << to >> ELSE Split(to)

IsEmptyTree(tree) == tree.type = "map" /\ DOMAIN tree.map = {}

RECURSIVE Edited(_, _, _, _)

Merged(tree, map)  == Edited(tree, map, InOrder(DOMAIN map), TRUE)
Patched(tree, map) == Edited(tree, map, InOrder(DOMAIN map), FALSE)

Combined(old, value, appending) ==
  CASE value = Nothing                    -> old
    [] value.type = "map"                 -> Merged(old, value.map)
    [] appending /\ value.type = "scalar" ->
         IF old.type = "scalar" THEN [ old EXCEPT !.str = @ \o value.str ] ELSE Unsettled
    [] appending /\ value.type = "list"   ->
         IF old.type = "list" THEN [ old EXCEPT !.seq = @ \o value.seq ]
         ELSE IF IsEmptyTree(old) THEN value ELSE Unsettled
    [] OTHER -> Unsettled

\* What an edit puts in the place of old.
NewValue(old, key, value, merge) ==
  IF old # Nothing /\ (IsAppending(key) \/ IsMerging(key, value.type, merge))
  THEN Combined(old, value, IsAppending(key))
  ELSE value

Edited(tree, map, keys, merge) ==
  IF keys = << >> \/ ~IsMade(tree) THEN tree
  ELSE LET key  == keys[1]
           path == PathTo(key, merge)
       IN  Edited(Put(tree, path, NewValue(At(tree, path), key, map[key], merge)),
                  map, Tail(keys), merge)
-----------------------------------------------------------------------------
\* Resolving.  `busy' has the nodes that are being made: Nothing as long as their
\* children are, and then what there is of them.

Entries(node) == IF node.type = "map" THEN Range(node.entries) ELSE {}

DirectiveOf(node, key) == { e.value : e \in { e \in Entries(node) : e.key = key } }

Includes(node) == DirectiveOf(node, INCLUDE_DIRECTIVE)

\* The patches of a node in their order.
PatchesOf(node) ==
  LET given == DirectiveOf(node, PATCH_DIRECTIVE)
      patch == CHOOSE p \in given : TRUE
  IN  CASE given = {}           -> << >>
        [] given # {} /\ patch.type = "list" -> patch.seq
        [] OTHER                -> << patch >>

IsAutoPatched(path, node) ==
  Len(path) = 1 /\ ~IsCustom(path[1]) /\ PatchesOf(node) = << >>

IsDirected(path, node) ==
  Includes(node) # {} \/ PatchesOf(node) # << >> \/ IsAutoPatched(path, node)

IsBeingMade(busy, path) == \E other \in DOMAIN busy : IsPrefix(path, other)

ChildNode(node, key) ==
  CASE node.type = "map" ->
         LET found == { e.value : e \in { e \in Entries(node) :
                                             e.key = key /\ ~IsDirective(key) } }
         IN  IF found = {} THEN Nothing ELSE CHOOSE value \in found : TRUE
    [] node.type = "list" /\ IsListItemReference(key) ->
         LET index == ResolveListIndex(Len(node.seq), key)
         IN  IF index < Len(node.seq) THEN node.seq[index + 1] ELSE Nothing
    [] OTHER -> Nothing

RECURSIVE Meaning(_, _, _), Lookup(_, _, _, _), Directed(_, _, _, _), PatchedBy(_, _, _, _)

UnlessMissing(tree, optional) == IF tree = Undefined /\ optional THEN Unsettled ELSE tree

\* What a reference in the node `from' is to.  The nodes around it are read as far
\* as they have been made; it is circular if it needs any other that is being made.
Refer(busy, from, reference) ==
  LET resource == IF reference.resource = "" THEN from[1] ELSE reference.resource
      ways     == { << resource >> \o SubSeq(reference.path, 1, n) :
                      n \in 0..Len(reference.path) }
      circular == \E way \in ways : IsBeingMade(busy, way) /\ ~IsPrefix(way, from)
  IN  CASE resource \notin DOMAIN docs -> Nothing
        [] resource \in DOMAIN docs /\ circular -> Unsettled
        [] OTHER -> UnlessMissing(
                      Lookup(busy, << resource >>, docs[resource], reference.path),
                      reference.optional)

AtMade(tree, keys) == IF IsMade(tree) THEN At(tree, Split(keys)) ELSE tree

Lookup(busy, path, node, keys) ==
  CASE keys = << >> /\ IsBeingMade(busy, path) -> Nothing
    [] keys # << >> /\ path \in DOMAIN busy /\ busy[path] # Nothing ->
         At(busy[path], Split(keys))
    [] ~IsBeingMade(busy, path) /\ (keys = << >> \/ IsDirected(path, node)) ->
         AtMade(Meaning(busy, path, node), keys)
    [] OTHER ->
         LET key == << Head(keys) >>
         IN  Lookup(busy, path \o key, ChildNode(node, key), Tail(keys))

\* A step of making a node: tree is what there was of it.
Step(tree, optional, found, result) ==
  CASE ~IsMade(tree)                   -> tree
    [] IsMade(tree) /\ ~IsMade(found)  -> found
    [] IsMade(tree) /\ found = Nothing -> IF optional THEN tree ELSE Undefined
    [] OTHER                           -> result

\* tree as it is written, unless a child of it is not made.
WithChildren(tree) ==
  LET children == CASE tree.type = "map"  -> Range(tree.map)
                    [] tree.type = "list" -> Range(tree.seq)
                    [] OTHER              -> {}
  IN  CASE Unsettled \in children -> Unsettled
        [] Undefined \in children /\ Unsettled \notin children -> Undefined
        [] OTHER -> tree

Literal(busy, path, node) ==
  CASE node.type = "map" ->
         LET keys == { e.key : e \in Entries(node) }
         IN  [ type |-> "map", map |->
                 [ key \in { k \in keys : ~IsDirective(k) } |->
                     Meaning(busy, path \o key, ChildNode(node, key)) ] ]
    [] node.type = "list" ->
         [ type |-> "list", seq |->
             [ i \in DOMAIN node.seq |->
                 Meaning(busy, path \o << FormatListIndex(i - 1) >>, node.seq[i]) ] ]
    [] OTHER -> node

OverIncluded(tree, optional, found) ==
  Step(tree, optional, found, IF tree.type = "map" THEN Merged(found, tree.map) ELSE found)

PatchedWith(tree, optional, found) ==
  Step(tree, optional, found,
       IF found.type = "map" THEN Patched(tree, found.map) ELSE Unsettled)

Included(busy, path, tree, includes) ==
  IF includes = {} THEN tree
  ELSE LET to == (CHOOSE r \in includes : TRUE).to
       IN  OverIncluded(tree, to.optional, Refer((path :> tree) @@ busy, path, to))

PatchedByReference(busy, path, tree, to) ==
  PatchedWith(tree, to.optional, Refer((path :> tree) @@ busy, path, to))

PatchedBy(busy, path, tree, patches) ==
  IF patches = << >> THEN tree
  ELSE PatchedBy(busy, path,
         IF patches[1].type = "reference"
         THEN PatchedByReference(busy, path, tree, patches[1].to)
         ELSE PatchedWith(tree, FALSE,
                Meaning((path :> Nothing) @@ busy, path \o PATCH_DIRECTIVE, patches[1])),
         Tail(patches))

Directed(busy, path, node, literal) ==
  PatchedBy(busy, path, Included(busy, path, literal, Includes(node)), PatchesOf(node))

Meaning(busy, path, node) ==
  LET directed == Directed(busy, path, node,
                    WithChildren(Literal((path :> Nothing) @@ busy, path, node)))
  IN  IF IsAutoPatched(path, node)
      THEN PatchedByReference(busy, path, directed,
             [ resource |-> CustomOf(path[1]), path |-> << "patch" >>, optional |-> TRUE ])
      ELSE directed
-----------------------------------------------------------------------------
IsOutcome(meaning) ==
  meaning # Unsettled =>
    /\ status = "linked" <=> meaning # Undefined
    /\ status = "linked" => Tree = meaning

\* The compiler, which shares items, resolves each node once and comes to it from
\* wherever the first reference is, makes what the documents mean: a patch shows in
\* the node that it patches and in no other that shares its content, and the order of
\* the directives in a file does not matter.  A document that needs what is missing
\* does not link (IncludeReference::Resolve, PatchReference::Resolve, Link).
ResolvesAsMeant ==
  status # "source" /\ writes = 0 =>
    IsOutcome(Meaning(<< >>, << Target >>, docs[Target]))

\* A write to a config changes what is at its path and nothing else, though
\* included content stands in several places (TraverseWrite, ConfigCowRef); a write
\* that goes through something of the wrong type changes nothing.
WriteIsLocal ==
  [][ \A path \in Paths, value \in Values :
        status = "linked" /\ Set(path, value) =>
          LET written == Put(Tree, Split(path), value)
          IN  Tree' = IF IsMade(written) THEN written ELSE Tree ]_vars
=============================================================================
