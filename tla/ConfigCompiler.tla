--------------------------- MODULE ConfigCompiler ---------------------------
(***************************************************************************)
(* The configuration compiler (config_compiler.cc) as ConfigBuilder uses   *)
(* it (config_component.cc), with AutoPatchConfigPlugin.  A document is    *)
(* loaded into a tree; its directives __include and __patch become         *)
(* dependencies of the nodes that they stand in, which are resolved        *)
(* depth first, compiling other documents as references lead to them.      *)
(*                                                                         *)
(* A node is named by the resource and the keys on the way to it.  The     *)
(* compiler's graph adds to the fields of ConfigData                       *)
(*   loaded  whether a resource that is compiled has a file                *)
(*   deps    the dependencies of each node, in order of priority           *)
(*   chain   the nodes that are being resolved                             *)
(* A document is a tree of values in which a map has its entries in the    *)
(* order of the file.                                                      *)
(***************************************************************************)
EXTENDS ConfigData

CONSTANTS
  Documents,  \* the documents that the target may have
  Libraries,  \* and the sets of documents, by resource, that may be there with it
  Resources,  \* the resources that are not customizations of others
  Target,     \* the resource that is built
  Paths,      \* where the config is written to
  Values,     \* and what is written
  MaxWrites   \* bound: writes to the config after it has been built

VARIABLES
  docs,       \* the documents, by resource; those without a file are not there
  status,     \* "source", then "linked" or "failed"
  config,     \* what of the graph belongs to the ConfigData: heap, roots...
  writes      \* how many writes there have been

vars == << docs, status, config, writes >>

INCLUDE_DIRECTIVE == << "__include" >>
PATCH_DIRECTIVE   == << "__patch" >>
-----------------------------------------------------------------------------
\* The graph.

EmptyGraph ==
  [ heap |-> << >>, roots |-> << >>, copied |-> {}, edits |-> 0,
    loaded |-> << >>, deps |-> << >>, chain |-> << >> ]

IsCompiled(g, resource) == resource \in DOMAIN g.loaded

Deps(g, path) == IF path \in DOMAIN g.deps THEN g.deps[path] ELSE << >>

kPendingChild == 0
kInclude      == 1
kPatch        == 2

\* Dependencies are targeted at a node when they are added.
PendingChild(path) ==
  [ kind |-> "PendingChild", priority |-> kPendingChild, target |-> NoRef, path |-> path ]
IncludeReference(reference) ==
  [ kind |-> "IncludeReference", priority |-> kInclude, target |-> NoRef,
    reference |-> reference ]
PatchReference(reference) ==
  [ kind |-> "PatchReference", priority |-> kPatch, target |-> NoRef,
    reference |-> reference ]
PatchLiteral(patch) ==
  [ kind |-> "PatchLiteral", priority |-> kPatch, target |-> NoRef, patch |-> patch ]

\* Mutant of InsertByPriority: in the order of the file.
InsertLast(list, dependency) == Append(list, dependency)

InsertByPriority(list, dependency) ==
  LET before(d) == d.priority <= dependency.priority
  IN  SelectSeq(list, before) \o << dependency >>
        \o SelectSeq(list, LAMBDA d : ~before(d))

\* The stack of nodes that are being loaded: references to them with their keys.
PathOf(stack) == FoldLeft(LAMBDA path, node : path \o node.key, << >>, stack)

\* ConfigDependencyGraph::Add.  A node with a dependency is a pending child of its
\* parent, and so on up to the first that is pending already.
Depend(g, path, dependency) ==
  [ g EXCEPT !.deps = (path :> InsertByPriority(Deps(g, path), dependency)) @@ @ ]

RECURSIVE AddDependency(_, _, _)
AddDependency(g, dependency, stack) ==
  LET path  == PathOf(stack)
      added == Depend(g, path, [ dependency EXCEPT !.target = Last(stack).ref ])
  IN  IF Deps(g, path) # << >> \/ Len(stack) = 1 THEN added
      ELSE AddDependency(added, PendingChild(path), Front(stack))
-----------------------------------------------------------------------------
\* Loading.

CreateReference(stack, to) ==
  IF to.resource = "" THEN [ to EXCEPT !.resource = stack[1].key[1] ] ELSE to

\* The directives have values of the right types; Parse ignores others.
ParsePatch(g, item, stack) ==
  AddDependency(g,
    IF g.heap[item].type = "map" THEN PatchLiteral(item)
    ELSE PatchReference(CreateReference(stack, g.heap[item].to)), stack)

Parse(g, key, item, stack) ==
  CASE key = INCLUDE_DIRECTIVE ->
         AddDependency(g, IncludeReference(CreateReference(stack, g.heap[item].to)), stack)
    [] key = PATCH_DIRECTIVE ->
         IF g.heap[item].type = "list"
         THEN FoldLeft(LAMBDA acc, each : ParsePatch(acc, each, stack),
                       g, g.heap[item].seq)
         ELSE ParsePatch(g, item, stack)

IsDirective(key) == key \in {INCLUDE_DIRECTIVE, PATCH_DIRECTIVE}

RECURSIVE ConvertFromYaml(_, _, _), ConvertElements(_, _, _, _),
          ConvertEntries(_, _, _, _)

ConvertFromYaml(g, node, stack) ==
  CASE node.type = "null" -> [ g |-> g, id |-> Null ]
    [] node.type \in {"scalar", "reference"} -> Allocate(g, node)
    [] node.type = "list" ->
         ConvertElements(Allocate(g, NewContainer("list")), node.seq, 1, stack)
    [] node.type = "map"  ->
         ConvertEntries(Allocate(g, NewContainer("map")), node.entries, 1, stack)

Push(stack, container, key) ==
  Append(stack, [ ref |-> EntryRef(container, key), key |-> key ])

AppendElement(list, element) ==
  [ list EXCEPT !.g = [ element.g EXCEPT !.heap[list.id].seq = Append(@, element.id) ] ]

ConvertElements(list, elements, i, stack) ==
  IF i > Len(elements) THEN list
  ELSE ConvertElements(
         AppendElement(list,
           ConvertFromYaml(list.g, elements[i],
                           Push(stack, list.id, << FormatListIndex(i - 1) >>))),
         elements, i + 1, stack)

\* A directive is no entry of the map.
SetEntry(map, key, value, stack) ==
  [ map EXCEPT !.g = IF IsDirective(key) THEN Parse(value.g, key, value.id, stack)
                     ELSE Write(value.g, map.id, key, value.id) ]

ConvertEntries(map, entries, i, stack) ==
  IF i > Len(entries) THEN map
  ELSE LET key == entries[i].key
       IN  ConvertEntries(
             SetEntry(map, key,
                      ConvertFromYaml(map.g, entries[i].value, Push(stack, map.id, key)),
                      stack),
             entries, i + 1, stack)

RootStack(resource) == << [ ref |-> RootRef(resource), key |-> << resource >> ] >>

\* The names of Resources do not end in `.schema', which would be dropped.
CustomOf(resource) == resource \o ".custom"

IsCustom(resource) == \E r \in Resources : resource = CustomOf(r)

\* AutoPatchConfigPlugin::ReviewCompileOutput.
AutoPatch(g, resource) ==
  LET deps == Deps(g, << resource >>)
  IN  IF \/ IsCustom(resource)
         \/ deps # << >> /\ Last(deps).priority >= kPatch
      THEN g
      ELSE AddDependency(g,
             PatchReference([ resource |-> CustomOf(resource), path |-> << "patch" >>,
                              optional |-> TRUE ]),
             RootStack(resource))

AddResource(g, resource) ==
  [ g EXCEPT !.roots  = (resource :> Null) @@ @,
             !.loaded = (resource :> (resource \in DOMAIN docs)) @@ @ ]

LoadFromFile(g, resource) ==
  IF g.loaded[resource]
  THEN SetNewItem(g, RootRef(resource),
                  ConvertFromYaml(g, docs[resource], RootStack(resource)))
  ELSE g

Compile(g, resource) == AutoPatch(LoadFromFile(AddResource(g, resource), resource), resource)
-----------------------------------------------------------------------------
\* Resolving.

\* The node, or one beneath it, is being resolved.
HasCircularDependencies(g, path) ==
  \E i \in DOMAIN g.chain : IsPrefix(path, g.chain[i])

IsBlocking(g, path) == Deps(g, path) # << >> /\ Last(Deps(g, path)).priority > kPendingChild

Erase(r, path) == IF r.ok THEN [ r EXCEPT !.g.deps[path] = Tail(@) ] ELSE r

Found(g, item) == [ g |-> g, item |-> item ]

RECURSIVE ResolveDependencies(_, _), ResolveInTurn(_, _), Resolve(_, _),
          ResolveReference(_, _), ResolveLoaded(_, _), GetResolvedItem(_, _),
          Advance(_, _, _, _), AdvanceTo(_, _, _, _, _), Descend(_, _, _, _), ItemAt(_, _)

\* A failure leaves the node on the chain and the dependency where it is.
ResolveDependencies(g, path) ==
  IF path \notin DOMAIN g.deps THEN Done(g)
  ELSE IF HasCircularDependencies(g, path) THEN Failed(g)
  ELSE ResolveInTurn(Done([ g EXCEPT !.chain = Append(@, path) ]), path)

ResolveInTurn(r, path) ==
  CASE ~r.ok -> r
    [] r.ok /\ r.g.deps[path] = << >> -> Done([ r.g EXCEPT !.chain = Front(@) ])
    [] OTHER -> ResolveInTurn(Erase(Resolve(r.g, Head(r.g.deps[path])), path), path)

\* The rest of GetResolvedItem's loop at `node', with `keys' to go.  A blocking
\* node that cannot be resolved is read as it is.
Advance(g, node, path, keys) ==
  IF keys = << >>
  THEN ItemAt(ResolveDependencies(g, path), node)
  ELSE Descend(IF IsBlocking(g, path) THEN ResolveDependencies(g, path).g ELSE g,
               node, path, keys)

ItemAt(r, node) == Found(r.g, IF r.ok THEN GetItem(r.g, node) ELSE Null)

Descend(g, node, path, keys) ==
  LET item == GetItem(g, node)
      key  == << Head(keys) >>
  IN  CASE Is(g, item, "list") /\ IsListItemReference(key) ->
             LET index == ResolveListIndex(Len(g.heap[item].seq), key)
             IN  AdvanceTo(g, item, << FormatListIndex(index) >>, path, keys)
        [] Is(g, item, "map") -> AdvanceTo(g, item, key, path, keys)
        [] OTHER -> Found(g, Null)

AdvanceTo(g, container, key, path, keys) ==
  Advance(g, EntryRef(container, key), path \o key, Tail(keys))

ResolveReference(g, reference) ==
  IF IsCompiled(g, reference.resource) THEN GetResolvedItem(g, reference)
  ELSE ResolveLoaded(Compile(g, reference.resource), reference)

ResolveLoaded(g, reference) ==
  IF g.loaded[reference.resource] THEN GetResolvedItem(g, reference) ELSE Found(g, Null)

GetResolvedItem(g, reference) ==
  Advance(g, RootRef(reference.resource), << reference.resource >>, reference.path)

\* What is there is merged into what is included.
IncludeItem(g, target, item) ==
  LET overrides == As(g, GetItem(g, target), "map")
  IN  IF overrides = Null THEN Done(SetItem(g, target, item))
      ELSE MergeTree(SetItem(g, target, item), target, overrides)

PatchItem(g, target, item) ==
  IF Is(g, item, "map") THEN Patch(g, target, item) ELSE Failed(g)

\* found: where a reference has led to.
Apply(found, dependency) ==
  CASE found.item = Null -> [ g |-> found.g, ok |-> dependency.reference.optional ]
    [] found.item # Null /\ dependency.kind = "IncludeReference" ->
         IncludeItem(found.g, dependency.target, found.item)
    [] found.item # Null /\ dependency.kind = "PatchReference" ->
         PatchItem(found.g, dependency.target, found.item)

Resolve(g, dependency) ==
  CASE dependency.kind = "PendingChild" -> ResolveDependencies(g, dependency.path)
    [] dependency.kind = "PatchLiteral" -> Patch(g, dependency.target, dependency.patch)
    [] OTHER -> Apply(ResolveReference(g, dependency.reference), dependency)

Link(g, resource) == ResolveDependencies(g, << resource >>)
-----------------------------------------------------------------------------
\* What of the graph outlives the compiler: the tree of the target.
DataOf(g) ==
  [ heap |-> g.heap, roots |-> (Target :> g.roots[Target]), copied |-> {}, edits |-> 0 ]

HandOut(linked) ==
  /\ status' = IF linked.ok THEN "linked" ELSE "failed"
  /\ config' = DataOf(linked.g)

\* ConfigBuilder::LoadConfig: what has been made is handed out even if linking fails.
LoadConfig ==
  /\ status = "source"
  /\ HandOut(Link(Compile(EmptyGraph, Target), Target))
  /\ UNCHANGED << docs, writes >>

WriteNew(new, path) == TraverseWrite(new.g, Target, path, new.id)

\* Config::SetItem with a new value; whether linking failed is not asked.
Set(path, value) ==
  /\ status # "source"
  /\ writes < MaxWrites
  /\ LET set == WriteNew(Allocate(config, value), path)
     IN  config' = IF set.ok THEN DataOf(set.g) ELSE config
  /\ writes' = writes + 1
  /\ UNCHANGED << docs, status >>

Init ==
  /\ \E document \in Documents, library \in Libraries :
       docs = (Target :> document) @@ library
  /\ status = "source"
  /\ config = DataOf([ EmptyGraph EXCEPT !.roots = Target :> Null ])
  /\ writes = 0

Next ==
  \/ LoadConfig
  \/ \E path \in Paths, value \in Values : Set(path, value)

Spec == Init /\ [][Next]_vars
=============================================================================
