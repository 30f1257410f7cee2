------------------------------ MODULE MCConfig ------------------------------
(***************************************************************************)
(* Small documents for TLC: A has nodes x, y and z of a few shapes, with   *)
(* references among them and to B, and directives at its root; B refers to *)
(* itself, or is missing; A.custom patches A, or is missing.               *)
(***************************************************************************)
EXTENDS ConfigProperties

Scalar(str)       == [ type |-> "scalar", str |-> << str >> ]
List(seq)         == [ type |-> "list", seq |-> seq ]
Map(entries)      == [ type |-> "map", entries |-> entries ]
Entry(key, value) == [ key |-> key, value |-> value ]
Reference(resource, path, optional) ==
  [ type |-> "reference",
    to |-> [ resource |-> resource, path |-> path, optional |-> optional ] ]
Include(to)       == Entry(INCLUDE_DIRECTIVE, to)
PatchWith(patch)  == Entry(PATCH_DIRECTIVE, patch)
Here(path)        == Reference("", path, FALSE)
InB(path)         == Reference("B", path, FALSE)

X   == << "x" >>
Y   == << "y" >>
Z   == << "z" >>
K   == << "k" >>
L   == << "l" >>
One == Scalar("1")
Two == Scalar("2")

Plain == Map(<< Entry(K, One), Entry(L, List(<< One >>)) >>)

\* An edit of k and of l, and an insertion into l.
Edits     == Map(<< Entry(<< "k", "+" >>, Two), Entry(<< "l", "+" >>, List(<< Two >>)) >>)
Insertion == Map(<< Entry(<< "l", "@before 0" >>, Two) >>)
Appended  == Entry(APPEND_DIRECTIVE, List(<< Two >>))

Targets ==
  { Here(Y), Here(Z), Here(<< "x", "k" >>), Here(<< "y", "l" >>),
    Here(<< "y", "l", "@last" >>), InB(<< >>), InB(X), InB(<< "x", "k" >>),
    Reference("B", << "w" >>, TRUE), Reference("C", << >>, TRUE) }

Shapes(to) ==
  { Map(<< Include(to) >>),
    Map(<< Include(to), Entry(K, Two) >>),
    Map(<< Include(to), Appended >>),
    Map(<< Include(to), Entry(L, Map(<< Appended >>)) >>),
    Map(<< Include(to), PatchWith(Edits) >>),
    Map(<< PatchWith(List(<< Insertion, to >>)), Include(to) >>),
    Map(<< Entry(K, Map(<< Include(to) >>)), Entry(L, List(<< Map(<< Include(to) >>) >>)) >>) }

Nodes == {Plain} \cup UNION { Shapes(to) : to \in Targets }

Others ==
  {Plain} \cup UNION { Shapes(to) : to \in { Here(Z), Here(<< "x", "k" >>), InB(X),
                                             Reference("C", << >>, TRUE) } }

Few ==
  { Plain,
    Map(<< Include(InB(X)) >>),
    Map(<< Include(Here(X)), Entry(K, Two) >>),
    Map(<< Entry(L, List(<< Map(<< Include(Here(<< "z", "l" >>)) >>) >>)) >>) }

RootDirectives ==
  { << Include(InB(<< >>)) >>,
    << Entry(<< "x", "=" >>, Plain), Include(InB(<< >>)) >>,
    << PatchWith(Map(<< Entry(<< "x", "k", "+" >>, Two),
                        Entry(<< "y", "l", "+" >>, List(<< Two >>)) >>)) >>,
    << PatchWith(Map(<< Entry(<< "x", "l", "+" >>,
                              Map(<< Include(Here(<< "z", "l" >>)) >>)) >>)) >> }

MCDocuments ==
  { Map(<< Entry(X, x), Entry(Y, y), Entry(Z, Plain) >>) : x \in Nodes, y \in Others }
  \cup { Map(root \o << Entry(Y, y), Entry(X, x), Entry(Z, Plain) >>) :
           root \in RootDirectives, x \in Nodes, y \in Few }

B == { Map(<< Entry(X, Plain) >>),
       Map(<< Entry(X, Map(<< Include(Here(Y)), PatchWith(Map(<< Entry(K, Two) >>)) >>)),
              Entry(Y, Plain) >>) }

Custom == Map(<< Entry(<< "patch" >>, Map(<< Entry(<< "y", "k" >>, Two) >>)) >>)

MCLibraries ==
  { << >> } \cup { "B" :> b : b \in B } \cup { ("B" :> b) @@ ("A.custom" :> Custom) : b \in B }

MCKeyOrder ==
  << APPEND_DIRECTIVE, K, << "k", "+" >>, L, << "l", "+" >>, << "l", "@before 0" >>,
     << "patch" >>, X, << "x", "=" >>, << "x", "k", "+" >>, << "x", "l", "+" >>,
     Y, << "y", "k" >>, << "y", "l", "+" >>, Z >>

MCPaths  == { << "x", "k" >>, << "y", "l", "@next" >> }
MCValues == { Scalar("3") }
=============================================================================
