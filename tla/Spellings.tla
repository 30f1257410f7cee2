------------------------------- MODULE Spellings -------------------------------
(***************************************************************************)
(* From the syllables of a dictionary to the ways of reading an input:     *)
(* spelling algebra (algebra.cc, calculus.cc), the prism that it builds    *)
(* (prism.cc), the search for near keys (corrector.cc), and the syllable   *)
(* graph of an input (syllabifier.cc).                                     *)
(*                                                                         *)
(* A string is a sequence of letters.  What a regular expression makes of  *)
(* a string is given with the calculation that uses it.  Credibilities are *)
(* in hundredths of the natural logarithm that the code adds up.  Tips and *)
(* the marks of ambiguous joints, which nothing reads, are left out.       *)
(***************************************************************************)
EXTENDS Integers, Sequences, FiniteSets, FiniteSetsExt, SequencesExt

CONSTANTS
  Letters,    \* the alphabet, in the order of the prism
  Delimiters,
  Near        \* of every letter: the letters on the keys beside its own

\* SpellingType; the joints that are marked ambiguous (4) are left out
NormalSpelling == 0
FuzzySpelling  == 1
Abbreviation   == 2
Completion     == 3
Invalid        == 5
Unreached      == 6  \* the type of a vertex that is not there

AsSpelt == [ type |-> NormalSpelling, credibility |-> 0, correction |-> FALSE ]
-----------------------------------------------------------------------------
(* Spelling algebra *)

Compose(properties, delta) ==
  [ type        |-> Max({properties.type, delta.type}),
    credibility |-> properties.credibility + delta.credibility,
    correction  |-> properties.correction \/ delta.correction ]

\* The properties of a spelling of a syllable that comes about in several ways.
UpdateAll(ways) ==
  LET best == Min({ p.type : p \in ways })
  IN [ type        |-> best,
       credibility |-> Max({ p.credibility : p \in ways }),
       correction  |-> \A p \in ways : p.type = best => p.correction ]

\* A calculation has a kind, and maps the strings that it applies to.
Delta(calculation) ==
  CASE calculation.kind = "fuzz"       -> [ AsSpelt EXCEPT !.type = FuzzySpelling, !.credibility = -69 ]
    [] calculation.kind = "abbrev"     -> [ AsSpelt EXCEPT !.type = Abbreviation, !.credibility = -69 ]
    [] calculation.kind = "correction" -> [ AsSpelt EXCEPT !.credibility = -461, !.correction = TRUE ]
    [] OTHER                           -> AsSpelt

Addition(calculation) == calculation.kind # "erase"
Deletion(calculation) == calculation.kind \in {"xlit", "xform", "erase"}

Kept(calculation, spelling) ==
  IF Deletion(calculation) THEN {} ELSE { [ str |-> spelling, delta |-> AsSpelt ] }

Added(calculation, spelling) ==
  IF Addition(calculation)
  THEN { [ str |-> s, delta |-> Delta(calculation) ] :
           s \in {calculation.rewrites[spelling]} \ {<< >>} }
  ELSE {}

Applies(calculation, spelling) == spelling # << >> /\ spelling \in DOMAIN calculation.rewrites

Applied(calculation, spelling) ==
  IF Applies(calculation, spelling)
  THEN Kept(calculation, spelling) \cup Added(calculation, spelling)
  ELSE { [ str |-> spelling, delta |-> AsSpelt ] }

\* One round: what every spelling of the script becomes, merged by spelling.
Calculate(script, calculation) ==
  LET made == UNION { { [ from |-> s, to |-> a.str, delta |-> a.delta ] :
                          a \in Applied(calculation, s) } : s \in DOMAIN script }
      Ways(to, syllable) ==
        { Compose(script[x.from][syllable], x.delta) :
            x \in { y \in made : y.to = to /\ syllable \in DOMAIN script[y.from] } }
  IN [ to \in { x.to : x \in made } |->
         [ syllable \in UNION { DOMAIN script[x.from] : x \in { y \in made : y.to = to } } |->
             UpdateAll(Ways(to, syllable)) ] ]

\* The spellings of a prism, with the syllables of each; without an algebra
\* every syllable spells itself.
BuildSpellings(syllabary, algebra) ==
  FoldLeft(Calculate, [ s \in syllabary |-> [ y \in {s} |-> AsSpelt ] ], algebra)
-----------------------------------------------------------------------------
(* Prism and corrector *)

Rank(letter) == CHOOSE i \in DOMAIN Letters : Letters[i] = letter

\* Shorter keys are expanded first, and equally long ones by the alphabet.
FoundBefore(k, l) ==
  \/ Len(k) < Len(l)
  \/ /\ Len(k) = Len(l)
     /\ \E i \in DOMAIN k : Rank(k[i]) < Rank(l[i]) /\ \A j \in 1..(i - 1) : k[j] = l[j]

CommonPrefixSearch(prism, input) == { k \in DOMAIN prism : k # << >> /\ IsPrefix(k, input) }

\* The keys that begin with a string, at most a limit of them unless it is 0.
ExpandSearch(prism, str, limit) ==
  LET keys == SetToSortSeq({ k \in DOMAIN prism : IsPrefix(str, k) }, FoundBefore)
  IN IF limit = 0 THEN keys ELSE SubSeq(keys, 1, Min({limit, Len(keys)}))

Tolerance == 5

Distance(k, l) == Cardinality({ i \in DOMAIN k : k[i] # l[i] })

\* Keys as long as some prefix of the input that are typed with keys near it.
ToleranceSearch(prism, input) ==
  { k \in DOMAIN prism :
      /\ Len(k) \in 1..Len(input)
      /\ \A i \in DOMAIN k : k[i] = input[i] \/ k[i] \in Near[input[i]]
      /\ Distance(k, input) <= Tolerance }

IsWorthCorrectingTo(prism, key) ==
  \E y \in DOMAIN prism[key] : prism[key][y].type = NormalSpelling /\ ~prism[key][y].correction
-----------------------------------------------------------------------------
(* Syllabifier.  An edge of the graph of an input is a syllable from one    *)
(* position to another; options are strict_spelling, enable_completion and  *)
(* enable_correction.                                                       *)

kCorrectionCredibility == -461
kCompletionPenalty     == -300

EndPos(input, pos) ==
  Max({ k \in pos..Len(input) : \A j \in (pos + 1)..k : input[j] \in Delimiters })

\* What one match of the prism spells from a position.
Spelled(prism, input, options, pos, key, corrected) ==
  LET to == EndPos(input, pos + Len(key))
  IN { [ from |-> pos, to |-> to, syllable |-> y, exact |-> ~corrected,
         type        |-> prism[key][y].type,
         credibility |-> IF corrected THEN kCorrectionCredibility ELSE prism[key][y].credibility,
         correction  |-> corrected \/ prism[key][y].correction ] :
       y \in { x \in DOMAIN prism[key] :
                 ~ (/\ options.strict
                    /\ pos = 0 /\ to = Len(input)
                    /\ prism[key][x].type # NormalSpelling) } }

\* All the matches at a position, as sets of edges.
Matches(prism, input, options, pos) ==
  LET rest  == SubSeq(input, pos + 1, Len(input))
      exact == CommonPrefixSearch(prism, rest)
      near  == IF options.correction
               THEN { k \in ToleranceSearch(prism, rest) \ exact : IsWorthCorrectingTo(prism, k) }
               ELSE {}
  IN ({ Spelled(prism, input, options, pos, k, FALSE) : k \in exact }
        \cup { Spelled(prism, input, options, pos, k, TRUE) : k \in near }) \ {{}}

\* An edge that several matches give keeps the properties of the exact one,
\* whatever it is, and the best of the types.
MergeEdges(matches) ==
  LET edges == UNION matches
      Same(e) == { f \in edges : f.to = e.to /\ f.syllable = e.syllable }
      First(e) == CHOOSE f \in Same(e) : f.exact \/ \A g \in Same(e) : ~g.exact
  IN { [ First(e) EXCEPT !.type = Min({ f.type : f \in Same(e) }) ] : e \in edges }

\* The type of the vertex that a match from a vertex of some type arrives at.
EndVertexType(match, type) ==
  Max({type, Min({Invalid} \cup { e.type : e \in { f \in match : ~f.correction } })})

\* Vertices are visited from left to right, the best type of each first.
VisitVertex(g, pos) ==
  LET arriving == UNION { { EndVertexType(match, g.type[from]) :
                              match \in { m \in g.matches[from] : \E e \in m : e.to = pos } } :
                            from \in { p \in 0..(pos - 1) : g.type[p] # Unreached } }
  IN [ g EXCEPT !.type[pos] = Min({Unreached} \cup arriving) ]

Positions(n) == [ i \in 1..n |-> i ]

Explore(prism, input, options) ==
  LET n == Len(input)
  IN FoldLeft(VisitVertex,
              [ matches |-> [ pos \in 0..(n - 1) |-> Matches(prism, input, options, pos) ],
                type    |-> [ pos \in 0..n |-> IF pos = 0 THEN NormalSpelling ELSE Unreached ] ],
              Positions(n))

\* Mutant of LastType: a normal spelling to the end makes the fuzzy ones stale.
LastTypeReached(g, farthest) == g.type[farthest]

\* Fuzzy spellings are immune to invalidation by normal ones.
LastType(g, farthest) == Max({g.type[farthest], FuzzySpelling})

\* From right to left: edges to what is left of the graph, within the type that
\* the farthest vertex is reached with, and vertices that have such edges.
RemoveStale(g, pos) ==
  LET left == { e \in MergeEdges(g.matches[pos]) :
                  e.to \in g.good /\ (e.correction \/ e.type <= g.last_type) }
  IN IF g.type[pos] > g.last_type \/ left = {}
     THEN g
     ELSE [ g EXCEPT !.good = @ \cup {pos}, !.edges = @ \cup left ]

Connected(g, farthest) ==
  FoldLeft(RemoveStale,
           [ matches |-> g.matches, type |-> g.type, last_type |-> LastType(g, farthest),
             good |-> {farthest}, edges |-> {} ],
           Reverse([ i \in 1..farthest |-> i - 1 ]))

\* What the rest of the input may become, of spellings that are whole.
Completions(prism, input, farthest) ==
  LET keys == ExpandSearch(prism, SubSeq(input, farthest + 1, Len(input)), 512)
      Spells(i, y) == /\ y \in DOMAIN prism[keys[i]]
                      /\ prism[keys[i]][y].type < Abbreviation
      First(y) == prism[keys[Min({ i \in DOMAIN keys : Spells(i, y) })]][y]
  IN { [ from |-> farthest, to |-> Len(input), syllable |-> y, exact |-> FALSE, type |-> Completion,
         credibility |-> First(y).credibility + kCompletionPenalty,
         correction  |-> First(y).correction ] :
       y \in { x \in UNION { DOMAIN prism[keys[i]] : i \in DOMAIN keys } :
                 \E i \in DOMAIN keys : Spells(i, x) } }

Graph(edges, completed, farthest, length) ==
  [ edges |-> edges \cup completed,
    interpreted_length |-> IF completed = {} THEN farthest ELSE length ]

Interpreted(prism, input, options, g, farthest) ==
  Graph(Connected(g, farthest).edges,
        IF options.completion /\ farthest < Len(input) THEN Completions(prism, input, farthest) ELSE {},
        farthest, Len(input))

\* As far as the exploration has come, and to the end if what is left may be completed.
BuildSyllableGraph(prism, input, options) ==
  LET g == Explore(prism, input, options)
  IN Interpreted(prism, input, options, g, Max({ pos \in DOMAIN g.type : g.type[pos] # Unreached }))
=============================================================================
