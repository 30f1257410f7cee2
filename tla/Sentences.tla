------------------------------- MODULE Sentences -------------------------------
(***************************************************************************)
(* Making a sentence of the words found between the positions of an input *)
(* (poet.cc), by dynamic programming from left to right.  There is no      *)
(* grammar plugin, so that every word of a sentence costs the same.        *)
(*                                                                         *)
(* A word graph maps a position to the ends of the words that begin there, *)
(* and each end to a sequence of entries.  A line is a sequence of words   *)
(* with a weight, in hundredths of the logarithm.                          *)
(***************************************************************************)
EXTENDS Lexicon

kPenalty  == -1382
EmptyLine == [ words |-> << >>, weight |-> 0 ]

Extended(line, entry, to) ==
  [ words  |-> Append(line.words, [ entry |-> entry, to |-> to ]),
    weight |-> line.weight + entry.weight + kPenalty ]

WordLengths(line) ==
  [ i \in DOMAIN line.words |->
      line.words[i].to - (IF i = 1 THEN 0 ELSE line.words[i - 1].to) ]

IntLess(i, j) == i < j

CompareWeight(one, other) == one.weight < other.weight

\* Of equally heavy lines that of fewer words, then that of longer first ones.
LeftAssociateCompare(one, other) ==
  \/ one.weight < other.weight
  \/ /\ one.weight = other.weight
     /\ \/ Len(one.words) > Len(other.words)
        \/ /\ Len(one.words) = Len(other.words)
           /\ Precedes(WordLengths(one), WordLengths(other), IntLess)

\* The comparison that a poet is made with.
Compare(strategy, one, other) ==
  IF strategy = "left associate" THEN LeftAssociateCompare(one, other) ELSE CompareWeight(one, other)

\* Mutant of BetterLine: a position keeps the first line that reaches it.
FirstLine(best, line, strategy) == IF best.words = << >> THEN line ELSE best

BetterLine(best, line, strategy) ==
  IF best.words = << >> \/ Compare(strategy, best, line) THEN line ELSE best

BestLine(source, entries, to, best, strategy) ==
  FoldLeft(LAMBDA line, entry : BetterLine(line, Extended(source, entry, to), strategy), best, entries)

\* A word of the whole input makes no sentence.
ExtendLines(graph, total, states, start, strategy) ==
  LET ends == { to \in DOMAIN graph[start] : start # 0 \/ to # total }
      Before(to) == IF to \in DOMAIN states THEN states[to] ELSE EmptyLine
  IN IF start \notin DOMAIN states
     THEN states
     ELSE [ to \in ends |-> BestLine(states[start], graph[start][to], to, Before(to), strategy) ] @@ states

\* The empty line when there is no sentence.
MakeSentence(graph, total, strategy) ==
  LET starts == SetToSortSeq(DOMAIN graph, IntLess)
      states == FoldLeft(LAMBDA lines, start : ExtendLines(graph, total, lines, start, strategy),
                         0 :> EmptyLine, starts)
  IN IF total \in DOMAIN states THEN states[total] ELSE EmptyLine

SentenceText(line) == FlattenSeq([ i \in DOMAIN line.words |-> line.words[i].entry.text ])
SentenceCode(line) == FlattenSeq([ i \in DOMAIN line.words |-> line.words[i].entry.code ])
=============================================================================
