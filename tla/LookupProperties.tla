--------------------------- MODULE LookupProperties ----------------------------
(***************************************************************************)
(* What is found for an input while it is typed, letter by letter, against *)
(* what the spellings of the dictionary say of it; and what the menu of a  *)
(* segment must offer of it, in which order.                               *)
(***************************************************************************)
EXTENDS Menu

VARIABLE reading  \* what a translator makes of the input

lexiconVars == << lexicon, reading >>

Options == [ strict : BOOLEAN, completion : BOOLEAN, correction : BOOLEAN ]

ReadLetter(c) ==
  /\ Len(reading.input) < MaxLetters
  /\ reading' = Evaluate(lexicon, Append(reading.input, c), reading.options)
  /\ UNCHANGED lexicon

LexiconInit ==
  /\ lexicon \in Opened
  /\ reading \in { Evaluate(lexicon, << >>, options) : options \in Options }

LexiconNext == \E c \in Range(Letters) \cup Delimiters : ReadLetter(c)
-----------------------------------------------------------------------------
(* Spelling algebra, one syllable at a time: everything that some choice of *)
(* the calculations makes of it, unmerged.                                  *)

DeriveAll(spellings, calculation) ==
  UNION { { [ str |-> a.str, properties |-> Compose(s.properties, a.delta) ] :
              a \in Applied(calculation, s.str) } : s \in spellings }

Derivations(syllable) ==
  FoldLeft(DeriveAll, { [ str |-> syllable, properties |-> AsSpelt ] }, lexicon.algebra)

\* A spelling of a syllable in the prism has the best type and the best
\* credibility that any derivation gives it, and passes for no correction only
\* if a derivation without one gives it, although the script merges spellings
\* after every calculation (algebra.cc:22-38, spelling.cc:5-39).
SpellsAsDerived ==
  reading.input = << >> =>
    \A y \in lexicon.syllabary :
      LET all == Derivations(y)
      IN /\ { k \in DOMAIN lexicon.prism : y \in DOMAIN lexicon.prism[k] } = { d.str : d \in all }
         /\ \A k \in { d.str : d \in all } :
              LET ways == { d.properties : d \in { e \in all : e.str = k } }
                  has  == lexicon.prism[k][y]
              IN /\ has.type = Min({ p.type : p \in ways })
                 /\ has.credibility = Max({ p.credibility : p \in ways })
                 /\ ~has.correction => \E p \in ways : ~p.correction
-----------------------------------------------------------------------------
Arrive(edges, from) ==
  FoldLeft(LAMBDA there, n : there \cup { e.to : e \in { f \in edges : f.from \in there } },
           from, reading.input)

\* What the letters say: a syllable is read from one position to another when a
\* key that spells it, not worse than fuzzily, is typed there.
IsTyped(key, from, to) ==
  /\ key # << >> /\ IsPrefix(key, SubSeq(reading.input, from + 1, to))
  /\ to = EndPos(reading.input, from + Len(key))

IsWhole(from, to) == from = 0 /\ to = Len(reading.input)

FullReadings ==
  { r \in [ from : 0..Len(reading.input), to : 0..Len(reading.input), syllable : lexicon.syllabary ] :
      \E k \in DOMAIN lexicon.prism :
        /\ IsTyped(k, r.from, r.to)
        /\ r.syllable \in DOMAIN lexicon.prism[k]
        /\ ~lexicon.prism[k][r.syllable].correction
        /\ lexicon.prism[k][r.syllable].type <=
             IF reading.options.strict /\ IsWhole(r.from, r.to) THEN NormalSpelling ELSE FuzzySpelling }

\* The syllable graph hangs together: every edge is on a way from the start to
\* as far as the input is read.  It reads on as far as full spellings do, every
\* reading of the whole by full spellings is in it, and when there is one,
\* nothing that is spelled worse is (syllabifier.cc:146-194).
SyllableGraphKeepsReadings ==
  LET g    == reading.graph
      full == FullReadings
      far  == Max(Arrive(full, {0}))
  IN /\ \A e \in g.edges : /\ e.from \in Arrive(g.edges, {0})
                           /\ g.interpreted_length \in Arrive(g.edges, {e.to})
     /\ far <= g.interpreted_length
     /\ far = g.interpreted_length =>
          /\ \A r \in full :
               (r.from \in Arrive(full, {0}) /\ far \in Arrive(full, {r.to})) =>
                 \E e \in g.edges : /\ e.from = r.from /\ e.to = r.to
                                    /\ e.syllable = r.syllable /\ e.type <= FuzzySpelling
          /\ \A e \in g.edges : e.correction \/ e.type <= FuzzySpelling

\* An input is read as the algebra spells the syllables.
ReadsAsSpelled == SpellsAsDerived /\ SyllableGraphKeepsReadings
-----------------------------------------------------------------------------
\* Where the syllables of a code end, read along some edges from the start.
Ends(edges, code) ==
  FoldLeft(LAMBDA there, y : { e.to : e \in { f \in edges : f.from \in there /\ f.syllable = y } },
           {0}, code)

AllWords == UNION { lexicon.tables[i] : i \in DOMAIN lexicon.tables }

FoundAt(to) == IF to \in DOMAIN reading.words THEN Range(reading.words[to]) ELSE {}

\* A word is found wherever its syllables end, a word of more than three
\* syllables at least where they end last; nothing else is found but words whose
\* first syllables, three at the least, are all of the input when words are
\* predicted; and exact words come first, in the order of their weights
\* (table.cc:571-630, dictionary.cc:73-123, 251-297).
FindsWords ==
  /\ \A w \in AllWords :
       \A to \in Ends(reading.graph.edges, w.code) :
         w.text \notin lexicon.blacklist =>
           IF Len(w.code) <= kIndexCodeMaxLength
           THEN \E f \in FoundAt(to) : f.exact /\ f.text = w.text /\ f.code = w.code
           ELSE \E later \in to..reading.graph.interpreted_length :
                  \E f \in FoundAt(later) : f.text = w.text /\ f.code = w.code
  /\ \A to \in DOMAIN reading.words :
       LET found == reading.words[to]
       IN /\ \A i \in DOMAIN found :
               /\ found[i].text \notin lexicon.blacklist
               /\ \E w \in AllWords : w.text = found[i].text /\ w.code = found[i].code
               /\ IF found[i].exact
                  THEN to \in Ends(reading.graph.edges, found[i].code)
                  ELSE /\ reading.predict /\ to = Len(reading.input)
                       /\ \E n \in kIndexCodeMaxLength..(Len(found[i].code) - 1) :
                            to \in Ends(reading.graph.edges, SubSeq(found[i].code, 1, n))
          /\ \A i, j \in DOMAIN found :
               i < j => \/ found[i].exact /\ ~found[j].exact
                        \/ found[i].exact = found[j].exact /\ found[i].weight >= found[j].weight

\* The edges along which phrases are looked up: of the abbreviations of a
\* syllable only the longest ones (user_dictionary.cc:238-249).
PhraseEdges ==
  { e \in reading.graph.edges :
      \/ e.type < Abbreviation
      \/ \A f \in reading.graph.edges : f.from = e.from /\ f.syllable = e.syllable => f.to <= e.to }

\* One pass over the database, forward and back, finds exactly the phrases whose
\* syllables are read along those edges, at each of their ends, and predicts those
\* that begin with all of the input (user_dictionary.cc:216-303).
FindsPhrases ==
  { [ to |-> x.to, phrase |-> x.phrase ] : x \in reading.phrases } =
    { x \in [ to : 1..reading.graph.interpreted_length, phrase : lexicon.phrases ] :
        \/ x.to \in Ends(PhraseEdges, x.phrase.code)
        \/ /\ reading.predict /\ x.to = reading.graph.interpreted_length
           /\ \E n \in kNumSyllablesToPredictWord..(Len(x.phrase.code) - 1) :
                x.to \in Ends(PhraseEdges, SubSeq(x.phrase.code, 1, n)) }

\* An input finds its words and its phrases, and nothing else.
FindsEntries == FindsWords /\ FindsPhrases
-----------------------------------------------------------------------------
\* Every candidate that has been taken from a translation, in order.
Taken == FlattenSeq([ i \in DOMAIN menu.candidates |-> menu.candidates[i].items ])

Offered == { menu.candidates[i].text : i \in DOMAIN menu.candidates }

Texts(entries) == { e.text : e \in entries }

\* What a script translator has found from the start of the input on.
FoundTexts(found) ==
  { x.phrase.text : x \in found.phrases } \cup
    UNION { Texts(Range(found.words[to])) : to \in DOMAIN found.words }

ScriptTexts(options) == FoundTexts(Evaluate(lexicon, input, options))

\* The code, or the beginning of one when words are completed.
Spells(key, options) ==
  IF options.completion THEN IsPrefix(Trimmed(input), key) ELSE Trimmed(input) = key

\* The words of a table, by the keys of single syllables.
WordsByKeys(keys) ==
  { w \in UNION Range(lexicon.tables) :
      /\ \E k \in keys : /\ w.code \in { << y >> : y \in DOMAIN lexicon.prism[k] }
                         /\ lexicon.prism[k][w.code[1]].type = NormalSpelling
      /\ w.text \notin lexicon.blacklist }

PhrasesBy(options) ==
  { p \in lexicon.phrases : \/ Spells(Front(KeyOf(p.code)), options)
                            \/ IsPrefix(Append(Trimmed(input), Space), KeyOf(p.code)) }

TableTexts(options) ==
  Texts(WordsByKeys({ k \in DOMAIN lexicon.prism : Spells(k, options) }) \cup PhrasesBy(options))

\* With a blacklist the first of the words that a further search adds is stepped over.
SurelyTableTexts(options) ==
  IF options.completion /\ lexicon.blacklist # {}
  THEN Texts(WordsByKeys(DOMAIN lexicon.prism \cap {Trimmed(input)}) \cup PhrasesBy(options))
  ELSE TableTexts(options)

TextsOf(options) ==
  IF options.translator = "script" THEN ScriptTexts(options) ELSE TableTexts(options)

SurelyTextsOf(options) ==
  IF options.translator = "script" THEN ScriptTexts(options) ELSE SurelyTableTexts(options)

\* No text is on the menu twice, and when it is all prepared, what is on it is
\* everything that the translators find: batch by batch, merged, and cleared of
\* duplicates (table_translator.cc:163-207, translation.cc:106-152,
\* uniquifier.cc:33-62).  A sentence is made of what is found, and corrections
\* past their limit are not offered.  Of a table with a blacklist it is only sure
\* that words by exactly the code are on the menu: a word to be completed is lost
\* at every further search (dictionary.cc:204-217 leaves the entry that AddFilter
\* has looked at, and the next one is stepped over for it).
MenuOffersAll ==
  /\ \A i, j \in DOMAIN menu.candidates :
       menu.candidates[i].text = menu.candidates[j].text => i = j
  /\ input # << >> /\ menu.merged = << >> /\ (\A i \in DOMAIN schema : ~schema[i].correction) =>
       \A found \in { UNION { TextsOf(schema[i]) : i \in DOMAIN schema } } :
         /\ UNION { SurelyTextsOf(schema[i]) : i \in DOMAIN schema } \subseteq Offered
         /\ \A i \in DOMAIN menu.candidates :
              \/ menu.candidates[i].text \in found
              \/ \E c \in Range(menu.candidates[i].items) :
                   c.type = "sentence" \/ (c.type \in {"table", "user_table"} /\ c.end < Len(input))
-----------------------------------------------------------------------------
\* The lines of at least two words from the start to the end of the input.
RECURSIVE LinesFrom(_, _)
LinesFrom(graph, line) ==
  LET pos == IF line.words = << >> THEN 0 ELSE Last(line.words).to
      found == IF pos \in DOMAIN graph THEN graph[pos] ELSE << >>
  IN IF pos = Len(input)
     THEN IF Len(line.words) = 1 THEN {} ELSE {line}
     ELSE UNION { UNION { LinesFrom(graph, Extended(line, entry, to)) : entry \in Range(found[to]) } :
                    to \in DOMAIN found }

\* The words that a translator has for a sentence from every position on.
WordGraphOf(graph, options) ==
  [ pos \in { e.from : e \in graph.edges } |-> Enrolled(lexicon, graph, pos, options.homophones) ]

ScriptGraph(options) == WordGraphOf(BuildSyllableGraph(lexicon.prism, input, options), options)

FirstWords(found) ==
  [ to \in DOMAIN found.user \cup DOMAIN found.table |->
      << Head((found.user @@ found.table)[to]) >> ]

TableGraph == [ pos \in 0..(Len(input) - 1) |-> FirstWords(WordsFrom(lexicon, input, pos)) ]

SentenceLines(options) ==
  LinesFrom(IF options.translator = "script" THEN ScriptGraph(options) ELSE TableGraph, EmptyLine)

Worse(options, line, other) ==
  Compare(IF options.translator = "script" THEN "weight" ELSE "left associate", line, other)

\* A sentence that is offered is a line of words from the start to the end of the
\* input that no other line is better than, although the poet has kept but one
\* line for every position (poet.cc:191-243).
BestSentence ==
  \A i \in DOMAIN menu.candidates :
    LET c == Head(menu.candidates[i].items)
    IN c.type = "sentence" =>
         \E n \in DOMAIN schema : \E lines \in {SentenceLines(schema[n])} : \E line \in lines :
           /\ SentenceText(line) = c.text /\ Len(line.words) = c.words
           /\ \A other \in lines : ~Worse(schema[n], line, other)
-----------------------------------------------------------------------------
\* What one translator offers: of a table, words to be completed after all the
\* others; of a script, longer ones before shorter ones, and at the top no word
\* that is yet to be completed where one of exactly the input has been found
\* (table_translator.cc:102-113, script_translator.cc:571-648).
FirstOf(i) == Head(menu.candidates[i].items)

ExactFirst ==
  Len(schema) = 1 =>
    /\ \A i, j \in DOMAIN menu.candidates :
         i < j => IF schema[1].translator = "script"
                  THEN FirstOf(i).end >= FirstOf(j).end
                  ELSE FirstOf(i).type = "completion" => FirstOf(j).type = "completion"
    /\ /\ schema[1].translator = "script"
       /\ menu.candidates # << >> /\ FirstOf(1).type = "completion"
       =>
         \A r \in {Evaluate(lexicon, input, schema[1])} :
           /\ Len(input) \in DOMAIN r.words => \A e \in Range(r.words[Len(input)]) : ~e.exact
           /\ \A x \in r.phrases : x.to = Len(input) => x.path.code # x.phrase.code
=============================================================================
