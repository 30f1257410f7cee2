---------------------------------- MODULE Menu ----------------------------------
(***************************************************************************)
(* The candidates of a segment: the translations of all translators are    *)
(* merged (translation.cc), pass the Uniquifier (uniquifier.cc), and are   *)
(* prepared as pages of them are asked for (menu.cc).                      *)
(***************************************************************************)
EXTENDS Translations

CONSTANTS
  Lexicons,    \* dictionaries: syllabary, algebra, tables, blacklist, phrases
  Translators, \* sequences of the options of translators
  MaxLetters,  \* bound on the input
  PageSize

VARIABLES
  lexicon,     \* the dictionary of the session, with its prism
  schema,
  input,
  menu

menuVars == << lexicon, schema, input, menu >>

\* Candidate::compare: a candidate comes before another or draws with it.
NotAfter(c, d) ==
  \/ c.start < d.start
  \/ c.start = d.start /\ c.end > d.end
  \/ c.start = d.start /\ c.end = d.end /\ c.quality >= d.quality

\* The first that is not after the one that follows it.
ElectedOf(candidates) ==
  Min({ k \in DOMAIN candidates :
          k = Len(candidates) \/ NotAfter(candidates[k], candidates[k + 1]) })

Elected(translations) == ElectedOf([ k \in DOMAIN translations |-> Peek(translations[k]) ])

PeekMerged(translations) == Peek(translations[Elected(translations)])

WithNext(translations, k, next) ==
  IF Exhausted(next) THEN RemoveAt(translations, k) ELSE ReplaceAt(translations, k, next)

NextAt(translations, k) == WithNext(translations, k, NextOf(translations[k]))

NextMerged(translations) == NextAt(translations, Elected(translations))

NewMenu(translations) ==
  [ merged |-> SelectSeq(translations, LAMBDA t : ~Exhausted(t)), candidates |-> << >> ]

\* The candidate goes to the one of the same text that is on the menu already.
AppendTo(candidates, index, next) ==
  [ candidates EXCEPT ![index].items   = Append(@, next),
                      ![index].quality = Max({@, next.quality}) ]

Listed(c) == [ text |-> c.text, quality |-> c.quality, items |-> << c >> ]

RECURSIVE Uniquify(_)
RECURSIVE UniquifyNext(_, _)
UniquifyNext(m, next) ==
  LET previous == SelectInSeq(m.candidates, LAMBDA c : c.text = next.text)
  IN IF previous = 0
     THEN m
     ELSE Uniquify([ merged     |-> NextMerged(m.merged),
                     candidates |-> AppendTo(m.candidates, previous, next) ])

\* Passes over what is on the menu already.
Uniquify(m) == IF m.merged = << >> THEN m ELSE UniquifyNext(m, PeekMerged(m.merged))

PrepareNext(m, next) ==
  Uniquify([ merged |-> NextMerged(m.merged), candidates |-> Append(m.candidates, Listed(next)) ])

RECURSIVE Prepare(_, _)
Prepare(m, requested) ==
  IF Len(m.candidates) >= requested \/ m.merged = << >>
  THEN m
  ELSE Prepare(PrepareNext(m, PeekMerged(m.merged)), requested)
-----------------------------------------------------------------------------
\* A dictionary is opened with the prism that it was built with.
Opened == { [ prism |-> BuildSpellings(l.syllabary, l.algebra) ] @@ l : l \in Lexicons }

Translate(from, text, translators) ==
  NewMenu([ i \in DOMAIN translators |-> QueryOf(from, text, translators[i]) ])

\* A segment begins with a letter.
TypeLetter(c) ==
  /\ Len(input) < MaxLetters
  /\ input = << >> => c \notin Delimiters
  /\ input' = Append(input, c)
  /\ menu' = Translate(lexicon, input', schema)
  /\ UNCHANGED << lexicon, schema >>

\* Menu::CreatePage, of the page after the last one that is there.
CreatePage ==
  /\ menu.merged # << >>
  /\ menu' = Prepare(menu, PageSize * (Len(menu.candidates) \div PageSize + 1))
  /\ UNCHANGED << lexicon, schema, input >>

MenuInit ==
  /\ lexicon \in Opened
  /\ schema \in Translators
  /\ input = << >>
  /\ menu = NewMenu(<< >>)

MenuNext ==
  \/ \E c \in Range(Letters) \cup Delimiters : TypeLetter(c)
  \/ CreatePage
=============================================================================
