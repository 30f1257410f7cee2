------------------------------ MODULE Encoding -------------------------------
(***************************************************************************)
(* How the entries of a dictionary are collected from the rows of its      *)
(* tables (entry_collector.cc): words with a code as they are, phrases     *)
(* without one, and those of a preset vocabulary (preset_vocabulary.cc),   *)
(* with codes that are made of the codes of shorter words by an encoder    *)
(* (encoder.cc), syllable by syllable or by the rules of a formula.        *)
(*                                                                         *)
(* A text is a sequence of characters, a code one of letters.  Weights are *)
(* in hundredths.  Syntax is left to the parser of the settings; patterns  *)
(* of codes to exclude are the set of the codes that match.                *)
(***************************************************************************)
EXTENDS Integers, SequencesExt, TLC

CONSTANTS
  Dictionaries,        \* settings with the rows of tables and vocabularies
  CodeLetters,         \* the letters of codes, in their order
  kEncoderDfsLimit, kMaxPhraseLength

ASSUME EncodingAssumption ==
  /\ kEncoderDfsLimit \in Nat \ {0}
  /\ kMaxPhraseLength \in Nat \ {0}

VARIABLES
  dictionary,
  rows,                \* what of the tables has still to be read
  collector,           \* syllabary, entries, words and stems
  collection,          \* the texts of all rows
  encode_queue,        \* rows without a code
  vocabulary,          \* what of the preset vocabulary has still to be read
  pass                 \* "collect", "encode", "preset", then "done", or "thrown"

encodingVars == << dictionary, rows, collector, collection, encode_queue, vocabulary, pass >>

settings == dictionary.settings

NoCode   == << >>
NoWeight == [ kind |-> "none", n |-> 0 ]
-----------------------------------------------------------------------------
(* Settings *)

\* The table of the dictionary, then those it imports.
GetTables(s) == << s.name >> \o SelectSeq(s.import_tables, LAMBDA table : table # s.name)

\* Rows of a file without a header are not read.
RowsOf(d) ==
  FlattenSeq([ i \in DOMAIN GetTables(d.settings) |->
                 LET table == GetTables(d.settings)[i]
                 IN  IF table \in DOMAIN d.files THEN d.files[table] ELSE << >> ])

UsePresetVocabulary(s) == s.use_preset_vocabulary \/ s.vocabulary # ""

VocabularyName(s) == IF s.vocabulary # "" THEN s.vocabulary ELSE "essay"

Preset(d) ==
  IF UsePresetVocabulary(d.settings) /\ VocabularyName(d.settings) \in DOMAIN d.presets
    THEN d.presets[VocabularyName(d.settings)]
    ELSE << >>

UseRuleBasedEncoder(s) == s.rules # << >>

\* The letters at the end of the alphabet count from the end of a word.
Coordinate(letter) == IF letter >= 20 THEN letter - 26 ELSE letter

ParseFormula(formula) ==
  [ i \in 1..(Len(formula) \div 2) |->
      [ char_index |-> Coordinate(formula[2 * i - 1]), code_index |-> Coordinate(formula[2 * i]) ] ]

\* A rule with a bad formula or a bad range is left out.
EncodingRules(s) ==
  LET good == SelectSeq(s.rules, LAMBDA r : Len(r.formula) % 2 = 0 /\ r.min <= r.max)
  IN  [ i \in DOMAIN good |->
          [ min_word_length |-> good[i].min, max_word_length |-> good[i].max,
            coords |-> ParseFormula(good[i].formula) ] ]

SmallerOf(m, n) == IF m < n THEN m ELSE n

MaxPhraseLength(s) ==
  IF UseRuleBasedEncoder(s)
    THEN LET longest == FoldLeft(LAMBDA most, r : IF r.max > most THEN r.max ELSE most, 0,
                                 SelectSeq(s.rules, LAMBDA r : Len(r.formula) % 2 = 0 /\ r.min <= r.max))
         IN  SmallerOf(longest, kMaxPhraseLength)
    ELSE kMaxPhraseLength
-----------------------------------------------------------------------------
(* Words and their codes *)

LetterRank(letter) == CHOOSE i \in DOMAIN CodeLetters : CodeLetters[i] = letter

LettersPrecede(x, y) ==
  \E n \in 0..SmallerOf(Len(x), Len(y)) :
    /\ SubSeq(x, 1, n) = SubSeq(y, 1, n)
    /\ \/ n = Len(x) /\ n < Len(y)
       \/ n < Len(x) /\ n < Len(y) /\ LetterRank(x[n + 1]) < LetterRank(y[n + 1])

ValueAt(function, key, default) == IF key \in DOMAIN function THEN function[key] ELSE default

PresetWeight(text) ==
  FoldLeft(LAMBDA found, e : IF e.text = text /\ e.weight.kind = "number" THEN e.weight.n * 100 ELSE found,
           0, Preset(dictionary))

\* The weight that is given, or a share of what the vocabulary has for the text.
WeightForEntry(text, weight) ==
  CASE weight.kind = "none"    -> PresetWeight(text)
    [] weight.kind = "percent" -> (PresetWeight(text) * weight.n) \div 100
    [] weight.kind = "number"  -> weight.n * 100
    [] OTHER -> 0

\* Syllables are learnt, or checked against the syllabary of the dictionary that a
\* pack belongs to; a code that a word has already is not added again.
CreateEntry(c, text, code, weight) ==
  LET known == ValueAt(c.words, text, << >>)
      entry == [ text |-> text, code |-> code, weight |-> WeightForEntry(text, weight) ]
      learnt == [ c EXCEPT !.syllabary = @ \cup ToSet(code) ]
  IN  IF dictionary.fixed /\ ~(ToSet(code) \subseteq c.syllabary) THEN c
      ELSE IF Len(code) # 1 THEN [ learnt EXCEPT !.entries = Append(@, entry) ]
      ELSE IF \E i \in DOMAIN known : known[i].code = code[1] THEN learnt
      ELSE [ learnt EXCEPT
               !.entries = Append(@, entry),
               !.words = (text :> Append(known, [ code |-> code[1], weight |-> entry.weight ])) @@ @ ]

TotalWeight(weights) == FoldLeft(LAMBDA total, v : total + v.weight, 0, weights)

\* Codes of less than 5% of the weight are too rare.
IsFrequent(v, weights) == v.weight * 20 >= TotalWeight(weights)

SortedCodes(codes) == SetToSortSeq(codes, LettersPrecede)

\* The stems of a word take the place of its codes.
TranslateWord(c, text) ==
  IF text \in DOMAIN c.stems THEN SortedCodes(c.stems[text])
  ELSE LET weights == ValueAt(c.words, text, << >>)
       IN  SortedCodes({ v.code : v \in { w \in ToSet(weights) : IsFrequent(w, weights) } })
-----------------------------------------------------------------------------
(* TableEncoder.  Positions in words and codes count from 0, as in the source. *)

IsAnchor(code, k) == code[k + 1] \in settings.tail_anchor

Greatest(numbers) == CHOOSE n \in numbers : \A m \in numbers : m <= n
Least(numbers)    == CHOOSE n \in numbers : \A m \in numbers : n <= m

StepBack(code, k)  == Greatest({-1} \cup { j \in 0..(k - 1) : ~IsAnchor(code, j) })
StepAhead(code, k) == Least({Len(code)} \cup { j \in (k + 1)..(Len(code) - 1) : ~IsAnchor(code, j) })

Times(n) == [ i \in 1..n |-> i ]

\* Anchors do not count; the first one beyond `start' ends what is counted from
\* the end.
CalculateCodeIndex(code, index, start) ==
  LET tails == { j \in (start + 1)..(Len(code) - 1) : IsAnchor(code, j) }
      last  == IF tails = {} THEN Len(code) - 1 ELSE Least(tails) - 1
  IN  IF index < 0 THEN FoldLeft(LAMBDA k, i : StepBack(code, k), last, Times(-index - 1))
                   ELSE FoldLeft(LAMBDA k, i : StepAhead(code, k), 0, Times(index))

\* Mutant of IsTaken: the letter that was taken last may be taken once more.
IsTakenBefore(c, given, taken) ==
  /\ given.char_index < 0 \/ given.code_index < 0
  /\ c.char_index = taken.encoded.char_index
  /\ c.code_index < taken.encoded.code_index
  /\ given # taken.previous

\* A coordinate that counts from an end and finds no letter after the last one.
IsTaken(c, given, taken) ==
  /\ given.char_index < 0 \/ given.code_index < 0
  /\ c.char_index = taken.encoded.char_index
  /\ c.code_index <= taken.encoded.code_index
  /\ given # taken.previous

\* One coordinate of a rule, with the letters that those before it have taken.
TakeLetter(code, taken, given) ==
  LET n     == Len(code)
      char  == IF given.char_index < 0 THEN given.char_index + n ELSE given.char_index
      start == IF char = taken.encoded.char_index THEN taken.encoded.code_index + 1 ELSE 0
      c     == [ char_index |-> char,
                 code_index |-> CalculateCodeIndex(code[char + 1], given.code_index, start) ]
  IN  IF \/ char \notin 0..(n - 1)
         \/ given.char_index < 0 /\ char < taken.encoded.char_index
      THEN taken
      ELSE IF c.code_index \notin 0..(Len(code[char + 1]) - 1) \/ IsTaken(c, given, taken)
      THEN taken
      ELSE [ previous |-> given, encoded |-> c, letters |-> Append(taken.letters, c) ]

Origin == [ char_index |-> 0, code_index |-> 0 ]

LettersTaken(rule, code) ==
  FoldLeft(LAMBDA taken, given : TakeLetter(code, taken, given),
           [ previous |-> Origin, encoded |-> Origin, letters |-> << >> ], rule.coords).letters

AppliesTo(rule, code) == Len(code) \in rule.min_word_length..rule.max_word_length

\* What the first rule makes of the codes that makes anything of them.
EncodeByRules(code) ==
  LET rules  == SelectSeq(EncodingRules(settings),
                          LAMBDA r : AppliesTo(r, code) /\ LettersTaken(r, code) # << >>)
      taken == LettersTaken(rules[1], code)
  IN  IF rules = << >> THEN NoCode
      ELSE << [ i \in DOMAIN taken |-> code[taken[i].char_index + 1][taken[i].code_index + 1] ] >>
-----------------------------------------------------------------------------
(* The search for a way to encode a phrase *)

\* Mutant of PartLengths: only the longest part is tried.
LongestPart(c, phrase, start) ==
  LET found == SelectSeq([ i \in 1..(Len(phrase) - start) |-> Len(phrase) - start + 1 - i ],
                         LAMBDA k : TranslateWord(c, SubSeq(phrase, start + 1, start + k)) # << >>)
  IN  IF found = << >> THEN << >> ELSE << found[1] >>

PartLengths(c, phrase, start) ==
  IF UseRuleBasedEncoder(settings) THEN << 1 >>
  ELSE [ i \in 1..(Len(phrase) - start) |-> Len(phrase) - start + 1 - i ]

Translations(c, part) ==
  IF UseRuleBasedEncoder(settings)
    THEN SelectSeq(TranslateWord(c, part), LAMBDA x : x \notin settings.excluded)
    ELSE TranslateWord(c, part)

EncodedAs(code) == IF UseRuleBasedEncoder(settings) THEN EncodeByRules(code) ELSE code

\* The whole phrase has been split: so much less is there left of the limit.
Collected(search, phrase, weight) ==
  [ search EXCEPT
      !.limit = @ - 1,
      !.collector = IF EncodedAs(search.code) = NoCode THEN @
                    ELSE CreateEntry(@, phrase, EncodedAs(search.code), weight) ]

RECURSIVE DfsEncode(_, _, _, _)
DfsEncode(search, phrase, weight, start) ==
  IF start = Len(phrase) THEN Collected(search, phrase, weight)
  ELSE FoldLeft(
         LAMBDA s, k :
           FoldLeft(LAMBDA t, x :
                      IF t.limit <= 0 THEN t
                      ELSE [ DfsEncode([ t EXCEPT !.code = Append(@, x) ], phrase, weight, start + k)
                               EXCEPT !.code = t.code ],
                    s, Translations(s.collector, SubSeq(phrase, start + 1, start + k))),
         search, PartLengths(search.collector, phrase, start))

EncodePhrase(c, phrase, weight) ==
  IF Len(phrase) > MaxPhraseLength(settings) THEN c
  ELSE DfsEncode([ collector |-> c, code |-> << >>, limit |-> kEncoderDfsLimit ],
                 phrase, weight, 0).collector
-----------------------------------------------------------------------------
EncodingInit ==
  /\ dictionary \in Dictionaries
  /\ rows = RowsOf(dictionary)
  /\ collector = [ syllabary |-> dictionary.syllabary, entries |-> << >>, words |-> << >>,
                   stems |-> << >> ]
  /\ collection = {}
  /\ encode_queue = << >>
  /\ vocabulary = Preset(dictionary)
  /\ pass = "collect"

WithStem(c, row) ==
  IF row.stem = NoCode \/ row.code = NoCode THEN c
  ELSE [ c EXCEPT !.stems = (row.text :> (ValueAt(@, row.text, {}) \cup {row.stem})) @@ @ ]

\* Pass 1: a row of a table.
Collect ==
  /\ pass = "collect"
  /\ rows # << >>
  /\ LET row == Head(rows)
     IN  /\ collection' = collection \cup {row.text}
         /\ collector' = IF row.code = NoCode THEN collector
                         ELSE WithStem(CreateEntry(collector, row.text, row.code, row.weight), row)
         /\ encode_queue' = IF row.code = NoCode THEN Append(encode_queue, row) ELSE encode_queue
  /\ rows' = Tail(rows)
  /\ UNCHANGED << dictionary, vocabulary, pass >>

\* Pass 2: a row without a code.
EncodeQueued ==
  /\ pass = "encode"
  /\ encode_queue # << >>
  /\ collector' = EncodePhrase(collector, Head(encode_queue).text, Head(encode_queue).weight)
  /\ encode_queue' = Tail(encode_queue)
  /\ UNCHANGED << dictionary, rows, collection, vocabulary, pass >>

IsTooLong(e) == settings.max_phrase_length > 0 /\ Len(e.text) > settings.max_phrase_length
IsTooRare(e) == settings.min_phrase_weight > 0 /\ e.weight.n < settings.min_phrase_weight

\* A weight that is not a number ends more than the search for phrases.
Throws(e) == ~IsTooLong(e) /\ settings.min_phrase_weight > 0 /\ e.weight.kind = "bad"

IsQualifiedPhrase(e) == ~IsTooLong(e) /\ ~IsTooRare(e)

\* Pass 3: a phrase of the vocabulary that no row of the tables has.
EncodePreset ==
  /\ pass = "preset"
  /\ vocabulary # << >>
  /\ vocabulary' = Tail(vocabulary)
  /\ LET e == Head(vocabulary)
     IN  /\ pass' = IF Throws(e) THEN "thrown" ELSE pass
         /\ collector' = IF Throws(e) \/ ~IsQualifiedPhrase(e) \/ e.text \in collection THEN collector
                         ELSE EncodePhrase(collector, e.text, e.weight)
  /\ UNCHANGED << dictionary, rows, collection, encode_queue >>

\* At the end of Finish the words are forgotten.
NextPass ==
  /\ \/ pass = "collect" /\ rows = << >>         /\ pass' = "encode"
     \/ pass = "encode"  /\ encode_queue = << >> /\ pass' = "preset"
     \/ pass = "preset"  /\ vocabulary = << >>   /\ pass' = "done"
  /\ UNCHANGED << dictionary, rows, collector, collection, encode_queue, vocabulary >>

EncodingNext == Collect \/ EncodeQueued \/ EncodePreset \/ NextPass
-----------------------------------------------------------------------------
(* What a phrase may be read as *)

Splittings(phrase) ==
  LET Cuts == SUBSET (1..(Len(phrase) - 1))
      Ends(cuts) == SetToSortSeq(cuts \cup {Len(phrase)}, <)
  IN  { [ i \in DOMAIN Ends(cuts) |->
            SubSeq(phrase, (IF i = 1 THEN 0 ELSE Ends(cuts)[i - 1]) + 1, Ends(cuts)[i]) ] : cuts \in Cuts }

\* Every way to read the parts of a splitting, each as one of its frequent codes.
Readings(c, phrase) ==
  UNION { { << parts, code >> :
              code \in { x \in [ DOMAIN parts -> UNION { ToSet(TranslateWord(c, parts[i])) : i \in DOMAIN parts } ] :
                           \A i \in DOMAIN parts : x[i] \in ToSet(TranslateWord(c, parts[i])) } }
          : parts \in Splittings(phrase) }

NewEntries == SubSeq(collector'.entries, Len(collector.entries) + 1, Len(collector'.entries))

\* A phrase without a code gets all the codes, and only those, that its parts can
\* be read as, however it is split, unless there are more than the limit of the
\* search, and then as many as that: the limit is one of whole readings, and no
\* reading is lost to a part that cannot be read (ScriptEncoder::DfsEncode,
\* EntryCollector::TranslateWord).
EncodesEveryReading ==
  [][EncodeQueued /\ ~UseRuleBasedEncoder(settings) /\ ~dictionary.fixed
     => LET phrase   == Head(encode_queue).text
            readings == Readings(collector, phrase)
            codes    == { reading[2] : reading \in readings }
            known    == { << v.code >> : v \in ToSet(ValueAt(collector.words, phrase, << >>)) }
            given    == { NewEntries[i].code : i \in DOMAIN NewEntries }
        IN  /\ given \subseteq codes \ known
            /\ IF Cardinality(readings) <= kEncoderDfsLimit
                 THEN given = codes \ known
                 ELSE Len(NewEntries) >= kEncoderDfsLimit - Cardinality(known)]_encodingVars

CodesOfWords == UNION { { v.code : v \in ToSet(collector.words[w]) } : w \in DOMAIN collector.words }

IsAscending(rule) ==
  \A i, j \in DOMAIN rule.coords :
    i < j => LET x == rule.coords[i]
                 y == rule.coords[j]
                 Rank(k) == IF k < 0 THEN k + 26 ELSE k
             IN  \/ Rank(x.char_index) < Rank(y.char_index)
                 \/ x.char_index = y.char_index /\ Rank(x.code_index) < Rank(y.code_index)

\* A rule whose formula goes through a phrase from its first character to its last
\* takes letters in that order and none twice, whatever the lengths of the phrase
\* and of its codes are: coordinates from both ends may meet in a short word
\* (TableEncoder::Encode).
TakesLettersForward ==
  pass = "encode" =>
    \A r \in ToSet(EncodingRules(settings)) :
      IsAscending(r) =>
        \A n \in r.min_word_length..r.max_word_length :
          \A code \in [ 1..n -> CodesOfWords ] :
            LET taken == LettersTaken(r, code)
            IN  \A i \in 1..(Len(taken) - 1) :
                  \/ taken[i].char_index < taken[i + 1].char_index
                  \/ /\ taken[i].char_index = taken[i + 1].char_index
                     /\ taken[i].code_index < taken[i + 1].code_index
=============================================================================
