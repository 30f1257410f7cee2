------------------------------ MODULE Translations ------------------------------
(***************************************************************************)
(* The candidates that script_translator and table_translator find for the *)
(* input of a segment, one after the other (script_translator.cc,          *)
(* table_translator.cc, and the translations of translation.cc that they   *)
(* are wrapped in).                                                        *)
(*                                                                         *)
(* A dictionary has a prism, tables, a blacklist and the phrases of its    *)
(* user dictionary; a translation is a record of the kind that it is.      *)
(* Weights are low enough for exp(weight) to be less than any other part   *)
(* of a quality.                                                           *)
(***************************************************************************)
EXTENDS Sentences

CONSTANTS kInitialSearchLimit, kExpandingFactor,  \* of keys, for completion
          kMaxCorrections                         \* of candidates, but for the first

kUnlimitedDepth                 == 0
kNumSyllablesToPredictWord      == 4
kMaxSyllablesForUserPhraseQuery == 5
kNumExactMatchOnTop             == 1

NoTranslation == [ kind |-> "none" ]

\* exp(weight) and the other part of a quality, in twelfths; 0 is below any.
Quality(weight, twelfths) == twelfths * 100000 + weight
kNoQuality == -100000

CandidateOf(type, to, entry, quality) ==
  [ type |-> type, start |-> 0, end |-> to, text |-> entry.text, code |-> entry.code,
    quality |-> quality, exact |-> entry.exact, words |-> 1 ]

SentenceCandidate(line) ==
  [ type |-> "sentence", start |-> 0, end |-> Last(line.words).to, text |-> SentenceText(line),
    code |-> SentenceCode(line), quality |-> kNoQuality, exact |-> TRUE,
    words |-> Len(line.words) ]

Farthest(found) == Max({0} \cup DOMAIN found)

\* The next of the entries at one position is taken.
DropHead(found, to) ==
  IF Len(found[to]) = 1
  THEN [ x \in DOMAIN found \ {to} |-> found[x] ]
  ELSE [ found EXCEPT ![to] = Tail(@) ]
-----------------------------------------------------------------------------
(* ScriptTranslation *)

\* What is found from the start of the input on; words are predicted where
\* completion is on and the input is all read.
LookedUp(from, input, options, graph, predict) ==
  [ input   |-> input,
    options |-> options,
    graph   |-> graph,
    predict |-> predict,
    words   |-> LookupAll(from.tables, graph, 0, from.blacklist, predict),
    phrases |-> UserLookup(from.phrases, graph, 0,
                           [ depth   |-> kUnlimitedDepth,
                             predict |-> IF predict THEN kNumSyllablesToPredictWord ELSE 0 ]) ]

EvaluateOn(from, input, options, graph) ==
  LookedUp(from, input, options, graph,
        options.completion /\ graph.interpreted_length = Len(input))

Evaluate(from, input, options) ==
  EvaluateOn(from, input, options, BuildSyllableGraph(from.prism, input, options))

ByEnd(found) == [ to \in { x.to : x \in found } |-> UserEntries(found, to) ]

\* Whether the edges that spell a code, the longest first, have a correction.
RECURSIVE Syllabify(_, _, _, _)
Syllabify(graph, code, pos, target) ==
  IF code = << >>
  THEN [ success |-> pos = target, edges |-> << >> ]
  ELSE LET edges == SetToSortSeq({ e \in EdgesFrom(graph, pos) :
                                     e.syllable = Head(code) /\ e.to <= target }, LongestFirst)
           ways  == [ i \in DOMAIN edges |-> Syllabify(graph, Tail(code), edges[i].to, target) ]
           first == SelectInSeq(ways, LAMBDA way : way.success)
       IN IF first = 0
          THEN [ success |-> FALSE, edges |-> << >> ]
          ELSE [ success |-> TRUE, edges |-> << edges[first] >> \o ways[first].edges ]

IsCorrection(graph, code, to) ==
  \E e \in Range(Syllabify(graph, code, 0, to).edges) : e.correction

HasExactMatchPhrase(found, consumed) ==
  Farthest(found) = consumed /\ consumed # 0 /\ Head(found[consumed]).exact

IsReliable(graph, found) ==
  LET consumed == graph.interpreted_length
  IN /\ HasExactMatchPhrase(found, consumed)
     /\ ~IsCorrection(graph, Head(found[consumed]).code, consumed)

EntriesAt(found, to) == IF to \in DOMAIN found THEN found[to] ELSE << >>

\* Phrases before words, as many of each end as make homophones.
EnrollEntries(phrases, words, max_homophones) ==
  [ to \in DOMAIN phrases \cup DOMAIN words |->
      LET all == EntriesAt(phrases, to) \o EntriesAt(words, to)
      IN SubSeq(all, 1, Min({max_homophones, Len(all)})) ]

Enrolled(from, graph, start, max_homophones) ==
  EnrollEntries(ByEnd(UserLookup(from.phrases, graph, start,
                                 [ depth |-> kMaxSyllablesForUserPhraseQuery, predict |-> 0 ])),
                LookupAll(from.tables, graph, start, from.blacklist, FALSE),
                max_homophones)

ScriptSentence(from, graph, max_homophones) ==
  MakeSentence([ start \in { e.from : e \in graph.edges } |->
                   Enrolled(from, graph, start, max_homophones) ],
               graph.interpreted_length, "weight")

\* A sentence is made where nothing reliable has been found.
NeedsSentence(graph, user, words) ==
  /\ Cardinality({ e.from : e \in graph.edges }) >= 2
  /\ ~IsReliable(graph, words)
  /\ ~IsReliable(graph, user)

ScriptTranslationOf(from, options, found, user) ==
  [ kind |-> "script", graph |-> found.graph, full |-> Len(found.input),
    correction |-> options.correction, initial |-> options.initial,
    user |-> user, phrase |-> found.words,
    sentence |-> IF NeedsSentence(found.graph, user, found.words)
                 THEN ScriptSentence(from, found.graph, options.homophones) ELSE EmptyLine,
    index |-> 0, corrections |-> 0 ]

ScriptTranslation(from, options, found) ==
  ScriptTranslationOf(from, options, found, ByEnd(found.phrases))

\* Mutant of PreferUserPhrase: of equally long ones the user's always comes first.
PreferUserAlways(t) == Farthest(t.user) > 0 /\ Farthest(t.user) >= Farthest(t.phrase)

\* Of equally long ones the user's comes first, unless it is a correction and
\* weighs less, or would put a prediction before the first exact match.
PreferUserPhrase(t) ==
  LET here   == Farthest(t.user)
      there  == Farthest(t.phrase)
      ours   == Head(t.user[here])
  IN /\ here > 0
     /\ \/ here > there
        \/ /\ here = there
           /\ IF IsCorrection(t.graph, ours.code, there)
              THEN ours.weight >= Head(t.phrase[there]).weight
              ELSE \/ t.index >= kNumExactMatchOnTop
                   \/ HasExactMatchPhrase(t.user, t.full)
                   \/ ~HasExactMatchPhrase(t.phrase, t.full)

Source(t) ==
  IF t.sentence.words # << >> THEN "sentence"
  ELSE IF PreferUserPhrase(t) THEN "user_phrase"
  ELSE IF Farthest(t.phrase) > 0 THEN "phrase" ELSE "none"

Phrase(t, to, entry, type) ==
  CandidateOf(IF entry.exact THEN type ELSE "completion", to, entry,
              Quality(entry.weight, 12 * t.initial + (12 * entry.quality) \div t.full))

PhraseAt(t, found, to, type) == Phrase(t, to, Head(found[to]), type)

CandidateFrom(t, source) ==
  CASE source = "sentence"    -> SentenceCandidate(t.sentence)
    [] source = "user_phrase" -> PhraseAt(t, t.user, Farthest(t.user), "user_phrase")
    [] OTHER                  -> PhraseAt(t, t.phrase, Farthest(t.phrase), "phrase")

PeekScript(t) == CandidateFrom(t, Source(t))

TakeFrom(t, source) ==
  CASE source = "sentence"    -> [ t EXCEPT !.sentence = EmptyLine ]
    [] source = "user_phrase" -> [ t EXCEPT !.user = DropHead(@, Farthest(@)) ]
    [] OTHER                  -> [ t EXCEPT !.phrase = DropHead(@, Farthest(@)) ]

TakeScript(t) == TakeFrom(t, Source(t))

IsCorrectionOnTop(t, candidate) == IsCorrection(t.graph, candidate.code, candidate.end)

\* Corrections are passed over beyond their limit.
RECURSIVE PassCorrections(_)
PassCorrections(t) ==
  IF \/ ~t.correction
     \/ Source(t) = "none"
     \/ ~IsCorrectionOnTop(t, PeekScript(t))
  THEN t
  ELSE IF t.corrections < kMaxCorrections
  THEN [ t EXCEPT !.corrections = @ + 1 ]
  ELSE PassCorrections(TakeScript(t))

NextScript(t) == [ PassCorrections(TakeScript(t)) EXCEPT !.index = @ + 1 ]
-----------------------------------------------------------------------------
(* User dictionary by the letters of a code: its keys are the syllables of *)
(* a phrase, each with a space after it.                                   *)

Space == " "

KeyOf(code) == FlattenSeq([ i \in DOMAIN code |-> Append(code[i], Space) ])

KeyRank(c) == IF c = Space THEN 0 ELSE IF c \in Delimiters THEN 1 ELSE 1 + Rank(c)

KeyLess(k, l) == Precedes(k, l, LAMBDA c, d : KeyRank(c) < KeyRank(d))

IsExactKey(key, input) == Len(key) > Len(input) /\ key[Len(input) + 1] = Space

\* A phrase as an entry; what its code has beyond the input is to be completed.
WordEntry(phrase, input) ==
  [ text |-> phrase.text, code |-> phrase.code, weight |-> phrase.weight + 100, exact |-> TRUE,
    quality |-> 0, remaining |-> Max({0, Len(KeyOf(phrase.code)) - 1 - Len(input)}) ]

\* How many phrases are read from the first on: while they are exact when they
\* must be, and no more than a limit unless they are exact.
Reads(db, keys, input, predictive, limit) ==
  LET Exact(n) == IsExactKey(KeyOf(db[keys[n]].code), input)
      stops == { n \in DOMAIN keys : ~Exact(n) /\ (~predictive \/ (limit # 0 /\ n >= limit)) }
  IN IF stops = {} THEN Len(keys) ELSE Min(stops) - IF predictive THEN 0 ELSE 1

\* Looks phrases up, after the one where an earlier lookup ended, if not 0, and
\* tells where this one ends: at the last one read, or past all that match.
ReadWords(db, input, resume, all, keys, n) ==
  LET exact == SelectSeq(SubSeq(keys, 1, n), LAMBDA i : IsExactKey(KeyOf(db[i].code), input))
      Entries(seq) == [ i \in DOMAIN seq |-> WordEntry(db[seq[i]], input) ]
  IN [ count   |-> n,
       entries |-> SortSeq(Entries(exact), Heavier) \o Entries(SubSeq(keys, Len(exact) + 1, n)),
       resume  |-> IF all = {} \/ \A i \in all : i < resume THEN Len(db) + 1
                   ELSE IF n = Len(keys) THEN Min({Max(all) + 1, Len(db)})
                   ELSE IF n = 0 THEN resume ELSE keys[n] ]

UserLookupWords(db, input, predictive, limit, resume) ==
  LET all  == { i \in DOMAIN db : IsPrefix(input, KeyOf(db[i].code)) }
      keys == SetToSortSeq({ i \in all : i > resume }, IntLess)
  IN ReadWords(db, input, resume, all, keys, Reads(db, keys, input, predictive, limit))

\* No key of more of the input is to be found from where a lookup has ended.
IsPast(db, resume, active_key) ==
  \/ resume > Len(db)
  \/ /\ resume > 0
     /\ KeyLess(active_key, KeyOf(db[resume].code))
     /\ ~IsPrefix(active_key, KeyOf(db[resume].code))
-----------------------------------------------------------------------------
(* TableTranslation, and LazyTableTranslation, which searches for a limited *)
(* number of keys and for more of them when it has no more entries.         *)

NoEntries == IteratorOver(<< >>, << >>, 0)

\* Mutant of WithMoreEntries: as many keys as the limit are taken for all.
WithLastEntries(t, more) ==
  [ t EXCEPT !.limit = IF more.keys <= @ THEN 0 ELSE @ * kExpandingFactor,
             !.iter  = IF more.iter.count <= @.count THEN @ ELSE SkipEntries(more.iter, @.count) ]

\* What has been there before is skipped.
WithMoreEntries(t, more) ==
  [ t EXCEPT !.limit = IF more.keys < @ THEN 0 ELSE @ * kExpandingFactor,
             !.iter  = IF more.iter.count <= @.count THEN @ ELSE SkipEntries(more.iter, @.count) ]

FetchMoreTableEntries(t) ==
  IF t.limit = 0
  THEN t
  ELSE WithMoreEntries(t, LookupWords(t.from.prism, t.from.tables, t.input, TRUE, t.limit,
                                      t.from.blacklist))

WithMorePhrases(t, more) ==
  [ t EXCEPT !.uter = @ \o more.entries, !.resume = more.resume,
             !.user_limit = IF more.count < @ THEN 0 ELSE @ * kExpandingFactor ]

FetchMoreUserPhrases(t) ==
  IF t.user_limit = 0
  THEN t
  ELSE WithMorePhrases(t, UserLookupWords(UserDbOf(t.from.phrases), t.input, TRUE, t.user_limit, t.resume))

ExactUserPhrases(from, code) == UserLookupWords(UserDbOf(from.phrases), code, FALSE, 0, 0)

NewTableTranslation(from, code, to, options, exact, limit) ==
  [ kind |-> "table", from |-> from, input |-> code, full |-> to, initial |-> options.initial,
    iter |-> NoEntries, uter |-> exact.entries, resume |-> exact.resume,
    limit |-> limit, user_limit |-> limit ]

\* The first search, for exact phrases, and for others if there are none.
Searched(t) == FetchMoreTableEntries(IF t.uter # << >> THEN t ELSE FetchMoreUserPhrases(t))

LazyTableTranslation(from, code, to, options) ==
  Searched(NewTableTranslation(from, code, to, options, ExactUserPhrases(from, code),
                               kInitialSearchLimit))

TableTranslation(from, code, to, options) ==
  [ NewTableTranslation(from, code, to, options, ExactUserPhrases(from, code), 0)
    EXCEPT !.iter = LookupWords(from.prism, from.tables, code, FALSE, 0, from.blacklist).iter ]

PreferUserWord(t) ==
  /\ t.uter # << >>
  /\ \/ t.iter.chunks = << >>
     \/ PeekIterator(t.iter).remaining # 0
     \/ Head(t.uter).remaining = 0

PeekTable(t) ==
  LET entry == IF PreferUserWord(t) THEN Head(t.uter) ELSE PeekIterator(t.iter)
      type  == IF entry.remaining # 0 THEN "completion"
               ELSE IF PreferUserWord(t) THEN "user_table" ELSE "table"
  IN CandidateOf(type, t.full, entry,
                 Quality(entry.weight, 12 * t.initial - (IF entry.remaining # 0 THEN 12 ELSE 0)
                                         + IF PreferUserWord(t) THEN 6 ELSE 0))

RefillPhrases(t) == IF t.uter = << >> THEN FetchMoreUserPhrases(t) ELSE t
RefillEntries(t) == IF t.iter.chunks = << >> THEN FetchMoreTableEntries(t) ELSE t

NextTable(t) ==
  IF PreferUserWord(t)
  THEN RefillPhrases([ t EXCEPT !.uter = Tail(@) ])
  ELSE RefillEntries([ t EXCEPT !.iter = NextEntry(@, t.from.blacklist) ])
-----------------------------------------------------------------------------
(* SentenceTranslation: a sentence of the words of a table, then the words *)
(* that the input begins with, the longest first.                          *)

\* The user's words from a position, by the length of input that they consume;
\* the search ends early when the keys are past all that may follow.
UserWordsFrom(from, input, start) ==
  LET db     == UserDbOf(from.phrases)
      active == SubSeq(input, start + 1, Len(input))
      Add(state, to, words) ==
        [ found |-> IF words.entries = << >> THEN state.found
                    ELSE state.found @@ (to :> words.entries),
          past  |-> IsPast(db, words.resume, Append(active, Space)) ]
      Try(state, len) ==
        LET to == EndPos(input, start + len)
        IN IF state.past \/ to \in DOMAIN state.found
           THEN state
           ELSE Add(state, to, UserLookupWords(db, SubSeq(active, 1, len), FALSE, 0, 0))
  IN FoldLeft(Try, [ found |-> << >>, past |-> FALSE ], Positions(Len(active))).found

\* The words of the tables from a position, where the user has none.
WordsOfKey(from, key) ==
  SelectSeq(Iterated(LookupWords(from.prism, from.tables, key, FALSE, 0, from.blacklist).iter.chunks),
            LAMBDA entry : Unless(from.blacklist, entry))

TableWordsFrom(from, input, start, unless) ==
  LET active == SubSeq(input, start + 1, Len(input))
      found  == { x \in { [ to |-> EndPos(input, start + Len(k)), words |-> WordsOfKey(from, k) ] :
                           k \in CommonPrefixSearch(from.prism, active) } :
                    x.to \notin unless /\ x.words # << >> }
  IN [ to \in { x.to : x \in found } |-> (CHOOSE x \in found : x.to = to).words ]

WithTableWords(from, input, start, user) ==
  [ user |-> user, table |-> TableWordsFrom(from, input, start, DOMAIN user) ]

WordsFrom(from, input, start) ==
  WithTableWords(from, input, start, UserWordsFrom(from, input, start))

IsReached(reached, pos) ==
  \/ pos = 0
  \/ \E p \in DOMAIN reached : pos \in DOMAIN reached[p].user \cup DOMAIN reached[p].table

\* The words of the positions that are reached from the start.
ReachedWords(from, input) ==
  FoldLeft(LAMBDA reached, pos : IF IsReached(reached, pos)
                                 THEN reached @@ (pos :> WordsFrom(from, input, pos)) ELSE reached,
           << >>, [ i \in 1..Len(input) |-> i - 1 ])

\* One word for each way; the words that the input begins with are kept unless
\* they are on offer already.
SentenceBefore(sentence, words, include_prefix_phrases) ==
  IF sentence.words = << >>
  THEN NoTranslation
  ELSE [ kind |-> "sentence", sentence |-> sentence,
         user  |-> IF include_prefix_phrases THEN words.user ELSE << >>,
         table |-> IF include_prefix_phrases THEN words.table ELSE << >> ]

SentenceOf(input, reached, include_prefix_phrases) ==
  LET Heads(found) == [ to \in DOMAIN found |-> << Head(found[to]) >> ]
  IN SentenceBefore(MakeSentence([ pos \in DOMAIN reached |->
                                     Heads(reached[pos].user) @@ Heads(reached[pos].table) ],
                                 Len(input), "left associate"),
                    reached[0], include_prefix_phrases)

SentenceTranslation(from, input, include_prefix_phrases) ==
  SentenceOf(input, ReachedWords(from, input), include_prefix_phrases)

PrefersUserWord(t) == Farthest(t.user) > 0 /\ Farthest(t.user) >= Farthest(t.table)

PeekSentence(t) ==
  LET Of(found, type) ==
        CandidateOf(type, Farthest(found), Head(found[Farthest(found)]), kNoQuality)
  IN IF t.sentence.words # << >> THEN SentenceCandidate(t.sentence)
     ELSE IF PrefersUserWord(t) THEN Of(t.user, "user_table") ELSE Of(t.table, "table")

NextSentence(t) ==
  IF t.sentence.words # << >> THEN [ t EXCEPT !.sentence = EmptyLine ]
  ELSE IF PrefersUserWord(t) THEN [ t EXCEPT !.user = DropHead(@, Farthest(@)) ]
  ELSE [ t EXCEPT !.table = DropHead(@, Farthest(@)) ]
-----------------------------------------------------------------------------
(* Translations in general; a union has one after the other, and a distinct *)
(* one passes over the texts that it has had.                               *)

Exhausted(t) ==
  CASE t.kind = "none"     -> TRUE
    [] t.kind = "script"   -> DOMAIN t.user = {} /\ DOMAIN t.phrase = {}
    [] t.kind = "table"    -> t.iter.chunks = << >> /\ t.uter = << >>
    [] t.kind = "sentence" -> /\ t.sentence.words = << >>
                              /\ DOMAIN t.user = {} /\ DOMAIN t.table = {}
    [] t.kind = "union"    -> t.parts = << >>
    [] t.kind = "distinct" -> t.exhausted

UnionOf(parts) == [ kind |-> "union", parts |-> SelectSeq(parts, LAMBDA t : ~Exhausted(t)) ]

RECURSIVE Peek(_)
Peek(t) ==
  CASE t.kind = "script"   -> PeekScript(t)
    [] t.kind = "table"    -> PeekTable(t)
    [] t.kind = "sentence" -> PeekSentence(t)
    [] t.kind = "union"    -> Peek(Head(t.parts))
    [] t.kind = "distinct" -> Peek(t.inner)

RECURSIVE NextOf(_)
RECURSIVE NextDistinct(_, _)
NextOf(t) ==
  CASE t.kind = "script"   -> NextScript(t)
    [] t.kind = "table"    -> NextTable(t)
    [] t.kind = "sentence" -> NextSentence(t)
    [] t.kind = "union"    -> UnionOf(<< NextOf(Head(t.parts)) >> \o Tail(t.parts))
    [] t.kind = "distinct" -> NextDistinct(NextOf(t.inner), t.known \cup {Peek(t.inner).text})

NextDistinct(inner, known) ==
  IF Exhausted(inner) \/ Peek(inner).text \notin known
  THEN [ kind |-> "distinct", inner |-> inner, known |-> known, exhausted |-> Exhausted(inner) ]
  ELSE NextDistinct(NextOf(inner), known)

Distinct(t) == [ kind |-> "distinct", inner |-> t, known |-> {}, exhausted |-> Exhausted(t) ]
-----------------------------------------------------------------------------
(* What a translator answers for a segment; an answer is not exhausted.    *)

Trimmed(input) ==
  SubSeq(input, 1, Max({0} \cup { i \in DOMAIN input : input[i] \notin Delimiters }))

Answer(t) == IF Exhausted(t) THEN NoTranslation ELSE Distinct(t)

QueryScript(from, input, options) ==
  Answer(ScriptTranslation(from, options, Evaluate(from, input, options)))

StartsWithCompletion(t) == ~Exhausted(t) /\ Peek(t).type = "completion"

TableOf(from, input, options) ==
  IF options.completion
  THEN LazyTableTranslation(from, Trimmed(input), Len(input), options)
  ELSE TableTranslation(from, Trimmed(input), Len(input), options)

\* A sentence instead of nothing, or ahead of words to be completed.
WithSentence(from, input, options, t) ==
  IF options.sentence /\ Exhausted(t) THEN SentenceTranslation(from, input, TRUE)
  ELSE IF options.over_completion /\ StartsWithCompletion(t)
  THEN UnionOf(<< SentenceTranslation(from, input, FALSE), t >>)
  ELSE t

QueryTable(from, input, options) ==
  Answer(WithSentence(from, input, options, TableOf(from, input, options)))

QueryOf(from, input, options) ==
  IF options.translator = "script" THEN QueryScript(from, input, options)
  ELSE QueryTable(from, input, options)
=============================================================================
