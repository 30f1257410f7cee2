-------------------------------- MODULE Filters --------------------------------
(***************************************************************************)
(* The filters between the translations of a segment and its menu          *)
(* (engine.cc, TranslateSegments): Simplifier (simplifier.cc),             *)
(* CharsetFilter, SingleCharFilter, ReverseLookupFilter, Uniquifier.  Each *)
(* makes a translation of the one before it, which draws candidates when   *)
(* it is made, when they are looked at, or when they are passed.  The      *)
(* reverse lookup database is made of a dictionary                         *)
(* (reverse_lookup_dictionary.cc).                                         *)
(*                                                                         *)
(* A text is a sequence of characters, a comment a sequence of what it has *)
(* been made of: texts and codes, which are sequences of syllables.  A     *)
(* chain is the state of all of them: the translations, the menu, which    *)
(* the Uniquifier changes, and the comments of phrases, which the          *)
(* ReverseLookupFilter changes.                                            *)
(***************************************************************************)
EXTENDS Integers, SequencesExt, FiniteSetsExt, TLC

CONSTANTS
  FilterLists,     \* engine/filters, and enable_charset_filter of the translator
  FilterSources,   \* what the translators answer, one candidate after the other
  FilterOptions,   \* sets of options that are on
  SegmentTags,     \* sets of tags of a segment
  ExtendedCjk,     \* the characters that CharsetFilter rejects
  RevSyllabary,    \* the syllables in order and the words of the dictionary for
  RevVocabulary    \* reverse lookup

VARIABLES
  filters, enable_charset_filter,
  source,
  switched_on,     \* options that are on
  dice,            \* what rand() answers, always the same here
  chain

filterVars == << filters, enable_charset_filter, source, switched_on, dice, chain >>

NoCandidate == [ kind |-> "none" ]
NoComment   == << >>

\* Phrases of translators have a comment that can be set.
PhraseTypes == {"table", "user_table", "phrase", "sentence"}
IsPhrase(c) == c.kind = "simple" /\ c.type \in PhraseTypes

RECURSIVE TextOf(_)
TextOf(c) ==
  CASE c.kind = "simple"     -> c.text
    [] c.kind = "shadow"     -> IF c.text = << >> THEN TextOf(c.item) ELSE c.text
    [] c.kind = "uniquified" -> TextOf(Head(c.items))

RECURSIVE CommentOf(_, _)
CommentOf(comments, c) ==
  CASE c.kind = "simple"     -> comments[c.id]
    [] c.kind = "shadow"     -> IF c.inherit /\ c.comment = NoComment
                                THEN CommentOf(comments, c.item) ELSE c.comment
    [] c.kind = "uniquified" -> CommentOf(comments, Head(c.items))

UnpackShadowCandidate(c) == IF c.kind = "shadow" THEN c.item ELSE c

GetGenuineCandidate(c) ==
  UnpackShadowCandidate(IF c.kind = "uniquified" THEN Head(c.items) ELSE c)
-----------------------------------------------------------------------------
(* Opencc.  A dictionary has for a text its forms, the default one first.  *)

MatchPrefix(dict, text) == { n \in 1..Len(text) : SubSeq(text, 1, n) \in DOMAIN dict }

Behind(text, n) == SubSeq(text, n + 1, Len(text))

\* The text piece by piece, longest match first; the default form, or another one.
RECURSIVE ConvertPieces(_, _, _)
ConvertPieces(dict, text, random) ==
  IF text = << >> THEN << >>
  ELSE LET n     == Max({1} \cup MatchPrefix(dict, text))
           piece == SubSeq(text, 1, n)
       IN (IF piece \in DOMAIN dict THEN dict[piece][1 + (random % Len(dict[piece]))] ELSE piece)
            \o ConvertPieces(dict, Behind(text, n), random)

Default == 0

AddWord(words, word) == IF word \in Range(words) THEN words ELSE Append(words, word)

ConvertedWords(dict, words) ==
  FoldLeft(LAMBDA found, word :
             IF word \in DOMAIN dict
             THEN FoldLeft(AddWord, found, dict[word])
             ELSE AddWord(found, ConvertPieces(dict, word, Default)),
           << >>, words)

NextWords(found, dict) ==
  [ words   |-> ConvertedWords(dict, found.words),
    matched |-> found.matched \/ \E word \in Range(found.words) : word \in DOMAIN dict ]

\* No forms when no dictionary has the word.
ConvertWord(opencc, text) ==
  LET found == FoldLeft(NextWords, [ words |-> << text >>, matched |-> FALSE ], opencc)
  IN IF found.matched THEN found.words ELSE << >>

RandomConvertText(opencc, text) ==
  FoldLeft(LAMBDA t, dict : ConvertPieces(dict, t, dice), text, opencc)

RECURSIVE Segments(_, _)
Segments(dict, text) ==
  IF text = << >> THEN << >>
  ELSE LET n == Max({1} \cup MatchPrefix(dict, text))
       IN << SubSeq(text, 1, n) >> \o Segments(dict, Behind(text, n))

\* opencc::Converter: segments by the first dictionary, each converted by all.
ConvertText(opencc, text) ==
  FlattenSeq([ i \in DOMAIN Segments(Head(opencc), text) |->
                 FoldLeft(LAMBDA t, dict : ConvertPieces(dict, t, Default),
                          Segments(Head(opencc), text)[i], opencc) ])
-----------------------------------------------------------------------------
(* Simplifier.  No candidates: the original is not converted.              *)

ShowsTips(f, c) == f.tips = "all" \/ (f.tips = "char" /\ Len(TextOf(c)) = 1)

Simplified(f, c, form) ==
  [ kind    |-> "shadow", type |-> "simplified", item |-> c, inherit |-> f.inherit_comment,
    text    |-> IF f.show_in_comment THEN TextOf(c) ELSE form,
    comment |-> CASE ~ShowsTips(f, c)   -> NoComment
                  [] f.show_in_comment  -> << form >>
                  [] OTHER              -> << TextOf(c) >> ]

ShadowsOf(f, c, forms) ==
  [ i \in DOMAIN forms |-> IF forms[i] = TextOf(c) THEN c ELSE Simplified(f, c, forms[i]) ]

FormsOf(f, c) ==
  LET forms == IF f.random THEN << >> ELSE ConvertWord(f.opencc, TextOf(c))
      text  == IF f.random THEN RandomConvertText(f.opencc, TextOf(c))
                           ELSE ConvertText(f.opencc, TextOf(c))
  IN IF forms # << >> THEN forms ELSE SelectSeq(<< text >>, LAMBDA t : t # TextOf(c))

\* A file that cannot be read has no dictionaries.
Convert(f, c) ==
  IF c.type \in f.excluded_types \/ f.opencc = << >>
  THEN << >> ELSE ShadowsOf(f, c, FormsOf(f, c))
-----------------------------------------------------------------------------
(* ReverseDb: the codes of a text, from the words of one syllable.         *)

ReverseLookup(text) ==
  SelectSeq(RevSyllabary, LAMBDA y : \E e \in RevVocabulary : e.text = text /\ e.code = << y >>)

\* ReverseLookupFilter::Process
Process(f, comments, c) ==
  LET phrase  == GetGenuineCandidate(c)
      comment == CommentOf(comments, c)
      codes   == IF IsPhrase(phrase) THEN ReverseLookup(phrase.text) ELSE << >>
  IN IF \/ comment # NoComment /\ ~f.overwrite_comment /\ ~f.append_comment
        \/ codes = << >>
     THEN comments
     ELSE [ comments EXCEPT ![phrase.id] =
              IF f.overwrite_comment \/ comment = NoComment
              THEN << codes >> ELSE Append(comment, codes) ]
-----------------------------------------------------------------------------
(* A translation, which is also the state of the filter that has made it.  *)

Translation(f, exhausted) == [ filter |-> f, exhausted |-> exhausted, cache |-> << >> ]

TopOf(s) == Len(s.stages)

IsExhausted(s, i) == s.stages[i].exhausted

SetCache(s, i, candidates) == [ s EXCEPT !.stages[i].cache = candidates ]
SetExhausted(s, i, yes)    == [ s EXCEPT !.stages[i].exhausted = yes ]

IsCaching(s, i)    == s.stages[i].filter.gear \in {"reverse_lookup_filter", "uniquifier"}
IsPrefetching(s, i) == s.stages[i].filter.gear \in {"simplifier", "single_char_filter"}

Drawn(s, c) == [ chain |-> s, candidate |-> c ]

IsAccepted(c) == \A i \in DOMAIN TextOf(c) : TextOf(c)[i] \notin ExtendedCjk

\* A call of Peek or of Next of the translation at i.
RECURSIVE Call(_, _, _), LocateNextCandidate(_, _), MergeDuplicates(_, _)
PeekAt(s, i) == Call("Peek", s, i)
PassAt(s, i) == Call("Next", s, i)

CachedPeek(s, i, drawn) ==
  LET c == drawn.candidate
      t == SetCache(drawn.chain, i, << c >>)
      f == s.stages[i].filter
  IN Drawn(IF f.gear = "reverse_lookup_filter"
           THEN [ t EXCEPT !.comments = Process(f, @, c) ] ELSE t, c)

\* SimplifiedTranslation::Replenish passes the candidate on.
Replenished(s, i, forms) ==
  Drawn(SetCache(PassAt(s, i - 1), i, forms), Head(forms))

FormsOrItself(f, c) == IF Convert(f, c) = << >> THEN << c >> ELSE Convert(f, c)

Peeking(s, i, drawn) ==
  CASE IsCaching(s, i) -> CachedPeek(s, i, drawn)
    [] s.stages[i].filter.gear = "simplifier" /\ s.stages[i].cache = << >> ->
         Replenished(drawn.chain, i, FormsOrItself(s.stages[i].filter, drawn.candidate))
    [] OTHER -> drawn

Peeked(s, i) ==
  Peeking(s, i, IF s.stages[i].cache = << >> THEN PeekAt(s, i - 1)
                                             ELSE Drawn(s, Head(s.stages[i].cache)))

\* A translation is exhausted when the one before is, which has been passed.
Followed(s, i) == SetExhausted(s, i, IsExhausted(s, i - 1) /\ s.stages[i].cache = << >>)

\* What a filter passes over at once.
PassedOver(s, i) ==
  CASE s.stages[i].filter.gear = "charset_filter" -> LocateNextCandidate(s, i)
    [] s.stages[i].filter.gear = "uniquifier"     -> MergeDuplicates(s, i)
    [] OTHER                                      -> s

Passed(s, i) ==
  LET stage == s.stages[i]
      rest  == SetCache(s, i, Tail(stage.cache))
  IN CASE stage.filter.gear = "source" -> SetExhausted(rest, i, Len(stage.cache) = 1)
       [] IsPrefetching(s, i) /\ stage.cache # << >> ->
            SetExhausted(rest, i, Len(stage.cache) = 1 /\ IsExhausted(s, i - 1))
       [] OTHER -> PassedOver(Followed(PassAt(SetCache(s, i, << >>), i - 1), i), i)

Call(method, s, i) ==
  CASE IsExhausted(s, i) -> IF method = "Peek" THEN Drawn(s, NoCandidate) ELSE s
    [] ~IsExhausted(s, i) /\ method = "Peek" -> Peeked(s, i)
    [] ~IsExhausted(s, i) /\ method = "Next" -> Passed(s, i)

\* CharsetFilterTranslation
Located(s, i, drawn) ==
  IF IsAccepted(drawn.candidate) THEN drawn.chain
  ELSE LocateNextCandidate(PassAt(drawn.chain, i - 1), i)

LocateNextCandidate(s, i) ==
  IF IsExhausted(s, i - 1) THEN SetExhausted(s, i, TRUE) ELSE Located(s, i, PeekAt(s, i - 1))

\* UniquifiedTranslation: what is on the menu already takes the candidate along.
WithItem(previous, c) ==
  IF previous.kind = "uniquified"
  THEN [ previous EXCEPT !.items = Append(@, c) ]
  ELSE [ kind |-> "uniquified", type |-> "uniquified", items |-> << previous, c >> ]

Merging(s, i, drawn) ==
  LET c == drawn.candidate
      k == SelectInSeq(s.candidates, LAMBDA d : TextOf(d) = TextOf(c))
      t == [ SetCache(drawn.chain, i, << >>) EXCEPT !.candidates[k] = WithItem(@, c) ]
  IN IF k = 0 THEN drawn.chain
     ELSE MergeDuplicates(Followed(PassAt(t, i - 1), i), i)

\* Mutant of MergeDuplicates: it looks at one candidate only.
MergeOne(s, i) ==
  IF IsExhausted(s, i) THEN s
  ELSE LET drawn == PeekAt(s, i)
           c     == drawn.candidate
           k     == SelectInSeq(s.candidates, LAMBDA d : TextOf(d) = TextOf(c))
           t     == [ SetCache(drawn.chain, i, << >>) EXCEPT !.candidates[k] = WithItem(@, c) ]
       IN IF k = 0 THEN drawn.chain ELSE Followed(PassAt(t, i - 1), i)

MergeDuplicates(s, i) == IF IsExhausted(s, i) THEN s ELSE Merging(s, i, PeekAt(s, i))

\* SingleCharFirstTranslation::Rearrange
IsTableWord(c) ==
  /\ IsPhrase(GetGenuineCandidate(c))
  /\ GetGenuineCandidate(c).type \in {"table", "user_table"}

RECURSIVE Rearranged(_, _, _, _), Rearranging(_, _, _, _, _)
Rearranging(s, i, top, bottom, drawn) ==
  LET c == drawn.candidate
      IsSingle == Len(TextOf(c)) = 1
  IN IF ~IsTableWord(c) THEN SetCache(drawn.chain, i, top \o bottom)
     ELSE Rearranged(PassAt(drawn.chain, i - 1), i, IF IsSingle THEN Append(top, c) ELSE top,
                     IF IsSingle THEN bottom ELSE Append(bottom, c))

Rearranged(s, i, top, bottom) ==
  IF IsExhausted(s, i - 1) THEN SetCache(s, i, top \o bottom)
  ELSE Rearranging(s, i, top, bottom, PeekAt(s, i - 1))
-----------------------------------------------------------------------------
(* Menu::AddFilter and Menu::Prepare.                                      *)

WithStage(s, f) ==
  [ s EXCEPT !.stages = Append(@, Translation(f, IsExhausted(s, TopOf(s)))) ]

\* Filter::Apply of the filters that are not off.
Made(s, f) ==
  LET t == WithStage(s, f)
      i == TopOf(t)
  IN IF f.gear = "single_char_filter" /\ ~IsExhausted(t, i)
     THEN Rearranged(t, i, << >>, << >>) ELSE PassedOver(t, i)

TagsMatch(f, tags) == f.tags = {} \/ f.tags \cap tags # {}

SimplifierApplies(f, on, tags)    == TagsMatch(f, tags) /\ f.option_name \in on
FiltersCharset(on)                == "extended_charset" \notin on
\* The basic filter refuses a parameter: it only filters without a name space, and a
\* ticket of the engine gives it "filter" unless its prescription ends with an "@".
CharsetFilterApplies(f, on, tags) == TagsMatch(f, tags) /\ f.name_space = "" /\ FiltersCharset(on)
ReverseLookupApplies(f, tags)     == TagsMatch(f, tags) /\ f.has_dictionary

IsApplied(f, on, tags) ==
  CASE f.gear = "simplifier"            -> SimplifierApplies(f, on, tags)
    [] f.gear = "charset_filter"        -> CharsetFilterApplies(f, on, tags)
    [] f.gear = "reverse_lookup_filter" -> ReverseLookupApplies(f, tags)
    [] OTHER                            -> TRUE

SourceOf(candidates) ==
  [ stages     |-> << [ Translation([ gear |-> "source" ], candidates = << >>)
                          EXCEPT !.cache = candidates ] >>,
    candidates |-> << >>,
    comments   |-> [ i \in DOMAIN candidates |-> candidates[i].comment ] ]

AddFilters(candidates, list) == FoldLeft(Made, SourceOf(candidates), list)

\* A table translator that has enable_charset_filter wraps its own translation.
OfTranslator(on) ==
  IF enable_charset_filter /\ FiltersCharset(on)
  THEN << [ gear |-> "charset_filter" ] >> ELSE << >>

TakeDrawn(drawn) ==
  PassAt([ drawn.chain EXCEPT !.candidates = Append(@, drawn.candidate) ], TopOf(drawn.chain))

RECURSIVE PrepareChain(_, _)
PrepareChain(s, requested) ==
  IF Len(s.candidates) >= requested \/ IsExhausted(s, TopOf(s))
  THEN s
  ELSE PrepareChain(TakeDrawn(PeekAt(s, TopOf(s))), requested)

\* A segment is translated, with its tags, under the options of the context; one
\* segment is enough, as the filters keep nothing from it.
TranslateSegment(candidates, tags, on) ==
  /\ source = << >>
  /\ source' = candidates
  /\ switched_on' = on
  /\ chain' = AddFilters(candidates, OfTranslator(on) \o
                                     SelectSeq(filters, LAMBDA f : IsApplied(f, on, tags)))
  /\ UNCHANGED << filters, enable_charset_filter, dice >>

GetCandidateAt(index) ==
  /\ ~IsExhausted(chain, TopOf(chain))
  /\ chain' = PrepareChain(chain, index + 1)
  /\ UNCHANGED << filters, enable_charset_filter, source, switched_on, dice >>

FiltersInit ==
  /\ \E list \in FilterLists : /\ filters = list.filters
                              /\ enable_charset_filter = list.enable_charset_filter
  /\ source = << >> /\ switched_on = {}
  /\ dice \in 0..1
  /\ chain = SourceOf(<< >>)

FiltersNext ==
  \/ \E candidates \in FilterSources, tags \in SegmentTags, on \in FilterOptions :
       TranslateSegment(candidates, tags, on)
  \/ \E index \in {0, 2, 9} : GetCandidateAt(index)
-----------------------------------------------------------------------------
(* What the chain stands for: the filters, each on the whole list.         *)

TableRun(list) ==
  Max({ n \in 0..Len(list) : \A i \in 1..n : IsTableWord(list[i]) })

SingleFirst(list) ==
  LET run == SubSeq(list, 1, TableRun(list))
  IN SelectSeq(run, LAMBDA c : Len(TextOf(c)) = 1)
       \o SelectSeq(run, LAMBDA c : Len(TextOf(c)) # 1) \o Behind(list, TableRun(list))

ConvertedList(f, list) == FlattenSeq([ i \in DOMAIN list |-> FormsOrItself(f, list[i]) ])

OnWholeList(list, f) ==
  CASE f.gear = "simplifier"         -> ConvertedList(f, list)
    [] f.gear = "charset_filter"     -> SelectSeq(list, IsAccepted)
    [] f.gear = "single_char_filter" -> SingleFirst(list)
    [] OTHER                         -> list

GearAt(i) == chain.stages[i].filter.gear

StagesOf(gears) == { i \in DOMAIN chain.stages : GearAt(i) \in gears }

Expected ==
  FoldLeft(OnWholeList, source, [ i \in 1..(TopOf(chain) - 1) |-> chain.stages[i + 1].filter ])

TextsIn(list) == [ i \in DOMAIN list |-> TextOf(list[i]) ]

ItemsOf(c) == IF c.kind = "uniquified" THEN c.items ELSE << c >>

\* No filter behind the Uniquifier draws a candidate before the last one is listed.
SeesTheMenu == \A i \in StagesOf({"uniquifier"}), j \in StagesOf({"simplifier", "single_char_filter"}) : j < i

\* What is on the menu is what the filters make of the whole list of candidates, one
\* filter after the other, however they draw them: every form once and in order, what
\* has the same text together, and nothing is passed over between a Peek and a Next
\* (translation.cc:209-240, simplifier.cc:207-214, uniquifier.cc:43-62).
ListsFiltered ==
  \A list \in {Expected} :
    LET texts  == IF StagesOf({"uniquifier"}) = {} THEN TextsIn(list)
                  ELSE FoldLeft(AddWord, << >>, TextsIn(list))
        menu_  == TextsIn(chain.candidates)
        all    == IsExhausted(chain, TopOf(chain))
    IN /\ SeesTheMenu => IsPrefix(menu_, texts)
       /\ SeesTheMenu /\ all => /\ menu_ = texts
                                /\ Len(FlattenSeq([ i \in DOMAIN chain.candidates |->
                                                       ItemsOf(chain.candidates[i]) ])) = Len(list)
       /\ all => Range(menu_) = Range(texts)

\* The candidate that is shown, without what it has been converted to.
RECURSIVE Shown(_)
Shown(c) ==
  CASE c.kind = "simple"     -> c
    [] c.kind = "shadow"     -> Shown(c.item)
    [] c.kind = "uniquified" -> Shown(Head(c.items))

Annotated(f, c) ==
  LET codes == ReverseLookup(c.text)
  IN CASE ~IsPhrase(c) \/ codes = << >>                   -> c.comment
       [] IsPhrase(c) /\ codes # << >> /\ (f.overwrite_comment \/ c.comment = NoComment) -> << codes >>
       [] OTHER -> IF f.append_comment THEN Append(c.comment, codes) ELSE c.comment

Unseen(n) == n \notin { Shown(c).id : c \in Range(chain.candidates) }

\* No phrase comes to the reverse lookup in two forms, and nobody behind it looks twice at
\* a candidate: CharsetFilter and SingleCharFilter do, and what looks next does again.
LooksOnce(i) ==
  /\ StagesOf({"simplifier"}) \cap 1..i = {}
  /\ StagesOf({"charset_filter", "single_char_filter"}) \cap i..TopOf(chain) = {}

\* A phrase has its codes at most once, in any order of the filters, unless they are
\* appended: the comment that is set is read again whenever somebody peeks, and an empty one
\* only is filled (reverse_lookup_filter.cc:28-35, 73-89).  Codes that are appended are
\* appended again at the next look, so for those, and for every phrase on the menu having
\* its codes, the order has to be one in which each candidate is looked at once, as in
\* luna_pinyin.  There is one filter of the kind.
AnnotatesOnce ==
  \A i \in StagesOf({"reverse_lookup_filter"}), n \in DOMAIN source :
    LET f == chain.stages[i].filter
        annotated == chain.comments[n] = Annotated(f, source[n])
    IN /\ (f.overwrite_comment \/ ~f.append_comment \/ LooksOnce(i)) =>
            annotated \/ chain.comments[n] = source[n].comment
       /\ LooksOnce(i) => annotated \/ Unseen(n)

\* The filters show the whole list, in its forms and once, with the codes of its phrases.
OffersFiltered == ListsFiltered /\ AnnotatesOnce
=============================================================================
