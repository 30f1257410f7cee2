------------------------------ MODULE Context ------------------------------
(***************************************************************************)
(* The input context and the engine that keeps its composition up to date: *)
(* rime::Context (context.cc), rime::ConcreteEngine (engine.cc) and the    *)
(* segmentors that the engine calls (gear/*_segmentor.cc, punctuator.cc).  *)
(*                                                                         *)
(* Every change of the input makes the context notify the engine, which    *)
(* composes: it drops the segments that have changed, lets the segmentors  *)
(* cut up the rest in rounds and has the translators answer the segments   *)
(* that are new.  The program point "pc" says how far a composition has    *)
(* come; one action is one call of a segmentor or one turn of a loop.      *)
(* Everything runs on the caller's thread, so nothing else happens between *)
(* these steps, and "then" names what the caller does when the call        *)
(* returns ("return": nothing more).                                       *)
(***************************************************************************)
EXTENDS Segmentation

CONSTANTS
  Chars,         \* the characters that can be in the input
  Alphabet,      \* speller/alphabet
  Delimiters,    \* speller/delimiter
  Initials,      \* speller/initials
  Finals,        \* speller/finals
  Puncts,        \* the characters with a punctuation definition
  Segmentors,    \* engine/segmentors, in the order of the schema
  MaxCandidates  \* bound on the candidates of a menu

SegmentorNames == { "ascii_segmentor", "abc_segmentor", "punct_segmentor",
                    "fallback_segmentor" }

ASSUME SegmentorsAssumption == Segmentors \in Seq(SegmentorNames)
ASSUME CharsAssumption == Puncts \subseteq Chars
ASSUME BoundAssumption == MaxCandidates \in Nat

VARIABLES
  input,         \* Context::input_
  caret_pos,     \* Context::caret_pos_
  composition,   \* Context::composition_, the segments
  comp_input,    \* Segmentation::input_, the text that the segments divide
  options,       \* Context::options_
  pc,            \* "idle", or the program point inside a call
  start_pos,     \* CalculateSegmentation: where the round of segmentors began
  next_segmentor,\* CalculateSegmentation: the segmentor to be called next
  then           \* what the caller does when the call returns

contextVars == <<input, caret_pos, composition, comp_input, options>>
engineVars  == <<pc, start_pos, next_segmentor, then>>
vars        == <<input, caret_pos, composition, comp_input, options,
                 pc, start_pos, next_segmentor, then>>

OptionNames  == {"_auto_commit", "ascii_mode"}
ProgramPoint == {"idle", "resume", "rounds", "segmentors", "trim", "translators"}

Menu == [ query : Seq(Chars), ends : Seq(Nat) ]

\* The null pointer points to no menu.
ASSUME NoMenuAssumption == NoMenu \notin Menu

\* The tags that the context and these segmentors set.  FinishSegmentation asks for
\* a "placeholder" too, which none of them makes.
Tags == {"raw", "abc", "punct", "partial", "paging", "selected_before_editing"}
SegmentType == [ status : Status, start : Nat, end : Nat, length : Nat,
                 tags : SUBSET Tags, menu : Menu \cup {NoMenu},
                 selected_index : Nat ]

Init ==
  /\ input = <<>>
  /\ caret_pos = 0
  /\ composition = <<>>
  /\ comp_input = <<>>
  /\ options \in { o \in [OptionNames -> BOOLEAN] : ~o["ascii_mode"] }
  /\ pc = "idle"
  /\ start_pos = 0
  /\ next_segmentor = 1
  /\ then = "return"

\* A call returns to its caller: the front end, or the handler that made it.
Return(k) ==
  /\ pc' = IF k = "return" THEN "idle" ELSE "resume"
  /\ then' = k
  /\ UNCHANGED <<start_pos, next_segmentor>>

-----------------------------------------------------------------------------
(* ConcreteEngine::Compose, called by the update notifier, up to the call  *)
(* of CalculateSegmentation.  The context has just been given the input    *)
(* "text", the caret position "caret" and the segments "segs".             *)

Compose(text, caret, segs, k) ==
  LET active_input == SubSeq(text, 1, caret)
      active       == Reset(segs, comp_input, active_input)
      past_caret   == caret < Len(text) /\ caret = GetConfirmedPosition(active)
  IN  /\ input' = text
      /\ caret_pos' = caret
      /\ composition' = IF past_caret THEN Reset(active, active_input, text)
                                      ELSE active
      /\ comp_input' = IF past_caret THEN text ELSE active_input
      /\ pc' = "rounds"
      /\ then' = k
      /\ UNCHANGED <<start_pos, next_segmentor>>

-----------------------------------------------------------------------------
(* ConcreteEngine::CalculateSegmentation: rounds of calls of segmentors.   *)

BeginRound ==
  /\ pc = "rounds"
  /\ ~HasFinishedSegmentation(composition, comp_input)
  /\ start_pos' = GetCurrentStartPosition(composition)
  /\ next_segmentor' = 1
  /\ pc' = "segmentors"
  /\ UNCHANGED <<contextVars, then>>

Calling(segmentor) ==
  /\ pc = "segmentors"
  /\ next_segmentor \in DOMAIN Segmentors
  /\ Segmentors[next_segmentor] = segmentor

\* Proceed() returns true: the next segmentor is asked too.
Continue(segs) ==
  /\ composition' = segs
  /\ next_segmentor' = next_segmentor + 1
  /\ UNCHANGED <<input, caret_pos, comp_input, options, pc, start_pos, then>>

\* Proceed() returns false: the round ends.
Stop(segs) ==
  /\ composition' = segs
  /\ next_segmentor' = Len(Segmentors) + 1
  /\ UNCHANGED <<input, caret_pos, comp_input, options, pc, start_pos, then>>

AsciiSegmentor ==
  LET j == GetCurrentStartPosition(composition)
  IN  /\ Calling("ascii_segmentor")
      /\ \/ /\ ~options["ascii_mode"]
            /\ Continue(composition)
         \/ /\ options["ascii_mode"]
            /\ Stop(IF j < Len(comp_input)
                    THEN AddSegment(composition,
                                    SegmentWithTags(j, Len(comp_input), {"raw"}))
                    ELSE composition)

\* The character at p continues a run of spelling that starts at j.
IsDelimiterAt(j, p) == p # j /\ comp_input[p + 1] \in Delimiters
ExpectingAnInitialAt(j, p) ==
  \/ p = j
  \/ comp_input[p] \in Finals
  \/ IsDelimiterAt(j, p - 1)
IsSpelling(j, p) ==
  \/ IsDelimiterAt(j, p)
  \/ /\ comp_input[p + 1] \in Alphabet
     /\ ExpectingAnInitialAt(j, p) => comp_input[p + 1] \in Initials

\* Where the run of spelling that starts at j ends.
SpellingEnd(j) ==
  Max({ k \in j .. Len(comp_input) : \A p \in j .. k - 1 : IsSpelling(j, p) })

AbcSegmentor ==
  LET j == GetCurrentStartPosition(composition)
      k == SpellingEnd(j)
  IN  /\ Calling("abc_segmentor")
      /\ Continue(IF j < k
                  THEN AddSegment(composition, SegmentWithTags(j, k, {"abc"}))
                  ELSE composition)

PunctSegmentor ==
  LET k == GetCurrentStartPosition(composition)
  IN  /\ Calling("punct_segmentor")
      /\ \/ /\ k = Len(comp_input)
            /\ Stop(composition)
         \/ /\ k < Len(comp_input)
            /\ comp_input[k + 1] \notin Puncts
            /\ Continue(composition)
         \/ /\ k < Len(comp_input)
            /\ comp_input[k + 1] \in Puncts
            /\ Stop(AddSegment(composition, SegmentWithTags(k, k + 1, {"punct"})))

\* One character that no other segmentor took: it is appended to the raw
\* segment before it, which is cleared, or starts a raw segment.
ExtendRaw(segs, k) ==
  SetBack(segs, [ ClearSegment([ Last(segs) EXCEPT !.end = k + 1 ])
                  EXCEPT !.tags = {"raw"} ])

AddRaw(segs, k) ==
  AddSegment(Forward(segs), SegmentWithTags(k, k + 1, {"raw"}))

FallbackSegmentor ==
  LET k    == GetCurrentStartPosition(composition)
      segs == Trim(composition)
  IN  /\ Calling("fallback_segmentor")
      /\ \/ /\ \/ GetCurrentSegmentLength(composition) > 0
               \/ k = Len(comp_input)
            /\ Stop(composition)
         \/ /\ GetCurrentSegmentLength(composition) = 0
            /\ k < Len(comp_input)
            /\ Stop(IF segs # <<>> /\ "raw" \in Last(segs).tags
                    THEN ExtendRaw(segs, k)
                    ELSE AddRaw(segs, k))

\* Mutant of EndRound: any number of segments past the caret.
EndRoundPastCaret ==
  /\ pc = "segmentors"
  /\ next_segmentor > Len(Segmentors)
  /\ \/ /\ start_pos = GetCurrentEndPosition(composition)
        /\ pc' = "trim"
        /\ UNCHANGED composition
     \/ /\ start_pos # GetCurrentEndPosition(composition)
        /\ pc' = "rounds"
        /\ composition' = IF HasFinishedSegmentation(composition, comp_input)
                          THEN composition
                          ELSE Forward(composition)
  /\ UNCHANGED <<input, caret_pos, comp_input, options, start_pos,
                 next_segmentor, then>>

\* Mutant of EndRound: a round that has not advanced is tried again.
EndRoundUnadvanced ==
  /\ pc = "segmentors"
  /\ next_segmentor > Len(Segmentors)
  /\ \/ /\ start_pos >= caret_pos
        /\ pc' = "trim"
        /\ UNCHANGED composition
     \/ /\ start_pos < caret_pos
        /\ pc' = "rounds"
        /\ composition' = IF HasFinishedSegmentation(composition, comp_input)
                          THEN composition
                          ELSE Forward(composition)
  /\ UNCHANGED <<input, caret_pos, comp_input, options, start_pos,
                 next_segmentor, then>>

\* After a round: stop unless it advanced and began before the caret; only one
\* segment is allowed past the caret.
EndRound ==
  /\ pc = "segmentors"
  /\ next_segmentor > Len(Segmentors)
  /\ \/ /\ \/ start_pos = GetCurrentEndPosition(composition)
           \/ start_pos >= caret_pos
        /\ pc' = "trim"
        /\ UNCHANGED composition
     \/ /\ start_pos # GetCurrentEndPosition(composition)
        /\ start_pos < caret_pos
        /\ pc' = "rounds"
        /\ composition' = IF HasFinishedSegmentation(composition, comp_input)
                          THEN composition
                          ELSE Forward(composition)
  /\ UNCHANGED <<input, caret_pos, comp_input, options, start_pos,
                 next_segmentor, then>>

\* The empty segment at the end goes, except at the end of a composition that
\* the user has confirmed.
ForwardIfSelected(segs) ==
  IF segs # <<>> /\ Last(segs).status >= kSelected THEN Forward(segs) ELSE segs

FinishSegmentation ==
  /\ \/ pc = "trim"
     \/ pc = "rounds" /\ HasFinishedSegmentation(composition, comp_input)
  /\ composition' =
       ForwardIfSelected(IF composition # <<>>
                            /\ "placeholder" \in Last(composition).tags
                         THEN composition
                         ELSE Trim(composition))
  /\ pc' = "translators"
  /\ start_pos' = 0
  /\ next_segmentor' = 1
  /\ UNCHANGED <<input, caret_pos, comp_input, options, then>>

-----------------------------------------------------------------------------
(* ConcreteEngine::TranslateSegments.  The translators are external to this *)
(* model: they answer any few candidates that end inside the segment.       *)

Untranslated == { i \in DOMAIN composition : composition[i].status < kGuess }

Translated(seg, ends) ==
  [ seg EXCEPT !.status = kGuess, !.selected_index = 0,
               !.menu = [ query |-> SubSeq(comp_input, seg.start + 1, seg.end),
                          ends  |-> ends ] ]

TranslateSegment ==
  /\ pc = "translators"
  /\ Untranslated # {}
  /\ LET i   == Min(Untranslated)
         seg == composition[i]
     IN  \E ends \in BoundedSeq((seg.start + 1) .. seg.end, MaxCandidates) :
           composition' = [ composition EXCEPT ![i] = Translated(seg, ends) ]
  /\ UNCHANGED <<input, caret_pos, comp_input, options, engineVars>>

FinishTranslation ==
  /\ pc = "translators"
  /\ Untranslated = {}
  /\ Return(then)
  /\ UNCHANGED contextVars

Engine ==
  \/ BeginRound
  \/ AsciiSegmentor
  \/ AbcSegmentor
  \/ PunctSegmentor
  \/ FallbackSegmentor
  \/ EndRound
  \/ FinishSegmentation
  \/ TranslateSegment
  \/ FinishTranslation

-----------------------------------------------------------------------------
(* The operations of the context.  Each is the whole call up to the point  *)
(* where the engine starts its rounds; "k" is what the caller does next.   *)

IsComposing == input # <<>> \/ composition # <<>>

SelectedCandidate == composition # <<>> /\ HasSelectedCandidate(Last(composition))

\* The call changes nothing and does not reach the engine.
Stay(k) == /\ Return(k)
           /\ UNCHANGED <<input, caret_pos, composition, comp_input>>

\* The segments change and the engine is not notified.
Edit(segs, k) == /\ composition' = segs
                 /\ Return(k)
                 /\ UNCHANGED <<input, caret_pos, comp_input>>

PushInput(ch, k) ==
  Compose(InsertAt(input, caret_pos + 1, ch), caret_pos + 1, composition, k)

\* What is left of the input without its characters from p up to q.
Erase(text, p, q) == SubSeq(text, 1, p) \o SubSeq(text, q + 1, Len(text))

CanPopInput(len) == caret_pos >= len
PopInput(len, k) ==
  /\ CanPopInput(len)
  /\ Compose(Erase(input, caret_pos - len, caret_pos), caret_pos - len,
             composition, k)

CanDeleteInput(len) == caret_pos + len <= Len(input)
DeleteInput(len, k) ==
  /\ CanDeleteInput(len)
  /\ Compose(Erase(input, caret_pos, caret_pos + len), caret_pos, composition, k)

Clear(k) == Compose(<<>>, 0, <<>>, k)

Commit(k) == \/ IsComposing /\ Clear(k)
             \/ ~IsComposing /\ Stay(k)

set_input(text, k) == Compose(text, Len(text), composition, k)

set_caret_pos(p, k) == Compose(input, IF p > Len(input) THEN Len(input) ELSE p,
                               composition, k)

\* ConcreteEngine::OnSelect: the user has selected the last of "segs".
OnSelect(segs, k) ==
  LET seg    == Close(Last(segs))
      closed == SetBack(segs, seg)
  IN  IF seg.end = Len(input)
      THEN IF options["_auto_commit"]
           THEN Clear(k)
           ELSE Edit(Forward(SetBack(segs, [ seg EXCEPT !.status = kConfirmed ])), k)
      ELSE Compose(input, IF seg.end >= caret_pos THEN Len(input) ELSE caret_pos,
                   Forward(closed), k)

CanSelect(index) ==
  /\ composition # <<>>
  /\ Last(composition).menu # NoMenu
  /\ index < Len(Last(composition).menu.ends)

Select(index, k) ==
  /\ CanSelect(index)
  /\ OnSelect(SetBack(composition, [ Last(composition) EXCEPT
                                       !.selected_index = index,
                                       !.status = kSelected ]), k)

\* Mutant of HighlightIndex: the index may be past the menu.
HighlightIndexUnclamped(index) == index

\* The index that Highlight(index) moves to.
HighlightIndex(index) ==
  LET n == Len(Last(composition).menu.ends)
  IN  IF n = 0 THEN 0 ELSE IF index < n THEN index ELSE n - 1

CanHighlight(index) ==
  /\ composition # <<>>
  /\ Last(composition).menu # NoMenu
  /\ HighlightIndex(index) # Last(composition).selected_index

Highlight(index, k) ==
  /\ CanHighlight(index)
  /\ Compose(input, caret_pos,
             SetBack(composition, [ Last(composition) EXCEPT
                                     !.selected_index = HighlightIndex(index) ]), k)

\* Nothing to confirm: the call fails.  It may mark an empty segment as selected, but the
\* callers that are modelled commit then, which drops the segment; those of Speller's
\* auto_select, which is left out, do not.
CanConfirm == composition # <<>> /\ (\/ SelectedCandidate
                                     \/ ~IsEmptySegment(Last(composition)))
SelectBack == SetBack(composition, [ Last(composition) EXCEPT !.status = kSelected ])

ConfirmCurrentSelection(k) == CanConfirm /\ OnSelect(SelectBack, k)

\* The last selected segment, unless a confirmed one comes after it.
LastSelected ==
  LET selected == { i \in DOMAIN composition : composition[i].status >= kSelected }
  IN  IF selected # {} /\ composition[Max(selected)].status = kSelected
      THEN Max(selected)
      ELSE 0

\* Mutant of Edited: the selection is not marked.
EditedUnmarked == composition

Edited == [ i \in DOMAIN composition |->
              IF i = LastSelected
              THEN [ composition[i] EXCEPT !.tags = @ \cup {"selected_before_editing"} ]
              ELSE composition[i] ]

BeginEditing(k) == Edit(Edited, k)

CanReopenPreviousSegment == CanTrim(composition)
ReopenBack(segs) ==
  IF segs # <<>> THEN SetBack(segs, Reopen(Last(segs), caret_pos)) ELSE segs
ReopenPreviousSegment(k) ==
  /\ CanReopenPreviousSegment
  /\ Compose(input, caret_pos, ReopenBack(Trim(composition)), k)

CanReopenPreviousSelection ==
  /\ LastSelected # 0
  /\ "selected_before_editing" \notin composition[LastSelected].tags
ReopenPreviousSelection(k) ==
  /\ CanReopenPreviousSelection
  /\ Compose(input, caret_pos, ReopenBack(SubSeq(composition, 1, LastSelected)), k)

CanClearPreviousSegment ==
  composition # <<>> /\ Last(composition).start < Len(input)
ClearPreviousSegment(k) ==
  /\ CanClearPreviousSegment
  /\ set_input(SubSeq(input, 1, Last(composition).start), k)

\* ClearNonConfirmedComposition: the segments after the last selected one go.
NonConfirmed ==
  composition # <<>> /\ Last(composition).status < kSelected
Confirmed ==
  LET n == MaxOrZero({ i \in DOMAIN composition :
                         composition[i].status >= kSelected })
  IN  IF NonConfirmed THEN Forward(SubSeq(composition, 1, n)) ELSE composition

\* Mutant of RefreshNonConfirmedComposition: the engine is not notified.
RefreshSilently(k) == Edit(Confirmed, k)

RefreshNonConfirmedComposition(k) ==
  \/ NonConfirmed /\ Compose(input, caret_pos, Confirmed, k)
  \/ ~NonConfirmed /\ Stay(k)

\* ConcreteEngine::OnOptionUpdate
set_option(name, value, k) ==
  /\ options' = [ options EXCEPT ![name] = value ]
  /\ \/ IsComposing /\ RefreshNonConfirmedComposition(k)
     \/ ~IsComposing /\ Stay(k)
=============================================================================
