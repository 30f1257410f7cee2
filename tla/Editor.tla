------------------------------- MODULE Editor -------------------------------
(***************************************************************************)
(* What a session lets the user and the front end do to a composition: the *)
(* key handlers of Speller, Punctuator, Selector, Navigator and Editor     *)
(* (gear/*.cc) and the calls of the C API (rime_api_impl.h).               *)
(*                                                                         *)
(* A handler is one action up to the point where the engine composes; what *)
(* a handler does afterwards is an action of its own, named by "then".     *)
(* Editor and navigator keys can be bound to any of their actions in the   *)
(* configuration, so every action is available to every editor.            *)
(***************************************************************************)
EXTENDS Context

CONSTANTS
  PunctKind,     \* the shape of each definition: "list", "unique" or "commit"
  Handlers,      \* the groups of handlers of the configuration that is checked
  MaxInput       \* bound on the length of the input

ASSUME PunctAssumption == PunctKind \in [Puncts -> {"list", "unique", "commit"}]
ASSUME InputAssumption == MaxInput \in Nat

HasRoom == Len(input) < MaxInput

\* A key is processed, or the API called, when nothing else is under way.
Idle(handler) == pc = "idle" /\ handler \in Handlers

\* Editor and Navigator leave the key to others when there is no composition.
Composing(handler) == Idle(handler) /\ IsComposing

-----------------------------------------------------------------------------
(* Speller, Punctuator and the character handlers of Editor                *)

\* expecting_an_initial() of speller.cc
ExpectingAnInitial ==
  \/ caret_pos = 0
  \/ caret_pos = GetCurrentStartPosition(composition)
  \/ input[caret_pos] \in Finals
  \/ input[caret_pos] \notin Alphabet

SpellerAccepts(ch) ==
  /\ ch \in Alphabet \cup Delimiters
  /\ ch \in Initials \/ ~ExpectingAnInitial

\* Speller without auto_select
SpellerKey(ch) ==
  /\ Idle("speller")
  /\ SpellerAccepts(ch)
  /\ HasRoom
  /\ PushInput(ch, "BeginEditing")
  /\ UNCHANGED options

\* Editor::AddToInput takes what no other processor has taken.
AddToInput(ch) ==
  /\ Idle("add_to_input")
  /\ ~SpellerAccepts(ch)
  /\ ch \notin Puncts
  /\ HasRoom
  /\ PushInput(ch, "BeginEditing")
  /\ UNCHANGED options

\* Editor::DirectCommit commits and leaves the key to the application.
DirectCommit(ch) ==
  /\ Composing("direct_commit")
  /\ ~SpellerAccepts(ch)
  /\ ch \notin Puncts
  /\ Commit("return")
  /\ UNCHANGED options

\* Punctuator::AlternatePunct: the key again chooses the next candidate.
CanAlternate(ch) ==
  /\ PunctKind[ch] = "list"
  /\ composition # <<>>
  /\ Last(composition).status > kVoid
  /\ "punct" \in Last(composition).tags
  /\ SubSeq(input, Last(composition).start + 1, Last(composition).end) = <<ch>>
  /\ HasMenu(composition)

AlternatePunct(ch) ==
  /\ Idle("punctuator")
  /\ CanAlternate(ch)
  /\ LET seg == Last(composition)
     IN  Edit(SetBack(composition,
                      [ seg EXCEPT !.selected_index =
                                     (@ + 1) % Len(seg.menu.ends),
                                   !.status = kGuess ]), "return")
  /\ UNCHANGED options

PunctuatorKey(ch) ==
  /\ Idle("punctuator")
  /\ ~CanAlternate(ch)
  /\ HasRoom
  /\ PushInput(ch, CASE PunctKind[ch] = "unique" -> "ConfirmUniquePunct"
                     [] PunctKind[ch] = "commit" -> "AutoCommitPunct"
                     [] PunctKind[ch] = "list"   -> "return")
  /\ UNCHANGED options

-----------------------------------------------------------------------------
(* Selector.  "paging" is the tag that it leaves on the last segment.      *)

Selecting(handler) ==
  /\ Idle(handler)
  /\ composition # <<>>
  /\ Last(composition).menu # NoMenu
  /\ "raw" \notin Last(composition).tags

SelectCandidateAt(index) ==
  /\ Selecting("selector")
  /\ Select(index, "return")
  /\ UNCHANGED options

\* PreviousPage, NextPage, PreviousCandidate, NextCandidate: the index that
\* they move to depends on the page size and is left open.
MoveHighlight(index) ==
  /\ Selecting("paging")
  /\ Highlight(index, "paging")
  /\ UNCHANGED options

\* The first page is left for itself: Highlight changes nothing, the tag is inserted.
PageInPlace ==
  /\ Selecting("paging")
  /\ ~CanHighlight(0)
  /\ Edit(SetBack(composition, [ Last(composition) EXCEPT
                                   !.tags = @ \cup {"paging"} ]), "return")
  /\ UNCHANGED options

\* Selector::Home and End insert no tag.
HighlightFirst ==
  /\ Selecting("paging")
  /\ Highlight(0, "return")
  /\ UNCHANGED options

-----------------------------------------------------------------------------
(* Navigator.  Every move begins with Context::BeginEditing.               *)

MoveTo(p) ==
  \/ p # caret_pos /\ Compose(input, p, Edited, "return")
  \/ p = caret_pos /\ BeginEditing("return")

\* Navigator::GoHome: the start of what is not selected yet, else the start.
HomePosition ==
  LET unselected == { i \in DOMAIN composition :
                        \A j \in i .. Len(composition) :
                          composition[j].status < kSelected }
      start == IF unselected = {} THEN caret_pos
               ELSE composition[Min(unselected)].start
  IN  IF start < caret_pos THEN start ELSE 0

LeftByChar ==
  /\ Composing("navigator")
  /\ MoveTo(IF caret_pos > 0 THEN caret_pos - 1 ELSE Len(input))
  /\ UNCHANGED options

RightByChar ==
  /\ Composing("navigator")
  /\ MoveTo(IF caret_pos < Len(input) THEN caret_pos + 1 ELSE HomePosition)
  /\ UNCHANGED options

Home == Composing("navigator") /\ MoveTo(HomePosition) /\ UNCHANGED options
End  == Composing("navigator") /\ MoveTo(Len(input)) /\ UNCHANGED options

\* LeftBySyllable, RightBySyllable: where the syllables end is known to the
\* translators only.
JumpBySyllable(p) ==
  Composing("navigator") /\ MoveTo(p) /\ UNCHANGED options

-----------------------------------------------------------------------------
(* The actions of Editor                                                   *)

Confirm ==
  /\ Composing("editor")
  /\ \/ ConfirmCurrentSelection("return")
     \/ ~CanConfirm /\ Commit("return")
  /\ UNCHANGED options

ToggleSelection ==
  /\ Composing("editor")
  /\ \/ ReopenPreviousSegment("return")
     \/ ~CanReopenPreviousSegment /\ ConfirmCurrentSelection("return")
  /\ UNCHANGED options

CommitComment ==
  /\ Composing("editor")
  /\ SelectedCandidate
  /\ Clear("return")
  /\ UNCHANGED options

\* CommitScriptText and CommitRawInput differ in the text that they commit.
CommitScriptText == Composing("editor") /\ Clear("return") /\ UNCHANGED options
CommitRawInput   == Composing("editor") /\ Commit("return") /\ UNCHANGED options

CommitComposition ==
  /\ Composing("editor")
  /\ \/ ConfirmCurrentSelection("CommitUnlessMenu")
     \/ ~CanConfirm /\ Commit("return")
  /\ UNCHANGED options

RevertLastEdit ==
  /\ Composing("editor")
  /\ \/ ReopenPreviousSelection("return")
     \/ /\ ~CanReopenPreviousSelection
        /\ PopInput(1, "ReopenPreviousSegment")
  /\ UNCHANGED options

BackToPreviousInput ==
  /\ Composing("editor")
  /\ \/ ReopenPreviousSegment("return")
     \/ ~CanReopenPreviousSegment /\ ReopenPreviousSelection("return")
     \/ /\ ~CanReopenPreviousSegment
        /\ ~CanReopenPreviousSelection
        /\ PopInput(1, "return")
  /\ UNCHANGED options

\* The last syllable of the selected phrase, or one character.
BackToPreviousSyllable(len) ==
  /\ Composing("editor")
  /\ \/ ReopenPreviousSelection("return")
     \/ /\ ~CanReopenPreviousSelection
        /\ len > 1 => SelectedCandidate
        /\ PopInput(len, "ReopenPreviousSegment")
  /\ UNCHANGED options

\* Context::DeleteCandidate, when the candidate is a phrase of a dictionary.
Delete(segs, k) ==
  \/ Edit(segs, k)
  \/ /\ segs # <<>>
     /\ HasSelectedCandidate(Last(segs))
     /\ Last(segs).status < kSelected
     /\ Compose(input, caret_pos, Confirmed, k)

DeleteCandidate ==
  /\ Composing("editor")
  /\ SelectedCandidate
  /\ Delete(composition, "return")
  /\ UNCHANGED options

DeleteChar ==
  Composing("editor") /\ DeleteInput(1, "return") /\ UNCHANGED options

CancelComposition ==
  /\ Composing("editor")
  /\ \/ ClearPreviousSegment("return")
     \/ ~CanClearPreviousSegment /\ Clear("return")
  /\ UNCHANGED options

-----------------------------------------------------------------------------
(* The C API (rime_api_impl.h)                                             *)

RimeSetInput(text) ==
  Idle("api") /\ set_input(text, "return") /\ UNCHANGED options

RimeSetCaretPos(p) ==
  Idle("api") /\ set_caret_pos(p, "return") /\ UNCHANGED options

RimeSelectCandidate(index) ==
  Idle("api") /\ Select(index, "return") /\ UNCHANGED options

RimeHighlightCandidate(index) ==
  Idle("api") /\ Highlight(index, "return") /\ UNCHANGED options

\* The tag is inserted first.  The index that a page up or down leads to depends
\* on the page size.
RimeChangePage(index) ==
  /\ Idle("api")
  /\ HasMenu(composition)
  /\ LET paged == [ Last(composition) EXCEPT !.tags = @ \cup {"paging"} ]
     IN  \/ /\ CanHighlight(index)
            /\ Compose(input, caret_pos,
                       SetBack(composition, [ paged EXCEPT
                                 !.selected_index = HighlightIndex(index) ]), "return")
         \/ /\ ~CanHighlight(index)
            /\ Edit(SetBack(composition, paged), "return")
  /\ UNCHANGED options

\* The index is stored before anything looks whether there is such a candidate.
RimeDeleteCandidate(index) ==
  /\ Idle("api")
  /\ composition # <<>>
  /\ Delete(SetBack(composition,
                    [ Last(composition) EXCEPT !.selected_index = index ]), "return")
  /\ UNCHANGED options

RimeCommitComposition ==
  Idle("api") /\ Commit("return") /\ UNCHANGED options

\* Context::AbortComposition
RimeClearComposition ==
  Idle("api") /\ Clear("return") /\ UNCHANGED options

\* RimeSetOption, and the option switches of the other processors.
RimeSetOption ==
  /\ Idle("options")
  /\ set_option("ascii_mode", ~options["ascii_mode"], "return")

-----------------------------------------------------------------------------
(* The rest of a handler, when the call that it made has returned.         *)

Resuming(k) == pc = "resume" /\ then = k

ResumeBeginEditing ==
  /\ Resuming("BeginEditing")
  /\ BeginEditing("return")
  /\ UNCHANGED options

ResumeReopenPreviousSegment ==
  /\ Resuming("ReopenPreviousSegment")
  /\ \/ ReopenPreviousSegment("return")
     \/ ~CanReopenPreviousSegment /\ Stay("return")
  /\ UNCHANGED options

ResumeCommitUnlessMenu ==
  /\ Resuming("CommitUnlessMenu")
  /\ \/ ~HasMenu(composition) /\ Commit("return")
     \/ HasMenu(composition) /\ Stay("return")
  /\ UNCHANGED options

ResumePaging ==
  /\ Resuming("paging")
  /\ composition # <<>>
  /\ Edit(SetBack(composition, [ Last(composition) EXCEPT
                                   !.tags = @ \cup {"paging"} ]), "return")
  /\ UNCHANGED options

\* The candidate has to be a punctuation mark as well: its type is left open, so the
\* answer may be no although this holds.
PunctuationIsTranslated ==
  /\ SelectedCandidate
  /\ "punct" \in Last(composition).tags

ResumeConfirmUniquePunct ==
  /\ Resuming("ConfirmUniquePunct")
  /\ \/ PunctuationIsTranslated /\ ConfirmCurrentSelection("return")
     \/ Stay("return")
  /\ UNCHANGED options

ResumeAutoCommitPunct ==
  /\ Resuming("AutoCommitPunct")
  /\ \/ PunctuationIsTranslated /\ Commit("return")
     \/ Stay("return")
  /\ UNCHANGED options

Resume ==
  \/ ResumeBeginEditing
  \/ ResumeReopenPreviousSegment
  \/ ResumeCommitUnlessMenu
  \/ ResumePaging
  \/ ResumeConfirmUniquePunct
  \/ ResumeAutoCommitPunct

Key ==
  \/ \E ch \in Chars : SpellerKey(ch) \/ AddToInput(ch) \/ DirectCommit(ch)
  \/ \E ch \in Puncts : AlternatePunct(ch) \/ PunctuatorKey(ch)
  \/ \E index \in 0 .. MaxCandidates - 1 : SelectCandidateAt(index)
                                          \/ MoveHighlight(index)
  \/ PageInPlace
  \/ HighlightFirst
  \/ LeftByChar
  \/ RightByChar
  \/ Home
  \/ End
  \/ \E p \in 0 .. Len(input) : JumpBySyllable(p)
  \/ Confirm
  \/ ToggleSelection
  \/ CommitComment
  \/ CommitScriptText
  \/ CommitRawInput
  \/ CommitComposition
  \/ RevertLastEdit
  \/ BackToPreviousInput
  \/ \E len \in 1 .. Len(input) : BackToPreviousSyllable(len)
  \/ DeleteCandidate
  \/ DeleteChar
  \/ CancelComposition

API ==
  \/ \E text \in BoundedSeq(Chars, MaxInput) : RimeSetInput(text)
  \/ \E p \in 0 .. MaxInput : RimeSetCaretPos(p)
  \/ \E index \in 0 .. MaxCandidates : \/ RimeSelectCandidate(index)
                                      \/ RimeHighlightCandidate(index)
                                      \/ RimeChangePage(index)
                                      \/ RimeDeleteCandidate(index)
  \/ RimeCommitComposition
  \/ RimeClearComposition
  \/ RimeSetOption

Next == Engine \/ Resume \/ Key \/ API

\* A call runs to its end: the caller's thread does nothing else meanwhile.
Spec == Init /\ [][Next]_vars /\ WF_vars(Engine \/ Resume)

-----------------------------------------------------------------------------
Continuation == {"return", "BeginEditing", "ReopenPreviousSegment",
                 "CommitUnlessMenu", "paging", "ConfirmUniquePunct",
                 "AutoCommitPunct"}

\* The types of the fields of Context, Segmentation and Segment, and the bounds
\* of a position: the caret is inside the input.
TypeOK ==
  /\ input \in Seq(Chars)
  /\ caret_pos \in 0 .. Len(input)
  /\ composition \in Seq(SegmentType)
  /\ comp_input \in Seq(Chars)
  /\ options \in [OptionNames -> BOOLEAN]
  /\ pc \in ProgramPoint
  /\ start_pos \in Nat
  /\ next_segmentor \in 1 .. Len(Segmentors) + 1
  /\ then \in Continuation
=============================================================================
