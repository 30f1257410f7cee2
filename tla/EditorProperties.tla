-------------------------- MODULE EditorProperties --------------------------
(***************************************************************************)
(* What must hold of a composition whatever the user types.                *)
(***************************************************************************)
EXTENDS Editor

SegmentText(seg) == SubSeq(comp_input, seg.start + 1, seg.end)

\* The segments divide the text without a gap or an overlap, and none but the
\* last is empty.  GetPreedit and GetCommitText (composition.cc) cut the text at
\* these positions with substr(), which throws when a position is past the end.
SegmentsTile ==
  /\ \A i \in DOMAIN composition :
       /\ composition[i].start <= composition[i].end
       /\ composition[i].end <= Len(comp_input)
       /\ composition[i].start = IF i = 1 THEN 0 ELSE composition[i - 1].end
  /\ \A i \in DOMAIN composition :
       i < Len(composition) => ~IsEmptySegment(composition[i])

\* A segmentor that takes a character, whatever stands before it and in either mode.
Takes(segmentor, ch) ==
  \/ segmentor = "fallback_segmentor"
  \/ segmentor = "abc_segmentor" /\ ch \in Alphabet \cap Initials
  \/ segmentor = "punct_segmentor" /\ ch \in Puncts

IsTakenAt(p) == \E n \in DOMAIN Segmentors : Takes(Segmentors[n], input[p + 1])

\* When a call returns, the composition is up to date: the segments divide the
\* beginning of the input, at least up to the caret or to a character that no
\* segmentor takes, and all of them are translated.
UpToDate ==
  pc = "idle" =>
    /\ IsPrefix(comp_input, input)
    /\ LET end == GetCurrentEndPosition(composition)
       IN  end < caret_pos => ~IsTakenAt(end)
    /\ \A i \in DOMAIN composition :
         \/ IsEmptySegment(composition[i])
         \/ composition[i].status >= kGuess /\ composition[i].menu # NoMenu

\* Only the last segment may reach past the caret, once the call has returned: text
\* behind it is translated when the user gets there (engine.cc:163-167, 186-188).
OneSegmentPastCaret ==
  pc = "idle" =>
    \A i \in DOMAIN composition :
      \/ composition[i].end <= caret_pos
      \/ i = Len(composition)
      \/ i + 1 = Len(composition) /\ IsEmptySegment(Last(composition))

\* The candidates on offer answer the text that the segment covers, though Reopen
\* takes up an old menu again and Close cuts a segment short.
MenuFresh ==
  pc = "idle" =>
    \A i \in DOMAIN composition :
      composition[i].status = kGuess =>
        composition[i].menu.query = SegmentText(composition[i])

\* "do not reopen the previous selection after editing input" (context.cc): the
\* candidates that BackSpace puts up again are those of the input as it is.
ReopensUnedited ==
  [][ /\ RevertLastEdit \/ BackToPreviousInput
      /\ CanReopenPreviousSelection
      /\ input' = input
      /\ Last(composition').status = kGuess
      => Last(composition').menu.query =
           SubSeq(input', Last(composition').start + 1, Last(composition').end)
    ]_vars

\* A segment for which the user has chosen a candidate stays as it is, unless the
\* user changes the input up to its end, moves the caret into it, or takes the
\* choice back with one of the keys that reopen it.  A raw segment is the exception:
\* FallbackSegmentor extends and clears it when it meets another raw character.
Reopens ==
  \/ ToggleSelection
  \/ RevertLastEdit
  \/ BackToPreviousInput
  \/ \E len \in 1 .. Len(input) : BackToPreviousSyllable(len)
  \/ ResumeReopenPreviousSegment
SameChoice(old, new) ==
  /\ new.status >= kSelected
  /\ \A field \in {"start", "end", "menu", "selected_index"} :
       new[field] = old[field]
SelectionStands ==
  \A i \in DOMAIN composition :
    LET seg == composition[i]
    IN  /\ pc # "segmentors" \/ "raw" \notin seg.tags
        /\ seg.status >= kSelected
        /\ HasSelectedCandidate(seg)
        /\ IsPrefix(SubSeq(comp_input, 1, seg.end), input')
        /\ caret_pos' >= seg.end
        => \/ Reopens
           \/ i \in DOMAIN composition' /\ SameChoice(seg, composition'[i])
SelectionSurvives == [][SelectionStands]_vars

\* Selector tags the last segment after it has highlighted a candidate and the
\* engine has composed: comp.back() must still exist, and be the segment in whose
\* menu the candidate is, if it has any (selector.cc).
PagingFindsSegment ==
  pc = "resume" /\ then = "paging"
    => /\ composition # <<>>
       /\ Last(composition).menu # NoMenu
       /\ \/ Last(composition).menu.ends = <<>>
          \/ HasSelectedCandidate(Last(composition))

\* Every call of the front end returns: the rounds of segmentors come to an end.
CallReturns == (pc # "idle") ~> (pc = "idle")
=============================================================================
