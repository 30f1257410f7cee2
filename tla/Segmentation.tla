--------------------------- MODULE Segmentation ---------------------------
(***************************************************************************)
(* The data structures of a composition and the operations on them:        *)
(* rime::Segment, rime::Segmentation (segmentation.h, segmentation.cc) and *)
(* the parts of rime::Composition that read them (composition.cc).         *)
(*                                                                         *)
(* A segmentation is a sequence of segments.  Positions are offsets into   *)
(* the input, counted from 0 as in the code, so that the characters of a   *)
(* segment [start, end) are input[start + 1] .. input[end].                *)
(*                                                                         *)
(* A menu is what the translators answered to a query: the text that was   *)
(* translated and, for each candidate, the position where it ends.  The    *)
(* text, comment and preedit of a candidate do not matter to the           *)
(* segmentation and are left out.                                          *)
(***************************************************************************)
EXTENDS Integers, Sequences, SequencesExt

CONSTANT NoMenu     \* the null pointer an<Menu>()

\* enum Segment::Status
kVoid      == 0
kGuess     == 1
kSelected  == 2
kConfirmed == 3
Status == kVoid .. kConfirmed

Segment(start_pos, end_pos) ==
  [ status |-> kVoid, start |-> start_pos, end |-> end_pos,
    length |-> end_pos - start_pos, tags |-> {}, menu |-> NoMenu,
    selected_index |-> 0 ]

SegmentWithTags(start_pos, end_pos, tags) ==
  [ Segment(start_pos, end_pos) EXCEPT !.tags = tags ]

IsEmptySegment(seg) == seg.start = seg.end

\* The largest element of a set of naturals, 0 for the empty set.
MaxOrZero(S) == IF S = {} THEN 0 ELSE Max(S)

-----------------------------------------------------------------------------
(* Segment                                                                 *)

\* Segment::GetSelectedCandidate() returns a candidate.
HasSelectedCandidate(seg) ==
  /\ seg.menu # NoMenu
  /\ seg.selected_index < Len(seg.menu.ends)

\* Where that candidate ends: cand->end().
SelectedEnd(seg) == seg.menu.ends[seg.selected_index + 1]

\* A partially matching candidate splits the segment in two.
Close(seg) ==
  IF HasSelectedCandidate(seg) /\ SelectedEnd(seg) < seg.end
  THEN [ seg EXCEPT !.end = SelectedEnd(seg), !.tags = @ \cup {"partial"} ]
  ELSE seg

Reopen(seg, caret) ==
  LET original_end_pos == seg.start + seg.length
  IN  IF seg.status < kSelected
      THEN seg
      ELSE IF original_end_pos # caret
           THEN [ seg EXCEPT !.status = kVoid ]
           ELSE IF seg.end < original_end_pos
                THEN [ seg EXCEPT !.status = kGuess,
                                  !.end = original_end_pos,
                                  !.tags = @ \ {"partial"} ]
                ELSE [ seg EXCEPT !.status = kGuess ]

\* Segment::Clear() keeps the range and drops everything else.
ClearSegment(seg) ==
  [ seg EXCEPT !.status = kVoid, !.tags = {}, !.menu = NoMenu,
               !.selected_index = 0 ]

-----------------------------------------------------------------------------
(* Segmentation                                                            *)

GetCurrentStartPosition(segs) == IF segs = <<>> THEN 0 ELSE Last(segs).start
GetCurrentEndPosition(segs)   == IF segs = <<>> THEN 0 ELSE Last(segs).end
GetCurrentSegmentLength(segs) ==
  GetCurrentEndPosition(segs) - GetCurrentStartPosition(segs)

\* Mutant of HasFinishedSegmentation: off by one.
FinishesEarly(segs, text) == GetCurrentEndPosition(segs) + 1 >= Len(text)

HasFinishedSegmentation(segs, text) == GetCurrentEndPosition(segs) >= Len(text)

\* The end of the last segment the user has selected.
GetConfirmedPosition(segs) ==
  LET selected == { i \in DOMAIN segs : segs[i].status >= kSelected }
  IN  IF selected = {} THEN 0 ELSE segs[Max(selected)].end

\* Finalize a round: start an empty segment, unless there is one already.
Forward(segs) ==
  IF segs = <<>> \/ IsEmptySegment(Last(segs))
  THEN segs
  ELSE Append(segs, Segment(Last(segs).end, Last(segs).end))

CanTrim(segs) == segs # <<>> /\ IsEmptySegment(Last(segs))

Trim(segs) == IF CanTrim(segs) THEN Front(segs) ELSE segs

SetBack(segs, seg) == Append(Front(segs), seg)

\* Rule one: left-aligned segments only; rule two: the longer one wins; rule
\* three: segments equal in length have their tags merged.
AddSegment(segs, seg) ==
  IF seg.start # GetCurrentStartPosition(segs) THEN segs
  ELSE IF segs = <<>> THEN <<seg>>
  ELSE IF Last(segs).end > seg.end THEN segs
  ELSE IF Last(segs).end < seg.end THEN SetBack(segs, seg)
  ELSE SetBack(segs, [ Last(segs) EXCEPT !.tags = @ \cup seg.tags ])

AgreeUpTo(old, new, k) ==
  k <= Len(new) /\ \A i \in 1 .. k : old[i] = new[i]

\* The length of the longest common prefix of the two inputs.
DiffPos(old, new) == Max({ k \in 0 .. Len(old) : AgreeUpTo(old, new, k) })

\* Mutants of Reset: segments that begin before the difference are kept; a segment
\* that ends right at the difference is disposed of.
ResetByStart(segs, old, new) ==
  LET kept == MaxOrZero({ i \in DOMAIN segs : segs[i].start <= DiffPos(old, new) })
  IN  IF kept = Len(segs) THEN segs ELSE Forward(SubSeq(segs, 1, kept))
ResetStrict(segs, old, new) ==
  LET kept == MaxOrZero({ i \in DOMAIN segs : segs[i].end < DiffPos(old, new) })
  IN  IF kept = Len(segs) THEN segs ELSE Forward(SubSeq(segs, 1, kept))

\* Segmentation::Reset(new_input): dispose of the segments that have changed.
Reset(segs, old, new) ==
  LET kept == MaxOrZero({ i \in DOMAIN segs : segs[i].end <= DiffPos(old, new) })
  IN  IF kept = Len(segs) THEN segs ELSE Forward(SubSeq(segs, 1, kept))

-----------------------------------------------------------------------------
(* Composition                                                             *)

\* The part of the input that a segment contributes to the commit text ends
\* here: at the end of its selected candidate, or of the raw input.
CommittedEnd(seg) ==
  IF HasSelectedCandidate(seg) THEN SelectedEnd(seg) ELSE seg.end

\* Context::HasMenu()
HasMenu(segs) ==
  /\ segs # <<>>
  /\ Last(segs).menu # NoMenu
  /\ Last(segs).menu.ends # <<>>
=============================================================================
