---------------------------- MODULE EditorProofs ----------------------------
(***************************************************************************)
(* The types of a composition, the tiling of its input by its segments and *)
(* what a composition has reached between two calls are invariant, what    *)
(* the user has selected stays, and Selector finds the segment in which it *)
(* has highlighted a candidate, whatever the alphabet, the segmentors, the *)
(* candidates and the keys.  First, what the operations on segments and    *)
(* segmentations preserve.                                                 *)
(***************************************************************************)
EXTENDS EditorProperties, WellFoundedInduction, TLAPS

\* A segment whose range is in order and whose candidates all end after its start.
Proper(seg) ==
  /\ seg \in SegmentType
  /\ seg.start <= seg.end
  /\ seg.menu # NoMenu =>
       \A k \in DOMAIN seg.menu.ends : seg.menu.ends[k] > seg.start

\* Proper segments, end to end from 0; none but the last is empty.
Chain(segs) ==
  /\ segs \in Seq(SegmentType)
  /\ \A i \in 1 .. Len(segs) :
       /\ Proper(segs[i])
       /\ segs[i].start = IF i = 1 THEN 0 ELSE segs[i - 1].end
       /\ i < Len(segs) => segs[i].start # segs[i].end

\* The segments end at n or before.
Fits(segs, n) == \A i \in 1 .. Len(segs) : segs[i].end <= n

-----------------------------------------------------------------------------
\* A nonempty set of bounded naturals has a largest element, which Max chooses.
LEMMA MaxNat ==
  ASSUME NEW n \in Nat, NEW S \in SUBSET (0 .. n), S # {}
  PROVE  Max(S) \in S /\ \A y \in S : Max(S) >= y
<1> DEFINE T == { n - x : x \in S }
<1>0. \A x \in S : x \in Nat /\ x <= n /\ n - x \in Nat
  OBVIOUS
<1>1. T \subseteq Nat /\ T # {}
  BY <1>0
<1>2. PICK m \in T : \A y \in T : <<y, m>> \notin OpToRel(<, Nat)
  BY <1>1, NatLessThanWellFounded, WFMin, Zenon
<1>3. \A y \in T : ~(y < m)
  BY <1>1, <1>2 DEF OpToRel
<1>4. PICK x \in S : m = n - x
  BY <1>2
<1>5. ASSUME NEW y \in S PROVE x >= y
  <2>1. ~(n - y < n - x)
    BY <1>3, <1>4
  <2>2. x \in Nat /\ y \in Nat
    BY <1>0
  <2> HIDE DEF T
  <2> QED
    BY <2>1, <2>2
<1> QED
  BY <1>5, Zenon DEF Max

\* A nonempty set of naturals has a least element, which Min chooses.
LEMMA MinNat ==
  ASSUME NEW S \in SUBSET Nat, S # {}
  PROVE  Min(S) \in S /\ \A y \in S : Min(S) <= y
<1>1. PICK x \in S : \A y \in S : <<y, x>> \notin OpToRel(<, Nat)
  BY NatLessThanWellFounded, WFMin, Zenon
<1>2. \A y \in S : ~(y < x)
  BY <1>1 DEF OpToRel
<1>3. \A y \in S : x <= y
  BY <1>2
<1> QED
  BY <1>3, Zenon DEF Min

\* MaxOrZero is in range.
LEMMA MaxOrZeroNat ==
  ASSUME NEW n \in Nat, NEW S \in SUBSET (0 .. n)
  PROVE  /\ MaxOrZero(S) \in 0 .. n
         /\ S # {} => MaxOrZero(S) \in S
         /\ \A y \in S : MaxOrZero(S) >= y
<1>1. CASE S = {}
  BY <1>1 DEF MaxOrZero
<1>2. CASE S # {}
  <2>1. MaxOrZero(S) = Max(S)
    BY <1>2, Zenon DEF MaxOrZero
  <2> QED
    BY <2>1, <1>2, MaxNat
<1> QED
  BY <1>1, <1>2

-----------------------------------------------------------------------------
(* Segments                                                                *)

\* A new segment, as the segmentors make them.
LEMMA NewSegment ==
  ASSUME NEW j \in Nat, NEW k \in Nat, j <= k, NEW tags \in SUBSET Tags
  PROVE  /\ Proper(SegmentWithTags(j, k, tags))
         /\ SegmentWithTags(j, k, tags).start = j
         /\ SegmentWithTags(j, k, tags).end = k
BY DEF SegmentWithTags, Segment, Proper, SegmentType, Status, kVoid, kConfirmed

\* The empty segment that Segmentation::Forward appends.
LEMMA EmptySegment ==
  ASSUME NEW j \in Nat
  PROVE  /\ Proper(Segment(j, j))
         /\ Segment(j, j).start = j
         /\ Segment(j, j).end = j
BY DEF Segment, Proper, SegmentType, Status, kVoid, kConfirmed

\* Closing a segment cuts it short at most, and never to nothing.
LEMMA CloseProper ==
  ASSUME NEW seg, Proper(seg)
  PROVE  /\ Proper(Close(seg))
         /\ Close(seg).start = seg.start
         /\ Close(seg).end <= seg.end
         /\ seg.start # seg.end => Close(seg).start # Close(seg).end
<1>1. CASE HasSelectedCandidate(seg) /\ SelectedEnd(seg) < seg.end
  <2>1. /\ seg.menu \in Menu
        /\ seg.selected_index + 1 \in DOMAIN seg.menu.ends
    BY <1>1 DEF Proper, SegmentType, HasSelectedCandidate, Menu
  <2>2. SelectedEnd(seg) \in Nat /\ SelectedEnd(seg) > seg.start
    BY <2>1, <1>1 DEF Proper, SelectedEnd, HasSelectedCandidate, Menu
  <2>3. Close(seg) = [ seg EXCEPT !.end = SelectedEnd(seg),
                                  !.tags = seg.tags \cup {"partial"} ]
    BY <1>1 DEF Close
  <2>4. seg.tags \cup {"partial"} \in SUBSET Tags
    BY DEF Proper, SegmentType, Tags
  <2> DEFINE end == SelectedEnd(seg)
             tags == seg.tags \cup {"partial"}
  <2>5. Close(seg) = [ seg EXCEPT !.end = end, !.tags = tags ]
    BY <2>3
  <2> HIDE DEF end, tags
  <2>6. end \in Nat /\ end > seg.start /\ end < seg.end /\ tags \in SUBSET Tags
    BY <2>2, <2>4, <1>1 DEF end, tags
  <2>7. seg \in SegmentType
    BY DEF Proper
  <2>8. /\ Close(seg) \in SegmentType
        /\ Close(seg).start = seg.start
        /\ Close(seg).end = end
        /\ Close(seg).menu = seg.menu
    BY <2>5, <2>6, <2>7 DEF SegmentType
  <2>9. seg.start \in Nat /\ seg.end \in Nat
    BY <2>7 DEF SegmentType
  <2> QED
    BY <2>6, <2>8, <2>9 DEF Proper
<1>2. CASE ~(HasSelectedCandidate(seg) /\ SelectedEnd(seg) < seg.end)
  BY <1>2 DEF Close, Proper, SegmentType
<1> QED
  BY <1>1, <1>2

\* Reopening a segment leaves it in place.
LEMMA ReopenProper ==
  ASSUME NEW seg, Proper(seg), NEW caret
  PROVE  /\ Proper(Reopen(seg, caret))
         /\ Reopen(seg, caret).start = seg.start
<1> DEFINE whole == [ seg EXCEPT !.status = kGuess,
                                 !.end = seg.start + seg.length,
                                 !.tags = seg.tags \ {"partial"} ]
<1>1. \A status \in Status : /\ Proper([ seg EXCEPT !.status = status ])
                             /\ [ seg EXCEPT !.status = status ].start = seg.start
  BY DEF Proper, SegmentType
<1>2. Proper(whole) /\ whole.start = seg.start
  <2> DEFINE end == seg.start + seg.length
             tags == seg.tags \ {"partial"}
  <2>1. end \in Nat /\ end >= seg.start /\ tags \in SUBSET Tags
    BY DEF Proper, SegmentType
  <2>2. kGuess \in Status
    BY DEF Status, kVoid, kGuess, kConfirmed
  <2>3. whole = [ seg EXCEPT !.status = kGuess, !.end = end, !.tags = tags ]
    OBVIOUS
  <2> HIDE DEF end, tags, whole
  <2> QED
    BY <2>1, <2>2, <2>3 DEF Proper, SegmentType
<1>3. Reopen(seg, caret) \in
        { seg, whole, [ seg EXCEPT !.status = kVoid ], [ seg EXCEPT !.status = kGuess ] }
  BY DEF Reopen
<1>4. kVoid \in Status /\ kGuess \in Status
  BY DEF Status, kVoid, kGuess, kConfirmed
<1> HIDE DEF whole
<1> QED
  BY <1>1, <1>2, <1>3, <1>4

-----------------------------------------------------------------------------
(* Segmentations                                                           *)

\* The last segment of a chain.
LEMMA ChainLast ==
  ASSUME NEW segs, Chain(segs), segs # <<>>
  PROVE  /\ Len(segs) \in Nat /\ Len(segs) >= 1
         /\ Last(segs) = segs[Len(segs)]
         /\ Proper(Last(segs))
         /\ Last(segs).start \in Nat /\ Last(segs).end \in Nat
         /\ Last(segs).start <= Last(segs).end
BY DEF Chain, Last, Proper, SegmentType

\* Any segment of a chain.
LEMMA ChainAt ==
  ASSUME NEW segs, Chain(segs), NEW i \in 1 .. Len(segs)
  PROVE  /\ Proper(segs[i])
         /\ segs[i].start \in Nat /\ segs[i].end \in Nat
         /\ segs[i].start <= segs[i].end
         /\ i = 1 => segs[i].start = 0
         /\ i > 1 => segs[i].start = segs[i - 1].end
         /\ i < Len(segs) => segs[i].start # segs[i].end
<1>1. /\ Proper(segs[i])
      /\ segs[i].start = IF i = 1 THEN 0 ELSE segs[i - 1].end
      /\ i < Len(segs) => segs[i].start # segs[i].end
  BY DEF Chain
<1>2. /\ segs[i].start \in Nat /\ segs[i].end \in Nat
      /\ segs[i].start <= segs[i].end
  BY <1>1 DEF Proper, SegmentType
<1> QED
  BY <1>1, <1>2

\* Segments that change in anything but their ranges are a chain still.
LEMMA SameRanges ==
  ASSUME NEW segs, Chain(segs),
         NEW new \in Seq(SegmentType), Len(new) = Len(segs),
         \A i \in 1 .. Len(segs) : /\ Proper(new[i])
                                   /\ new[i].start = segs[i].start
                                   /\ new[i].end = segs[i].end
  PROVE  /\ Chain(new)
         /\ \A n : Fits(segs, n) => Fits(new, n)
<1>1. Len(segs) \in Nat
  BY DEF Chain
<1>2. ASSUME NEW i \in 1 .. Len(new)
      PROVE  /\ Proper(new[i])
             /\ new[i].start = IF i = 1 THEN 0 ELSE new[i - 1].end
             /\ i < Len(new) => new[i].start # new[i].end
  <2>1. /\ segs[i].start = IF i = 1 THEN 0 ELSE segs[i - 1].end
        /\ i < Len(segs) => segs[i].start # segs[i].end
    BY DEF Chain
  <2>2. i # 1 => new[i - 1].end = segs[i - 1].end
    BY <1>1
  <2> QED
    BY <2>1, <2>2
<1>3. Chain(new)
  BY <1>2 DEF Chain
<1>4. \A n : Fits(segs, n) => Fits(new, n)
  BY DEF Fits
<1> QED
  BY <1>3, <1>4

\* The first k segments.
LEMMA ChainPrefix ==
  ASSUME NEW segs, Chain(segs), NEW k \in 0 .. Len(segs)
  PROVE  /\ Chain(SubSeq(segs, 1, k))
         /\ Len(SubSeq(segs, 1, k)) = k
         /\ \A i \in 1 .. k : SubSeq(segs, 1, k)[i] = segs[i]
         /\ \A n : Fits(segs, n) => Fits(SubSeq(segs, 1, k), n)
<1>1. segs \in Seq(SegmentType)
  BY DEF Chain
<1>2. /\ SubSeq(segs, 1, k) \in Seq(SegmentType)
      /\ Len(SubSeq(segs, 1, k)) = k
      /\ \A i \in 1 .. k : SubSeq(segs, 1, k)[i] = segs[i]
  BY <1>1
<1> DEFINE prefix == SubSeq(segs, 1, k)
<1> HIDE DEF prefix
<1>3. prefix \in Seq(SegmentType) /\ Len(prefix) = k /\ \A i \in 1 .. k : prefix[i] = segs[i]
  BY <1>2 DEF prefix
<1>4. Chain(prefix)
  BY <1>3 DEF Chain
<1>5. \A n : Fits(segs, n) => Fits(prefix, n)
  BY <1>3 DEF Fits
<1> QED
  BY <1>2, <1>4, <1>5 DEF prefix

\* Segmentation::Forward.
LEMMA ForwardChain ==
  ASSUME NEW segs, Chain(segs)
  PROVE  /\ Chain(Forward(segs))
         /\ \A n \in Nat : Fits(segs, n) => Fits(Forward(segs), n)
<1>1. CASE segs = <<>> \/ IsEmptySegment(Last(segs))
  BY <1>1 DEF Forward
<1>2. CASE segs # <<>> /\ ~IsEmptySegment(Last(segs))
  <2> DEFINE new == Segment(Last(segs).end, Last(segs).end)
             longer == Append(segs, new)
  <2>1. Forward(segs) = longer
    BY <1>2 DEF Forward
  <2>2. /\ Proper(new)
        /\ new.start = segs[Len(segs)].end
        /\ new.end = segs[Len(segs)].end
    BY <1>2, ChainLast, EmptySegment
  <2> HIDE DEF new
  <2>3. /\ longer \in Seq(SegmentType)
        /\ Len(longer) = Len(segs) + 1
        /\ longer[Len(segs) + 1] = new
        /\ \A i \in 1 .. Len(segs) : longer[i] = segs[i]
    BY <2>2 DEF Chain, Proper
  <2> HIDE DEF longer
  <2>4. segs[Len(segs)].start # segs[Len(segs)].end /\ Len(segs) \in Nat /\ Len(segs) >= 1
    BY <1>2, ChainLast DEF IsEmptySegment
  <2>5. Chain(longer)
    <3> SUFFICES ASSUME NEW i \in 1 .. Len(longer)
                 PROVE  /\ Proper(longer[i])
                        /\ longer[i].start = IF i = 1 THEN 0 ELSE longer[i - 1].end
                        /\ i < Len(longer) => longer[i].start # longer[i].end
      BY <2>3 DEF Chain
    <3>1. CASE i = Len(segs) + 1
      BY <3>1, <2>2, <2>3, <2>4
    <3>2. CASE i \in 1 .. Len(segs)
      BY <3>2, <2>3, <2>4 DEF Chain
    <3> QED
      BY <3>1, <3>2, <2>3, <2>4
  <2>6. \A n \in Nat : Fits(segs, n) => Fits(longer, n)
    BY <2>2, <2>3, <2>4 DEF Fits
  <2> QED
    BY <2>1, <2>5, <2>6
<1> QED
  BY <1>1, <1>2

\* The last segment may be replaced by one that starts where it does.
LEMMA SetBackChain ==
  ASSUME NEW segs, Chain(segs), segs # <<>>,
         NEW seg, Proper(seg), seg.start = Last(segs).start
  PROVE  /\ Chain(SetBack(segs, seg))
         /\ SetBack(segs, seg) # <<>>
         /\ Last(SetBack(segs, seg)) = seg
         /\ \A n : Fits(segs, n) /\ seg.end <= n => Fits(SetBack(segs, seg), n)
<1> DEFINE new == SetBack(segs, seg)
<1>1. Len(segs) \in Nat /\ Len(segs) >= 1 /\ Last(segs) = segs[Len(segs)]
  BY ChainLast
<1>2. /\ Front(segs) \in Seq(SegmentType)
      /\ Len(Front(segs)) = Len(segs) - 1
      /\ \A i \in 1 .. Len(segs) - 1 : Front(segs)[i] = segs[i]
  BY <1>1, ChainPrefix, Len(segs) - 1 \in 0 .. Len(segs) DEF Front, Chain
<1>3. /\ new \in Seq(SegmentType)
      /\ Len(new) = Len(segs)
      /\ new[Len(segs)] = seg
      /\ \A i \in 1 .. Len(segs) - 1 : new[i] = segs[i]
  <2> DEFINE front == Front(segs)
  <2> HIDE DEF front
  <2>1. new = Append(front, seg)
    BY DEF front, SetBack
  <2>2. seg \in SegmentType
    BY DEF Proper
  <2> HIDE DEF new
  <2> QED
    BY <1>1, <1>2, <2>1, <2>2 DEF front
<1> HIDE DEF new
<1>4. Chain(new)
  <2> SUFFICES ASSUME NEW i \in 1 .. Len(new)
               PROVE  /\ Proper(new[i])
                      /\ new[i].start = IF i = 1 THEN 0 ELSE new[i - 1].end
                      /\ i < Len(new) => new[i].start # new[i].end
    BY <1>3 DEF Chain
  <2>1. CASE i = Len(segs)
    <3>1. segs[i].start = IF i = 1 THEN 0 ELSE segs[i - 1].end
      BY <2>1, <1>1 DEF Chain
    <3>2. i # 1 => new[i - 1] = segs[i - 1]
      BY <2>1, <1>1, <1>3
    <3>3. new[i] = seg /\ seg.start = segs[i].start
      BY <2>1, <1>1, <1>3
    <3> QED
      BY <3>1, <3>2, <3>3, <2>1, <1>3
  <2>2. CASE i \in 1 .. Len(segs) - 1
    BY <2>2, <1>1, <1>3 DEF Chain
  <2> QED
    BY <2>1, <2>2, <1>1, <1>3
<1>5. \A n : Fits(segs, n) /\ seg.end <= n => Fits(new, n)
  BY <1>1, <1>3 DEF Fits
<1>6. new # <<>> /\ Last(new) = seg
  BY <1>1, <1>3 DEF Last
<1> QED
  BY <1>4, <1>5, <1>6 DEF new

\* Segmentation::Trim.
LEMMA TrimChain ==
  ASSUME NEW segs, Chain(segs)
  PROVE  /\ Chain(Trim(segs))
         /\ \A n : Fits(segs, n) => Fits(Trim(segs), n)
<1>1. CASE CanTrim(segs)
  <2>1. Len(segs) - 1 \in 0 .. Len(segs)
    BY <1>1, ChainLast DEF CanTrim
  <2>2. Trim(segs) = SubSeq(segs, 1, Len(segs) - 1)
    BY <1>1 DEF Trim, Front
  <2> QED
    BY <2>1, <2>2, ChainPrefix
<1>2. CASE ~CanTrim(segs)
  BY <1>2 DEF Trim
<1> QED
  BY <1>1, <1>2

\* After a trailing empty segment is gone, the next one begins where it was.
LEMMA TrimmedEnd ==
  ASSUME NEW segs, Chain(segs), GetCurrentSegmentLength(segs) = 0
  PROVE  /\ Trim(segs) = <<>> => GetCurrentStartPosition(segs) = 0
         /\ Trim(segs) # <<>> =>
              /\ Last(Trim(segs)).end = GetCurrentStartPosition(segs)
              /\ ~IsEmptySegment(Last(Trim(segs)))
<1>1. CASE segs = <<>>
  BY <1>1 DEF Trim, CanTrim, GetCurrentStartPosition
<1>2. CASE segs # <<>>
  <2>1. CanTrim(segs)
    BY <1>2, ChainLast DEF GetCurrentSegmentLength, GetCurrentStartPosition,
       GetCurrentEndPosition, CanTrim, IsEmptySegment
  <2>2. Len(segs) \in Nat /\ Len(segs) >= 1 /\ Last(segs) = segs[Len(segs)]
    BY <1>2, ChainLast
  <2> DEFINE k == Len(segs) - 1
             front == SubSeq(segs, 1, k)
  <2>3. Trim(segs) = front
    BY <2>1 DEF Trim, Front
  <2>9. k \in 0 .. Len(segs) /\ k = Len(segs) - 1
    BY <2>2
  <2> HIDE DEF k
  <2>4. Len(front) = k /\ \A i \in 1 .. k : front[i] = segs[i]
    BY <2>9, ChainPrefix
  <2> HIDE DEF front
  <2>5. GetCurrentStartPosition(segs) = segs[Len(segs)].start
    BY <1>2, <2>2 DEF GetCurrentStartPosition
  <2>6. CASE k = 0
    <3>1. segs[1].start = 0 /\ Len(segs) = 1
      BY <2>6, <2>2, <2>9 DEF Chain
    <3>2. front = <<>>
      BY <2>6 DEF front
    <3> QED
      BY <3>1, <3>2, <2>3, <2>5
  <2>7. CASE k > 0
    <3>1. front # <<>> /\ Last(front) = segs[k]
      BY <2>7, <2>2, <2>4, <2>9 DEF Last
    <3>2. /\ segs[Len(segs)].start = segs[k].end
          /\ segs[k].start # segs[k].end
      BY <2>7, <2>2, <2>9 DEF Chain
    <3> QED
      BY <3>1, <3>2, <2>3, <2>5 DEF IsEmptySegment
  <2>8. k = 0 \/ k > 0
    BY <2>2, <2>9
  <2> QED
    BY <2>6, <2>7, <2>8
<1> QED
  BY <1>1, <1>2

\* A segment that is added begins where the last one does.
LEMMA AddSegmentChain ==
  ASSUME NEW segs, Chain(segs), NEW seg, Proper(seg)
  PROVE  /\ Chain(AddSegment(segs, seg))
         /\ \A n : Fits(segs, n) /\ seg.end <= n => Fits(AddSegment(segs, seg), n)
<1>1. CASE seg.start # GetCurrentStartPosition(segs)
  BY <1>1 DEF AddSegment
<1>2. CASE seg.start = GetCurrentStartPosition(segs) /\ segs = <<>>
  <2>1. AddSegment(segs, seg) = <<seg>> /\ seg.start = 0
    BY <1>2 DEF AddSegment, GetCurrentStartPosition
  <2> QED
    BY <2>1 DEF Chain, Fits, Proper
<1>3. CASE seg.start = GetCurrentStartPosition(segs) /\ segs # <<>>
  <2> DEFINE merged == [ Last(segs) EXCEPT !.tags = @ \cup seg.tags ]
  <2>1. seg.start = Last(segs).start
    BY <1>3 DEF GetCurrentStartPosition
  <2>2. Proper(Last(segs)) /\ Last(segs) = segs[Len(segs)] /\ Len(segs) \in Nat /\ Len(segs) >= 1
    BY <1>3, ChainLast
  <2>3. Proper(merged) /\ merged.start = Last(segs).start /\ merged.end = Last(segs).end
    BY <2>2 DEF Proper, SegmentType
  <2>4. AddSegment(segs, seg) \in { segs, SetBack(segs, seg), SetBack(segs, merged) }
    BY <1>3 DEF AddSegment
  <2> HIDE DEF merged
  <2>5. \A n : Fits(segs, n) => Last(segs).end <= n
    BY <2>2 DEF Fits
  <2> QED
    BY <1>3, <2>1, <2>3, <2>4, <2>5, SetBackChain
<1> QED
  BY <1>1, <1>2, <1>3

-----------------------------------------------------------------------------
(* Segmentation::Reset                                                     *)

\* The common prefix is not longer than either text.
LEMMA DiffPosBound ==
  ASSUME NEW S, NEW old \in Seq(S), NEW new \in Seq(S)
  PROVE  /\ DiffPos(old, new) \in 0 .. Len(old)
         /\ DiffPos(old, new) <= Len(new)
         /\ \A i \in 1 .. DiffPos(old, new) : old[i] = new[i]
<1> DEFINE agree == { k \in 0 .. Len(old) : AgreeUpTo(old, new, k) }
<1>1. 0 \in agree
  BY DEF AgreeUpTo
<1>2. agree \in SUBSET (0 .. Len(old)) /\ agree # {} /\ Len(old) \in Nat
  BY <1>1
<1>3. Max(agree) \in agree
  BY <1>2, MaxNat
<1>4. DiffPos(old, new) = Max(agree)
  BY DEF DiffPos
<1> QED
  BY <1>3, <1>4 DEF AgreeUpTo

\* The segments that Reset keeps lie before the difference: were one of them to
\* end after it, so would the next one, up to the last that is kept.
LEMMA ResetChain ==
  ASSUME NEW segs, Chain(segs),
         NEW S, NEW old \in Seq(S), NEW new \in Seq(S)
  PROVE  Chain(Reset(segs, old, new)) /\ Fits(Reset(segs, old, new), Len(new))
<1> DEFINE d      == DiffPos(old, new)
           below  == { i \in DOMAIN segs : segs[i].end <= d }
           kept   == MaxOrZero(below)
           prefix == SubSeq(segs, 1, kept)
<1>1. d \in Nat /\ d <= Len(new) /\ Len(new) \in Nat
  BY DiffPosBound
<1>2. Len(segs) \in Nat /\ DOMAIN segs = 1 .. Len(segs)
  BY DEF Chain
<1>3. below \in SUBSET (0 .. Len(segs))
  BY <1>2
<1> HIDE DEF d
<1>4. /\ kept \in 0 .. Len(segs)
      /\ kept # 0 => segs[kept].end <= d
  <2>1. kept \in 0 .. Len(segs) /\ (below # {} => kept \in below)
    <3> HIDE DEF below
    <3> QED
      BY <1>2, <1>3, MaxOrZeroNat
  <2>2. below = {} => kept = 0
    BY Zenon DEF MaxOrZero
  <2> HIDE DEF kept
  <2> QED
    BY <2>1, <2>2
<1> HIDE DEF kept, below
<1>5. \A i \in 1 .. Len(segs) :
        /\ segs[i].start \in Nat /\ segs[i].end \in Nat
        /\ segs[i].start <= segs[i].end
        /\ i > 1 => segs[i].start = segs[i - 1].end
  BY ChainAt
<1>6. Fits(prefix, d)
  <2> DEFINE beyond == { i \in 1 .. kept : segs[i].end > d }
  <2>1. SUFFICES ASSUME beyond # {} PROVE FALSE
    <3>1. Len(prefix) = kept /\ \A i \in 1 .. kept : prefix[i] = segs[i]
      BY <1>4, ChainPrefix
    <3> HIDE DEF prefix
    <3> QED
      BY <1>1, <1>2, <1>4, <1>5, <3>1 DEF Fits
  <2>2. beyond \in SUBSET (0 .. Len(segs))
    BY <1>4, <1>2
  <2>3. Max(beyond) \in beyond /\ \A i \in beyond : Max(beyond) >= i
    BY <2>1, <2>2, <1>2, MaxNat
  <2> DEFINE i == Max(beyond)
  <2> HIDE DEF i
  <2>4. i \in 1 .. kept /\ segs[i].end > d /\ i + 1 \notin beyond
    BY <2>3, <1>4, <1>2 DEF i
  <2>5. i # kept
    BY <2>4, <1>1, <1>2, <1>4, <1>5
  <2>6. i + 1 \in 1 .. kept /\ segs[i + 1].end <= d
    BY <2>4, <2>5, <1>1, <1>2, <1>4, <1>5
  <2>7. segs[i + 1].start = segs[i].end /\ segs[i + 1].start <= segs[i + 1].end
    BY <2>4, <2>6, <1>2, <1>4, <1>5
  <2> QED
    BY <2>4, <2>6, <2>7, <1>1, <1>2, <1>4, <1>5
<1>7. Chain(prefix)
  BY <1>4, ChainPrefix
<1>8. Reset(segs, old, new) = IF kept = Len(segs) THEN segs ELSE Forward(prefix)
  BY DEF Reset, kept, below, d
<1>9. kept = Len(segs) => prefix = segs
  BY <1>2 DEF Chain
<1>10. Fits(prefix, Len(new))
  <2>1. Chain(prefix) => \A i \in 1 .. Len(prefix) : prefix[i].end \in Nat
    BY DEF Chain, Proper, SegmentType
  <2> HIDE DEF prefix
  <2> QED
    BY <1>1, <1>6, <1>7, <2>1 DEF Fits
<1> QED
  BY <1>1, <1>7, <1>8, <1>9, <1>10, ForwardChain

-----------------------------------------------------------------------------
(* The composition *)

\* The inductive invariant, but for the options: the segments are a chain that
\* fits the text they divide.  That candidates end after the start of their segment
\* (in Chain) is what keeps a segment in order when a selection cuts it short.
CompositionInv ==
  /\ input \in Seq(Chars)
  /\ caret_pos \in 0 .. Len(input)
  /\ comp_input \in Seq(Chars)
  /\ Chain(composition)
  /\ Fits(composition, Len(comp_input))
  /\ pc \in ProgramPoint
  /\ start_pos \in Nat
  /\ next_segmentor \in 1 .. Len(Segmentors) + 1
  /\ then \in Continuation

OptionsInv == options \in [OptionNames -> BOOLEAN]

IInv == CompositionInv /\ OptionsInv

-----------------------------------------------------------------------------
\* A session starts with an empty composition.
LEMMA InitIInv == Init => IInv
BY SegmentorsAssumption
   DEF Init, IInv, CompositionInv, OptionsInv, Chain, Fits, ProgramPoint, Continuation

\* Composing restores the invariant from any chain of segments, for it drops those
\* that do not fit the new text.
LEMMA ComposeStep ==
  ASSUME CompositionInv,
         NEW text \in Seq(Chars), NEW caret \in 0 .. Len(text),
         NEW segs, Chain(segs), NEW k \in Continuation,
         Compose(text, caret, segs, k)
  PROVE  CompositionInv'
<1> DEFINE active_input == SubSeq(text, 1, caret)
           active       == Reset(segs, comp_input, active_input)
<1>1. active_input \in Seq(Chars)
  OBVIOUS
<1>2. comp_input \in Seq(Chars)
  BY DEF CompositionInv
<1>3. Chain(active) /\ Fits(active, Len(active_input))
  BY <1>1, <1>2, ResetChain
<1>4. /\ Chain(Reset(active, active_input, text))
      /\ Fits(Reset(active, active_input, text), Len(text))
  BY <1>1, <1>3, ResetChain
<1>5. \/ composition' = active /\ comp_input' = active_input
      \/ composition' = Reset(active, active_input, text) /\ comp_input' = text
  BY DEF Compose
<1>6. /\ input' = text /\ caret_pos' = caret
      /\ pc' = "rounds" /\ then' = k
      /\ UNCHANGED <<start_pos, next_segmentor>>
  BY DEF Compose
<1> HIDE DEF active, active_input
<1>7. Chain(composition') /\ Fits(composition', Len(comp_input')) /\ comp_input' \in Seq(Chars)
  BY <1>1, <1>3, <1>4, <1>5
<1>8. /\ Chain(composition)' = Chain(composition')
      /\ Fits(composition, Len(comp_input))' = Fits(composition', Len(comp_input'))
  BY DEF Chain, Fits
<1> QED
  BY <1>6, <1>7, <1>8 DEF CompositionInv, ProgramPoint

\* Segments that fit the text may replace the composition.
LEMMA EditStep ==
  ASSUME CompositionInv,
         NEW segs, Chain(segs), Fits(segs, Len(comp_input)), NEW k \in Continuation,
         Edit(segs, k)
  PROVE  CompositionInv'
<1>1. /\ composition' = segs /\ comp_input' = comp_input
      /\ then' = k /\ pc' \in ProgramPoint
      /\ UNCHANGED <<input, caret_pos, start_pos, next_segmentor>>
  BY DEF Edit, Return, ProgramPoint
<1>2. Chain(composition') /\ Fits(composition', Len(comp_input'))
  BY <1>1
<1> QED
  BY <1>1, <1>2 DEF CompositionInv, Chain, Fits, Proper

\* A call that changes nothing.
LEMMA StayStep ==
  ASSUME CompositionInv, NEW k \in Continuation, Stay(k)
  PROVE  CompositionInv'
<1>1. Edit(composition, k)
  BY DEF Stay, Edit
<1> QED
  BY <1>1, EditStep DEF CompositionInv

-----------------------------------------------------------------------------
(* The operations of the context                                           *)

\* Context::Clear.
LEMMA ClearStep ==
  ASSUME CompositionInv, NEW k \in Continuation, Clear(k)
  PROVE  CompositionInv'
<1>1. Chain(<<>>) /\ <<>> \in Seq(Chars) /\ 0 \in 0 .. Len(<<>>)
  BY DEF Chain
<1>2. Compose(<<>>, 0, <<>>, k)
  BY DEF Clear
<1> QED
  BY <1>1, <1>2, ComposeStep

\* Context::Commit.
LEMMA CommitStep ==
  ASSUME CompositionInv, NEW k \in Continuation, Commit(k)
  PROVE  CompositionInv'
BY ClearStep, StayStep DEF Commit

\* The concatenation of two texts.
LEMMA ConcatText ==
  ASSUME NEW s \in Seq(Chars), NEW t \in Seq(Chars)
  PROVE  s \o t \in Seq(Chars) /\ Len(s \o t) = Len(s) + Len(t)
OBVIOUS

\* The two parts of a text that is cut at p.
LEMMA CutText ==
  ASSUME NEW text \in Seq(Chars), NEW p \in 0 .. Len(text)
  PROVE  /\ SubSeq(text, 1, p) \in Seq(Chars)
         /\ Len(SubSeq(text, 1, p)) = p
         /\ SubSeq(text, p + 1, Len(text)) \in Seq(Chars)
         /\ Len(SubSeq(text, p + 1, Len(text))) \in Nat
<1>1. SubSeq(text, 1, p) \in Seq(Chars) /\ Len(SubSeq(text, 1, p)) = p
  OBVIOUS
<1>2. SubSeq(text, p + 1, Len(text)) \in Seq(Chars)
  OBVIOUS
<1>3. Len(SubSeq(text, p + 1, Len(text))) \in Nat
  BY <1>2
<1> QED
  BY <1>1, <1>2, <1>3

\* Context::PushInput puts the character at the caret.
LEMMA PushInputStep ==
  ASSUME CompositionInv, NEW ch \in Chars, NEW k \in Continuation, PushInput(ch, k)
  PROVE  CompositionInv'
<1> DEFINE text == InsertAt(input, caret_pos + 1, ch)
<1>1. input \in Seq(Chars) /\ caret_pos \in 0 .. Len(input) /\ Len(input) \in Nat
  BY DEF CompositionInv
<1> DEFINE left  == SubSeq(input, 1, caret_pos)
           right == SubSeq(input, caret_pos + 1, Len(input))
<1>2. text = left \o <<ch>> \o right
  <2>1. (caret_pos + 1) - 1 = caret_pos
    BY <1>1
  <2> QED
    BY <2>1, Zenon DEF InsertAt
<1>3. /\ left \in Seq(Chars) /\ Len(left) = caret_pos
      /\ right \in Seq(Chars) /\ Len(right) \in Nat
  BY <1>1, CutText
<1> HIDE DEF left, right, text
<1>6. <<ch>> \in Seq(Chars) /\ Len(<<ch>>) = 1
  OBVIOUS
<1>7. left \o <<ch>> \in Seq(Chars) /\ Len(left \o <<ch>>) = caret_pos + 1
  BY <1>3, <1>6, ConcatText
<1>4. text \in Seq(Chars) /\ caret_pos + 1 \in 0 .. Len(text)
  <2>1. text \in Seq(Chars) /\ Len(text) = caret_pos + 1 + Len(right)
    BY <1>2, <1>3, <1>7, ConcatText
  <2> QED
    BY <2>1, <1>1, <1>3
<1>5. Compose(text, caret_pos + 1, composition, k)
  BY DEF PushInput, text
<1> QED
  BY <1>4, <1>5, ComposeStep DEF CompositionInv

\* Erasing from p to q leaves a text that still reaches p.
LEMMA EraseText ==
  ASSUME NEW text \in Seq(Chars),
         NEW q \in 0 .. Len(text), NEW p \in 0 .. q
  PROVE  Erase(text, p, q) \in Seq(Chars) /\ p \in 0 .. Len(Erase(text, p, q))
<1> DEFINE left  == SubSeq(text, 1, p)
           right == SubSeq(text, q + 1, Len(text))
<1>1. p \in 0 .. Len(text) /\ p \in Nat
  OBVIOUS
<1>2. /\ left \in Seq(Chars) /\ Len(left) = p
      /\ right \in Seq(Chars) /\ Len(right) \in Nat
  BY <1>1, CutText
<1>3. Erase(text, p, q) = left \o right
  BY DEF Erase
<1> HIDE DEF left, right
<1>4. left \o right \in Seq(Chars) /\ Len(left \o right) = p + Len(right)
  BY <1>2, ConcatText
<1> QED
  BY <1>1, <1>2, <1>3, <1>4

\* Context::PopInput: the guard keeps the caret from going below 0.
LEMMA PopInputStep ==
  ASSUME CompositionInv, NEW len \in Nat, NEW k \in Continuation, PopInput(len, k)
  PROVE  CompositionInv'
<1>1. /\ input \in Seq(Chars) /\ caret_pos \in 0 .. Len(input)
      /\ caret_pos - len \in 0 .. caret_pos
  BY DEF CompositionInv, PopInput, CanPopInput
<1>2. Compose(Erase(input, caret_pos - len, caret_pos), caret_pos - len, composition, k)
  BY DEF PopInput
<1> QED
  BY <1>1, <1>2, EraseText, ComposeStep DEF CompositionInv

\* Context::DeleteInput: the guard keeps the range inside the input.
LEMMA DeleteInputStep ==
  ASSUME CompositionInv, NEW len \in Nat, NEW k \in Continuation, DeleteInput(len, k)
  PROVE  CompositionInv'
<1>1. /\ input \in Seq(Chars) /\ caret_pos \in 0 .. caret_pos + len
      /\ caret_pos + len \in 0 .. Len(input)
  BY DEF CompositionInv, DeleteInput, CanDeleteInput
<1>2. Compose(Erase(input, caret_pos, caret_pos + len), caret_pos, composition, k)
  BY DEF DeleteInput
<1> QED
  BY <1>1, <1>2, EraseText, ComposeStep DEF CompositionInv

\* Context::set_input.
LEMMA SetInputStep ==
  ASSUME CompositionInv, NEW text \in Seq(Chars), NEW k \in Continuation,
         set_input(text, k)
  PROVE  CompositionInv'
<1>1. Compose(text, Len(text), composition, k) /\ Len(text) \in 0 .. Len(text)
  BY DEF set_input
<1> QED
  BY <1>1, ComposeStep DEF CompositionInv

\* Context::set_caret_pos clamps the position.
LEMMA SetCaretPosStep ==
  ASSUME CompositionInv, NEW p \in Nat, NEW k \in Continuation, set_caret_pos(p, k)
  PROVE  CompositionInv'
<1> DEFINE caret == IF p > Len(input) THEN Len(input) ELSE p
<1>1. input \in Seq(Chars) /\ caret \in 0 .. Len(input)
  BY DEF CompositionInv
<1>2. Compose(input, caret, composition, k)
  BY DEF set_caret_pos
<1> HIDE DEF caret
<1> QED
  BY <1>1, <1>2, ComposeStep DEF CompositionInv

\* Selecting: the last segment is cut short at most.
LEMMA OnSelectStep ==
  ASSUME CompositionInv, NEW segs, Chain(segs), segs # <<>>,
         Fits(segs, Len(comp_input)), NEW k \in Continuation, OnSelect(segs, k)
  PROVE  CompositionInv'
<1> DEFINE seg       == Close(Last(segs))
           confirmed == [ seg EXCEPT !.status = kConfirmed ]
           caret     == IF seg.end >= caret_pos THEN Len(input) ELSE caret_pos
<1>1. Proper(Last(segs)) /\ Last(segs).end <= Len(comp_input)
  BY ChainLast DEF Fits
<1>2. Proper(seg) /\ seg.start = Last(segs).start /\ seg.end <= Last(segs).end
  BY <1>1, CloseProper
<1>3. /\ seg \in SegmentType /\ Last(segs).end \in Nat
      /\ Len(comp_input) \in Nat /\ kConfirmed \in Status
  BY <1>1, <1>2 DEF Proper, SegmentType, CompositionInv, Status, kVoid, kConfirmed
<1>4. \/ Clear(k)
      \/ Edit(Forward(SetBack(segs, confirmed)), k)
      \/ Compose(input, caret, Forward(SetBack(segs, seg)), k)
  BY DEF OnSelect
<1>5. caret \in 0 .. Len(input) /\ input \in Seq(Chars)
  BY DEF CompositionInv
<1> HIDE DEF seg, caret
<1>6. Proper(confirmed) /\ confirmed.start = seg.start /\ confirmed.end = seg.end
  BY <1>2, <1>3 DEF Proper, SegmentType
<1>7. seg.end <= Len(comp_input)
  BY <1>1, <1>2, <1>3 DEF SegmentType
<1> HIDE DEF confirmed
<1>8. /\ Chain(SetBack(segs, confirmed)) /\ Fits(SetBack(segs, confirmed), Len(comp_input))
      /\ Chain(SetBack(segs, seg))
  BY <1>2, <1>6, <1>7, SetBackChain
<1> QED
  BY <1>3, <1>4, <1>5, <1>8, ForwardChain, ClearStep, EditStep, ComposeStep

\* The last segment may be given any status, selected candidate and tags.
LEMMA AdjustBack ==
  ASSUME CompositionInv, composition # <<>>, NEW seg \in SegmentType,
         \A field \in {"start", "end", "menu"} : seg[field] = Last(composition)[field]
  PROVE  /\ Chain(SetBack(composition, seg))
         /\ SetBack(composition, seg) # <<>>
         /\ Fits(SetBack(composition, seg), Len(comp_input))
<1>1. Proper(Last(composition)) /\ Last(composition).end <= Len(comp_input)
  BY ChainLast DEF Fits, CompositionInv
<1>2. /\ seg.start = Last(composition).start
      /\ seg.end = Last(composition).end
      /\ seg.menu = Last(composition).menu
  OBVIOUS
<1>3. Proper(seg)
  BY <1>1, <1>2 DEF Proper
<1> QED
  BY <1>1, <1>2, <1>3, SetBackChain DEF CompositionInv

\* The last segment has its type.
LEMMA BackType ==
  ASSUME CompositionInv, composition # <<>>
  PROVE  Last(composition) \in SegmentType
BY ChainLast DEF CompositionInv, Proper

\* Context::Select.
LEMMA SelectStep ==
  ASSUME CompositionInv, NEW index \in Nat, NEW k \in Continuation, Select(index, k)
  PROVE  CompositionInv'
<1> DEFINE seg == [ Last(composition) EXCEPT !.selected_index = index,
                                             !.status = kSelected ]
<1>1. composition # <<>> /\ OnSelect(SetBack(composition, seg), k)
  BY DEF Select, CanSelect
<1>2. kSelected \in Status
  BY DEF Status, kVoid, kSelected, kConfirmed
<1>3. /\ seg \in SegmentType
      /\ \A field \in {"start", "end", "menu"} : seg[field] = Last(composition)[field]
  BY <1>1, <1>2, BackType DEF SegmentType
<1> HIDE DEF seg
<1> QED
  BY <1>1, <1>3, AdjustBack, OnSelectStep

\* Context::ConfirmCurrentSelection.
LEMMA ConfirmStep ==
  ASSUME CompositionInv, NEW k \in Continuation, ConfirmCurrentSelection(k)
  PROVE  CompositionInv'
<1> DEFINE seg == [ Last(composition) EXCEPT !.status = kSelected ]
<1>1. composition # <<>> /\ OnSelect(SetBack(composition, seg), k)
  BY DEF ConfirmCurrentSelection, CanConfirm, SelectBack
<1>2. kSelected \in Status
  BY DEF Status, kVoid, kSelected, kConfirmed
<1>3. /\ seg \in SegmentType
      /\ \A field \in {"start", "end", "menu"} : seg[field] = Last(composition)[field]
  BY <1>1, <1>2, BackType DEF SegmentType
<1> HIDE DEF seg
<1> QED
  BY <1>1, <1>3, AdjustBack, OnSelectStep

\* Context::Highlight.
LEMMA HighlightStep ==
  ASSUME CompositionInv, NEW index \in Nat, NEW k \in Continuation, Highlight(index, k)
  PROVE  CompositionInv'
<1> DEFINE seg == [ Last(composition) EXCEPT !.selected_index = HighlightIndex(index) ]
<1>1. /\ composition # <<>> /\ Last(composition).menu # NoMenu
      /\ Compose(input, caret_pos, SetBack(composition, seg), k)
  BY DEF Highlight, CanHighlight
<1>2. Last(composition) \in SegmentType /\ Last(composition).menu \in Menu
  BY <1>1, BackType DEF SegmentType
<1>3. HighlightIndex(index) \in Nat
  BY <1>2 DEF HighlightIndex, Menu
<1>4. /\ seg \in SegmentType
      /\ \A field \in {"start", "end", "menu"} : seg[field] = Last(composition)[field]
  BY <1>2, <1>3 DEF SegmentType
<1> HIDE DEF seg
<1> QED
  BY <1>1, <1>4, AdjustBack, ComposeStep DEF CompositionInv

\* The index of the segment that BeginEditing marks and RevertLastEdit reopens.
LEMMA LastSelectedIndex ==
  ASSUME CompositionInv
  PROVE  LastSelected \in 0 .. Len(composition)
<1> DEFINE selected == { i \in DOMAIN composition : composition[i].status >= kSelected }
<1>1. Len(composition) \in Nat /\ DOMAIN composition = 1 .. Len(composition)
  BY DEF CompositionInv, Chain
<1>2. selected \in SUBSET (0 .. Len(composition))
  BY <1>1
<1>3. selected # {} => Max(selected) \in 0 .. Len(composition)
  <2> HIDE DEF selected
  <2> QED
    BY <1>1, <1>2, MaxNat
<1>4. LastSelected = 0 \/ (selected # {} /\ LastSelected = Max(selected))
  BY Zenon DEF LastSelected
<1> HIDE DEF selected
<1> QED
  BY <1>1, <1>3, <1>4

\* Marking a selection changes its tags only.
LEMMA EditedChain ==
  ASSUME CompositionInv
  PROVE  Chain(Edited) /\ Fits(Edited, Len(comp_input))
<1> DEFINE marked(seg) == [ seg EXCEPT !.tags = @ \cup {"selected_before_editing"} ]
<1>1. \A seg : Proper(seg) => /\ Proper(marked(seg))
                            /\ marked(seg).start = seg.start
                            /\ marked(seg).end = seg.end
  BY DEF Proper, SegmentType, Tags
<1>2. /\ composition \in Seq(SegmentType)
      /\ DOMAIN composition = 1 .. Len(composition) /\ Len(composition) \in Nat
  BY DEF CompositionInv, Chain
<1>3. \A i \in 1 .. Len(composition) : Edited[i] \in {composition[i], marked(composition[i])}
  BY <1>2 DEF Edited
<1> HIDE DEF marked
<1>4. \A i \in 1 .. Len(composition) : /\ Proper(Edited[i])
                                       /\ Edited[i].start = composition[i].start
                                       /\ Edited[i].end = composition[i].end
  BY <1>1, <1>2, <1>3 DEF CompositionInv, Chain
<1>5. Edited \in Seq(SegmentType) /\ Len(Edited) = Len(composition)
  <2>1. Edited \in [1 .. Len(composition) -> SegmentType]
    BY <1>2, <1>4 DEF Edited, Proper
  <2>2. Edited \in Seq(SegmentType)
    BY <1>2, <2>1
  <2> QED
    BY <1>2, <2>1, <2>2
<1>6. Chain(composition) /\ Fits(composition, Len(comp_input))
  BY DEF CompositionInv
<1> DEFINE marks == Edited
<1>7. /\ marks \in Seq(SegmentType) /\ Len(marks) = Len(composition)
      /\ \A i \in 1 .. Len(composition) : /\ Proper(marks[i])
                                          /\ marks[i].start = composition[i].start
                                          /\ marks[i].end = composition[i].end
  BY <1>4, <1>5
<1> HIDE DEF marks
<1>8. Chain(marks) /\ Fits(marks, Len(comp_input))
  BY <1>6, <1>7, SameRanges
<1> QED
  BY <1>8 DEF marks

\* Context::BeginEditing.
LEMMA BeginEditingStep ==
  ASSUME CompositionInv, NEW k \in Continuation, BeginEditing(k)
  PROVE  CompositionInv'
BY EditedChain, EditStep DEF BeginEditing

\* Reopening the last of any segments.
LEMMA ReopenBackChain ==
  ASSUME NEW segs, Chain(segs)
  PROVE  Chain(ReopenBack(segs))
BY ChainLast, ReopenProper, SetBackChain DEF ReopenBack

\* Context::ReopenPreviousSegment.
LEMMA ReopenPreviousSegmentStep ==
  ASSUME CompositionInv, NEW k \in Continuation, ReopenPreviousSegment(k)
  PROVE  CompositionInv'
<1>1. Chain(ReopenBack(Trim(composition)))
  BY TrimChain, ReopenBackChain DEF CompositionInv
<1>2. Compose(input, caret_pos, ReopenBack(Trim(composition)), k)
  BY DEF ReopenPreviousSegment
<1> QED
  BY <1>1, <1>2, ComposeStep DEF CompositionInv

\* Context::ReopenPreviousSelection.
LEMMA ReopenPreviousSelectionStep ==
  ASSUME CompositionInv, NEW k \in Continuation, ReopenPreviousSelection(k)
  PROVE  CompositionInv'
<1>1. Chain(ReopenBack(SubSeq(composition, 1, LastSelected)))
  BY LastSelectedIndex, ChainPrefix, ReopenBackChain DEF CompositionInv
<1>2. Compose(input, caret_pos, ReopenBack(SubSeq(composition, 1, LastSelected)), k)
  BY DEF ReopenPreviousSelection
<1> QED
  BY <1>1, <1>2, ComposeStep DEF CompositionInv

\* Context::ClearPreviousSegment cuts the input inside it.
LEMMA ClearPreviousSegmentStep ==
  ASSUME CompositionInv, NEW k \in Continuation, ClearPreviousSegment(k)
  PROVE  CompositionInv'
<1>1. /\ input \in Seq(Chars) /\ Len(input) \in Nat
      /\ composition # <<>> /\ Last(composition).start < Len(input)
      /\ set_input(SubSeq(input, 1, Last(composition).start), k)
  BY DEF CompositionInv, ClearPreviousSegment, CanClearPreviousSegment
<1>2. Last(composition).start \in Nat
  BY <1>1, ChainLast DEF CompositionInv
<1>3. SubSeq(input, 1, Last(composition).start) \in Seq(Chars)
  BY <1>1, <1>2, CutText
<1> QED
  BY <1>1, <1>3, SetInputStep

\* What ClearNonConfirmedComposition leaves.
LEMMA ConfirmedChain ==
  ASSUME CompositionInv
  PROVE  Chain(Confirmed)
<1> DEFINE selected == { i \in DOMAIN composition : composition[i].status >= kSelected }
           n == MaxOrZero(selected)
<1>1. /\ Chain(composition)
      /\ Len(composition) \in Nat /\ DOMAIN composition = 1 .. Len(composition)
  BY DEF CompositionInv, Chain
<1>2. selected \in SUBSET (0 .. Len(composition))
  BY <1>1
<1>3. n \in 0 .. Len(composition)
  <2> HIDE DEF selected
  <2> QED
    BY <1>1, <1>2, MaxOrZeroNat
<1>4. Confirmed \in { composition, Forward(SubSeq(composition, 1, n)) }
  BY Zenon DEF Confirmed
<1> HIDE DEF n
<1> QED
  BY <1>1, <1>3, <1>4, ChainPrefix, ForwardChain

\* Context::RefreshNonConfirmedComposition.
LEMMA RefreshStep ==
  ASSUME CompositionInv, NEW k \in Continuation, RefreshNonConfirmedComposition(k)
  PROVE  CompositionInv'
BY ConfirmedChain, ComposeStep, StayStep DEF RefreshNonConfirmedComposition, CompositionInv

\* Context::set_option, and the update of the engine.
LEMMA SetOptionStep ==
  ASSUME IInv, NEW name \in OptionNames, NEW value \in BOOLEAN, NEW k \in Continuation,
         set_option(name, value, k)
  PROVE  IInv'
<1>1. CompositionInv'
  BY RefreshStep, StayStep DEF set_option, IInv
<1>2. OptionsInv'
  BY DEF set_option, IInv, OptionsInv
<1> QED
  BY <1>1, <1>2 DEF IInv

-----------------------------------------------------------------------------
(* The rounds of segmentors and the translation                            *)

\* A segmentor leaves a chain that fits the text.
LEMMA SegmentorStep ==
  ASSUME CompositionInv, pc = "segmentors",
         NEW segs, Chain(segs), Fits(segs, Len(comp_input)),
         \/ next_segmentor \in DOMAIN Segmentors /\ Continue(segs)
         \/ Stop(segs)
  PROVE  CompositionInv'
<1>1. /\ composition' = segs
      /\ UNCHANGED <<input, caret_pos, comp_input, pc, start_pos, then>>
  BY DEF Continue, Stop
<1>2. next_segmentor' \in 1 .. Len(Segmentors) + 1
  BY SegmentorsAssumption DEF CompositionInv, Continue, Stop
<1>3. /\ Chain(composition)' = Chain(composition')
      /\ Fits(composition, Len(comp_input))' = Fits(composition', Len(comp_input'))
  BY DEF Chain, Fits
<1> QED
  BY <1>1, <1>2, <1>3 DEF CompositionInv

\* Where a segmentor starts.
LEMMA StartPosition ==
  ASSUME CompositionInv
  PROVE  /\ GetCurrentStartPosition(composition) \in 0 .. Len(comp_input)
         /\ Len(comp_input) \in Nat
<1>1. CASE composition = <<>>
  BY <1>1 DEF GetCurrentStartPosition, CompositionInv
<1>2. CASE composition # <<>>
  BY <1>2, ChainLast DEF GetCurrentStartPosition, CompositionInv, Fits
<1> QED
  BY <1>1, <1>2

\* A segment inside the text can be added.
LEMMA AddSegmentFits ==
  ASSUME CompositionInv, NEW j \in Nat, NEW k \in 0 .. Len(comp_input), j <= k,
         NEW tags \in SUBSET Tags
  PROVE  /\ Chain(AddSegment(composition, SegmentWithTags(j, k, tags)))
         /\ Fits(AddSegment(composition, SegmentWithTags(j, k, tags)), Len(comp_input))
<1> DEFINE seg == SegmentWithTags(j, k, tags)
<1>1. Len(comp_input) \in Nat /\ k \in Nat
  BY DEF CompositionInv
<1>2. Proper(seg) /\ seg.end = k
  BY <1>1, NewSegment
<1> HIDE DEF seg
<1> QED
  BY <1>1, <1>2, AddSegmentChain DEF CompositionInv, seg

\* AsciiSegmentor::Proceed.
LEMMA AsciiSegmentorStep ==
  ASSUME CompositionInv, AsciiSegmentor
  PROVE  CompositionInv'
<1> DEFINE j    == GetCurrentStartPosition(composition)
           segs == AddSegment(composition, SegmentWithTags(j, Len(comp_input), {"raw"}))
<1>1. /\ pc = "segmentors" /\ next_segmentor \in DOMAIN Segmentors
      /\ Continue(composition) \/ Stop(composition) \/ Stop(segs)
  BY DEF AsciiSegmentor, Calling
<1>2. j \in 0 .. Len(comp_input) /\ Len(comp_input) \in Nat
  BY StartPosition
<1>3. Chain(segs) /\ Fits(segs, Len(comp_input))
  <2> HIDE DEF j
  <2> QED
    BY <1>2, AddSegmentFits DEF Tags
<1> HIDE DEF segs
<1> QED
  BY <1>1, <1>3, SegmentorStep DEF CompositionInv

\* A run of spelling ends inside the text.
LEMMA SpellingEndBound ==
  ASSUME CompositionInv, NEW j \in 0 .. Len(comp_input)
  PROVE  SpellingEnd(j) \in j .. Len(comp_input)
<1> DEFINE ends == { k \in j .. Len(comp_input) : \A p \in j .. k - 1 : IsSpelling(j, p) }
<1>1. Len(comp_input) \in Nat
  BY DEF CompositionInv
<1>2. j \in ends /\ ends \in SUBSET (0 .. Len(comp_input))
  BY <1>1
<1>3. Max(ends) \in ends
  <2> HIDE DEF ends
  <2> QED
    BY <1>1, <1>2, MaxNat
<1> QED
  BY <1>3, Zenon DEF SpellingEnd

\* AbcSegmentor::Proceed.
LEMMA AbcSegmentorStep ==
  ASSUME CompositionInv, AbcSegmentor
  PROVE  CompositionInv'
<1> DEFINE j    == GetCurrentStartPosition(composition)
           k    == SpellingEnd(j)
           segs == AddSegment(composition, SegmentWithTags(j, k, {"abc"}))
<1>1. /\ pc = "segmentors" /\ next_segmentor \in DOMAIN Segmentors
      /\ Continue(composition) \/ Continue(segs)
  BY DEF AbcSegmentor, Calling
<1>2. j \in 0 .. Len(comp_input) /\ Len(comp_input) \in Nat
  BY StartPosition
<1>3. k \in j .. Len(comp_input)
  BY <1>2, SpellingEndBound
<1>4. Chain(segs) /\ Fits(segs, Len(comp_input))
  <2> HIDE DEF j, k
  <2> QED
    BY <1>2, <1>3, AddSegmentFits DEF Tags
<1> HIDE DEF segs
<1> QED
  BY <1>1, <1>4, SegmentorStep DEF CompositionInv

\* PunctSegmentor::Proceed takes one character, which is in the text.
LEMMA PunctSegmentorStep ==
  ASSUME CompositionInv, PunctSegmentor
  PROVE  CompositionInv'
<1> DEFINE k    == GetCurrentStartPosition(composition)
           segs == AddSegment(composition, SegmentWithTags(k, k + 1, {"punct"}))
<1>1. /\ pc = "segmentors" /\ next_segmentor \in DOMAIN Segmentors
      /\ \/ Continue(composition) \/ Stop(composition)
         \/ k < Len(comp_input) /\ Stop(segs)
  BY DEF PunctSegmentor, Calling
<1>2. k \in 0 .. Len(comp_input) /\ Len(comp_input) \in Nat
  BY StartPosition
<1>3. k < Len(comp_input) => Chain(segs) /\ Fits(segs, Len(comp_input))
  <2> HIDE DEF k
  <2>1. k < Len(comp_input) => k + 1 \in 0 .. Len(comp_input) /\ k <= k + 1 /\ k \in Nat
    BY <1>2
  <2> QED
    BY <2>1, AddSegmentFits DEF Tags
<1> HIDE DEF segs, k
<1> QED
  BY <1>1, <1>3, SegmentorStep DEF CompositionInv

\* A raw segment that is extended is cleared.
Raw(seg, e) == [ ClearSegment([ seg EXCEPT !.end = e ]) EXCEPT !.tags = {"raw"} ]

LEMMA RawSegment ==
  ASSUME NEW seg \in SegmentType, NEW e \in Nat, seg.start <= e
  PROVE  /\ Proper(Raw(seg, e)) /\ Raw(seg, e).status = kVoid
         /\ Raw(seg, e).start = seg.start /\ Raw(seg, e).end = e
         /\ Raw(seg, e).tags = {"raw"}
<1> DEFINE longer  == [ seg EXCEPT !.end = e ]
           cleared == ClearSegment(longer)
           raw     == [ cleared EXCEPT !.tags = {"raw"} ]
<1>1. longer \in SegmentType /\ longer.start = seg.start /\ longer.end = e
  BY DEF SegmentType
<1> HIDE DEF longer
<1>2. /\ cleared \in SegmentType /\ cleared.menu = NoMenu /\ cleared.status = kVoid
      /\ cleared.start = longer.start /\ cleared.end = longer.end
  <2>1. kVoid \in Status /\ {} \in SUBSET Tags /\ NoMenu \in Menu \cup {NoMenu}
    BY DEF Status, kVoid, kConfirmed
  <2> QED
    BY <1>1, <2>1 DEF ClearSegment, SegmentType
<1> HIDE DEF cleared
<1>3. /\ Proper(raw) /\ raw.status = kVoid
      /\ raw.start = seg.start /\ raw.end = e /\ raw.tags = {"raw"}
  BY <1>1, <1>2 DEF Proper, SegmentType, Tags
<1> QED
  BY <1>3 DEF Raw, cleared, longer

\* FallbackSegmentor::Proceed: the raw segment that it extends ends where the round starts.
LEMMA FallbackSegmentorStep ==
  ASSUME CompositionInv, FallbackSegmentor
  PROVE  CompositionInv'
<1> DEFINE k    == GetCurrentStartPosition(composition)
           segs == Trim(composition)
<1>1. /\ pc = "segmentors"
      /\ \/ Stop(composition)
         \/ /\ GetCurrentSegmentLength(composition) = 0
            /\ k < Len(comp_input)
            /\ \/ segs # <<>> /\ Stop(ExtendRaw(segs, k))
               \/ Stop(AddRaw(segs, k))
  BY DEF FallbackSegmentor, Calling
<1>2. k \in 0 .. Len(comp_input) /\ Len(comp_input) \in Nat
  BY StartPosition
<1>3. Chain(segs) /\ Fits(segs, Len(comp_input))
  BY TrimChain DEF CompositionInv
<1>4. ASSUME GetCurrentSegmentLength(composition) = 0, k < Len(comp_input), segs # <<>>
      PROVE  Chain(ExtendRaw(segs, k)) /\ Fits(ExtendRaw(segs, k), Len(comp_input))
  <2>1. /\ Chain(segs) /\ Fits(segs, Len(comp_input)) /\ Last(segs) \in SegmentType
        /\ k + 1 \in Nat /\ k + 1 <= Len(comp_input) /\ Last(segs).start <= k + 1
    <3>1. Last(segs).end = k
      BY <1>4, TrimmedEnd DEF CompositionInv
    <3>2. Proper(Last(segs)) /\ Last(segs).start \in Nat /\ Last(segs).start <= Last(segs).end
      BY <1>3, <1>4, ChainLast
    <3> HIDE DEF k, segs
    <3> QED
      BY <1>2, <1>3, <1>4, <3>1, <3>2 DEF Proper
  <2> HIDE DEF k, segs
  <2>2. /\ Proper(Raw(Last(segs), k + 1))
        /\ Raw(Last(segs), k + 1).start = Last(segs).start
        /\ Raw(Last(segs), k + 1).end = k + 1
    BY <2>1, RawSegment
  <2>3. ExtendRaw(segs, k) = SetBack(segs, Raw(Last(segs), k + 1))
    BY DEF ExtendRaw, Raw
  <2> QED
    BY <1>4, <2>1, <2>2, <2>3, SetBackChain
<1>5. ASSUME k < Len(comp_input)
      PROVE  Chain(AddRaw(segs, k)) /\ Fits(AddRaw(segs, k), Len(comp_input))
  <2> DEFINE seg == SegmentWithTags(k, k + 1, {"raw"})
  <2> HIDE DEF k, segs
  <2>1. k \in Nat /\ k + 1 \in Nat /\ k <= k + 1 /\ k + 1 <= Len(comp_input)
    BY <1>2, <1>5
  <2>2. Proper(seg) /\ seg.end = k + 1
    BY <2>1, NewSegment DEF Tags
  <2> HIDE DEF seg
  <2>3. AddRaw(segs, k) = AddSegment(Forward(segs), seg)
    BY DEF AddRaw, seg
  <2>4. Chain(Forward(segs)) /\ Fits(Forward(segs), Len(comp_input))
    BY <1>2, <1>3, ForwardChain
  <2> QED
    BY <2>1, <2>2, <2>3, <2>4, AddSegmentChain
<1> HIDE DEF k, segs
<1> QED
  BY <1>1, <1>4, <1>5, SegmentorStep DEF CompositionInv

\* A round starts inside the text.
LEMMA BeginRoundStep ==
  ASSUME CompositionInv, BeginRound
  PROVE  CompositionInv'
<1>1. start_pos' \in Nat
  BY StartPosition DEF BeginRound
<1>2. next_segmentor' \in 1 .. Len(Segmentors) + 1
  BY SegmentorsAssumption DEF BeginRound
<1>3. pc' \in ProgramPoint /\ UNCHANGED <<contextVars, then>>
  BY DEF BeginRound, ProgramPoint
<1> QED
  BY <1>1, <1>2, <1>3 DEF CompositionInv, contextVars, Chain, Fits, Proper

\* A round ends with Forward at most.
LEMMA EndRoundStep ==
  ASSUME CompositionInv, EndRound
  PROVE  CompositionInv'
<1>1. /\ composition' \in { composition, Forward(composition) }
      /\ pc' \in ProgramPoint
      /\ UNCHANGED <<input, caret_pos, comp_input, start_pos, next_segmentor, then>>
  BY DEF EndRound, ProgramPoint
<1>2. Len(comp_input) \in Nat
  BY DEF CompositionInv
<1>3. Chain(composition') /\ Fits(composition', Len(comp_input))
  BY <1>1, <1>2, ForwardChain DEF CompositionInv
<1> QED
  BY <1>1, <1>3 DEF CompositionInv, Chain, Fits, Proper

\* The trailing segment goes, and one is appended to a selected one.
LEMMA FinishSegmentationStep ==
  ASSUME CompositionInv, FinishSegmentation
  PROVE  CompositionInv'
<1> DEFINE segs == IF composition # <<>> /\ "placeholder" \in Last(composition).tags
                   THEN composition
                   ELSE Trim(composition)
<1>1. /\ composition' \in { segs, Forward(segs) }
      /\ UNCHANGED <<input, caret_pos, comp_input, then>>
      /\ pc' \in ProgramPoint /\ start_pos' = 0 /\ next_segmentor' = 1
  BY DEF FinishSegmentation, ForwardIfSelected, ProgramPoint
<1>2. Chain(segs) /\ Fits(segs, Len(comp_input)) /\ Len(comp_input) \in Nat
  BY TrimChain DEF CompositionInv
<1> HIDE DEF segs
<1>3. Chain(composition') /\ Fits(composition', Len(comp_input))
  BY <1>1, <1>2, ForwardChain
<1>4. next_segmentor' \in 1 .. Len(Segmentors) + 1 /\ start_pos' \in Nat
  BY <1>1, SegmentorsAssumption
<1> QED
  BY <1>1, <1>3, <1>4 DEF CompositionInv, Chain, Fits, Proper

\* What a translation makes of a segment.
LEMMA TranslatedSegment ==
  ASSUME CompositionInv, NEW i \in 1 .. Len(composition),
         NEW ends \in BoundedSeq((composition[i].start + 1) .. composition[i].end, MaxCandidates)
  PROVE  /\ Proper(Translated(composition[i], ends))
         /\ Translated(composition[i], ends).start = composition[i].start
         /\ Translated(composition[i], ends).end = composition[i].end
         /\ Translated(composition[i], ends).menu \in Menu
<1> DEFINE seg   == composition[i]
           query == SubSeq(comp_input, seg.start + 1, seg.end)
           menu  == [ query |-> query, ends |-> ends ]
           new   == Translated(seg, ends)
<1>1. /\ Proper(seg) /\ seg.start \in Nat /\ seg.end \in Nat /\ seg.start <= seg.end
      /\ seg.end <= Len(comp_input) /\ comp_input \in Seq(Chars)
  BY ChainAt DEF CompositionInv, Fits
<1>2. ends \in Seq(Nat) /\ \A k \in DOMAIN ends : ends[k] > seg.start
  <2> HIDE DEF seg
  <2>1. PICK m \in 0 .. MaxCandidates : ends \in [1 .. m -> (seg.start + 1) .. seg.end]
    BY Zenon DEF BoundedSeq, SeqOf, seg
  <2>2. m \in Nat
    BY <2>1, BoundAssumption
  <2>3. \A k \in DOMAIN ends : ends[k] \in Nat /\ ends[k] > seg.start
    BY <1>1, <2>1
  <2>4. ends \in [1 .. m -> Nat]
    BY <2>1, <2>3
  <2> QED
    BY <2>2, <2>3, <2>4
<1> HIDE DEF seg
<1>3. query \in Seq(Chars)
  BY <1>1
<1>4. new = [ seg EXCEPT !.status = kGuess, !.selected_index = 0, !.menu = menu ]
  BY DEF Translated
<1> HIDE DEF query, new
<1>5. menu \in Menu /\ menu.ends = ends
  BY <1>2, <1>3 DEF Menu
<1>6. kGuess \in Status /\ seg \in SegmentType
  BY <1>1 DEF Status, kVoid, kGuess, kConfirmed, Proper
<1> HIDE DEF menu
<1>7. /\ new \in SegmentType /\ new.menu = menu
      /\ new.start = seg.start /\ new.end = seg.end
  BY <1>4, <1>5, <1>6 DEF SegmentType
<1>8. Proper(new)
  BY <1>1, <1>2, <1>5, <1>7 DEF Proper
<1> QED
  BY <1>5, <1>7, <1>8 DEF new, seg

\* A translation changes neither the range of a segment nor the other segments.
LEMMA TranslateSegmentStep ==
  ASSUME CompositionInv, TranslateSegment
  PROVE  CompositionInv'
<1> DEFINE i   == Min(Untranslated)
           seg == composition[i]
<1>1. /\ Chain(composition) /\ Fits(composition, Len(comp_input))
      /\ composition \in Seq(SegmentType)
  BY DEF CompositionInv, Chain
<1>2. PICK ends \in BoundedSeq((seg.start + 1) .. seg.end, MaxCandidates) :
        composition' = [ composition EXCEPT ![i] = Translated(seg, ends) ]
  BY DEF TranslateSegment
<1>3. UNCHANGED <<input, caret_pos, comp_input, engineVars>>
  BY DEF TranslateSegment
<1> DEFINE new == Translated(seg, ends)
<1> HIDE DEF i
<1>4. CASE i \in 1 .. Len(composition)
  <2>1. /\ Proper(new) /\ new \in SegmentType
        /\ new.start = seg.start /\ new.end = seg.end
    BY <1>2, <1>4, TranslatedSegment DEF Proper
  <2> HIDE DEF new, seg
  <2>2. composition' \in Seq(SegmentType) /\ Len(composition') = Len(composition)
    BY <1>1, <1>2, <1>4, <2>1 DEF new, seg
  <2>3. \A j \in 1 .. Len(composition) :
          /\ Proper(composition'[j])
          /\ composition'[j].start = composition[j].start
          /\ composition'[j].end = composition[j].end
    <3> TAKE j \in 1 .. Len(composition)
    <3>1. CASE j = i
      BY <3>1, <1>1, <1>2, <2>1 DEF new, seg
    <3>2. CASE j # i
      BY <3>2, <1>1, <1>2 DEF Chain
    <3> QED
      BY <3>1, <3>2
  <2>4. Chain(composition') /\ Fits(composition', Len(comp_input))
    BY <1>1, <2>2, <2>3, SameRanges
  <2> QED
    BY <1>3, <2>4 DEF CompositionInv, engineVars, Chain, Fits, Proper
<1>5. CASE i \notin 1 .. Len(composition)
  <2>1. composition' = composition
    BY <1>1, <1>2, <1>5
  <2> QED
    BY <1>3, <2>1 DEF CompositionInv, engineVars, Chain, Fits, Proper
<1> QED
  BY <1>4, <1>5

\* The call returns to its caller.
LEMMA FinishTranslationStep ==
  ASSUME CompositionInv, FinishTranslation
  PROVE  CompositionInv'
<1>1. /\ UNCHANGED <<input, caret_pos, composition, comp_input>>
      /\ UNCHANGED <<start_pos, next_segmentor>>
      /\ then' = then /\ pc' \in ProgramPoint
  BY DEF FinishTranslation, Return, contextVars, ProgramPoint
<1> QED
  BY <1>1 DEF CompositionInv, Chain, Fits, Proper

\* The steps of the engine keep the invariant.
LEMMA EngineStep ==
  ASSUME IInv, Engine
  PROVE  IInv'
<1>1. CompositionInv'
  BY BeginRoundStep, AsciiSegmentorStep, AbcSegmentorStep, PunctSegmentorStep,
     FallbackSegmentorStep, EndRoundStep, FinishSegmentationStep,
     TranslateSegmentStep, FinishTranslationStep DEF Engine, IInv
<1>2. options' = options
  BY DEF Engine, BeginRound, AsciiSegmentor, AbcSegmentor, PunctSegmentor,
     FallbackSegmentor, EndRound, FinishSegmentation, TranslateSegment,
     FinishTranslation, Continue, Stop, contextVars
<1> QED
  BY <1>1, <1>2 DEF IInv, OptionsInv

-----------------------------------------------------------------------------
(* The handlers of keys                                                    *)

\* A handler that leaves the options alone keeps the invariant if it keeps its
\* part about the composition.
LEMMA SameOptions ==
  ASSUME IInv, UNCHANGED options, CompositionInv'
  PROVE  IInv'
BY DEF IInv, OptionsInv

\* Speller, AddToInput and DirectCommit.
LEMMA SpellerStep ==
  ASSUME IInv, NEW ch \in Chars, SpellerKey(ch) \/ AddToInput(ch) \/ DirectCommit(ch)
  PROVE  IInv'
<1>1. CompositionInv'
  BY PushInputStep, CommitStep DEF SpellerKey, AddToInput, DirectCommit, IInv, Continuation
<1> QED
  BY <1>1, SameOptions DEF SpellerKey, AddToInput, DirectCommit

\* The alternated index is a remainder, so it is in range.
LEMMA AlternatePunctStep ==
  ASSUME IInv, NEW ch \in Puncts, AlternatePunct(ch)
  PROVE  IInv'
<1> DEFINE seg   == Last(composition)
           index == (seg.selected_index + 1) % Len(seg.menu.ends)
           next  == [ seg EXCEPT !.selected_index = index, !.status = kGuess ]
<1>1. /\ composition # <<>> /\ seg.menu # NoMenu /\ seg.menu.ends # <<>>
      /\ Edit(SetBack(composition, next), "return")
      /\ UNCHANGED options
  BY DEF AlternatePunct, CanAlternate, HasMenu
<1>2. seg \in SegmentType
  BY <1>1, BackType DEF IInv
<1>3. index \in Nat
  <2>1. seg.menu \in Menu /\ seg.selected_index \in Nat
    BY <1>1, <1>2 DEF SegmentType
  <2>2. Len(seg.menu.ends) \in Nat /\ Len(seg.menu.ends) > 0
    BY <1>1, <2>1 DEF Menu
  <2> QED
    BY <2>1, <2>2
<1> HIDE DEF index
<1>4. kGuess \in Status
  BY DEF Status, kVoid, kGuess, kConfirmed
<1>5. /\ next \in SegmentType
      /\ \A field \in {"start", "end", "menu"} : next[field] = Last(composition)[field]
  BY <1>2, <1>3, <1>4 DEF SegmentType
<1> HIDE DEF next
<1>6. CompositionInv'
  BY <1>1, <1>5, AdjustBack, EditStep DEF IInv, Continuation
<1> QED
  BY <1>1, <1>6, SameOptions

\* The other keys of Punctuator.
LEMMA PunctuatorStep ==
  ASSUME IInv, NEW ch \in Puncts, PunctuatorKey(ch)
  PROVE  IInv'
<1>1. PICK k \in {"ConfirmUniquePunct", "AutoCommitPunct", "return"} : PushInput(ch, k)
  BY PunctAssumption DEF PunctuatorKey
<1>2. k \in Continuation /\ ch \in Chars /\ UNCHANGED options
  BY CharsAssumption DEF Continuation, PunctuatorKey
<1>3. CompositionInv'
  BY <1>1, <1>2, PushInputStep DEF IInv
<1> QED
  BY <1>2, <1>3, SameOptions

\* Selector.
LEMMA SelectorStep ==
  ASSUME IInv, NEW index \in Nat, SelectCandidateAt(index) \/ MoveHighlight(index)
  PROVE  IInv'
<1>1. CompositionInv'
  BY SelectStep, HighlightStep DEF SelectCandidateAt, MoveHighlight, IInv, Continuation
<1> QED
  BY <1>1, SameOptions DEF SelectCandidateAt, MoveHighlight

\* What of Selector needs no index: Home, and paging from the first page to itself.
LEMMA SelectorHomeStep ==
  ASSUME IInv, PageInPlace \/ HighlightFirst
  PROVE  IInv'
<1>1. CASE PageInPlace
  <2> DEFINE paged == [ Last(composition) EXCEPT !.tags = @ \cup {"paging"} ]
  <2>1. composition # <<>> /\ UNCHANGED options /\ Edit(SetBack(composition, paged), "return")
    BY <1>1 DEF PageInPlace, Selecting
  <2>2. Last(composition) \in SegmentType
    BY <2>1, BackType DEF IInv
  <2>3. /\ paged \in SegmentType
        /\ \A field \in {"start", "end", "menu"} : paged[field] = Last(composition)[field]
    BY <2>2 DEF SegmentType, Tags
  <2> HIDE DEF paged
  <2>4. CompositionInv'
    BY <2>1, <2>3, AdjustBack, EditStep DEF IInv, CompositionInv, Continuation
  <2> QED
    BY <2>1, <2>4, SameOptions
<1>2. CASE HighlightFirst
  <2>1. CompositionInv'
    BY <1>2, HighlightStep DEF HighlightFirst, IInv, Continuation
  <2> QED
    BY <1>2, <2>1, SameOptions DEF HighlightFirst
<1> QED
  BY <1>1, <1>2

\* Every move of Navigator.
LEMMA MoveToStep ==
  ASSUME IInv, NEW p \in 0 .. Len(input), MoveTo(p), UNCHANGED options
  PROVE  IInv'
<1>1. Compose(input, p, Edited, "return") \/ BeginEditing("return")
  BY DEF MoveTo
<1>2. "return" \in Continuation
  BY DEF Continuation
<1>3. CompositionInv'
  BY <1>1, <1>2, EditedChain, ComposeStep, BeginEditingStep DEF IInv, CompositionInv
<1> QED
  BY <1>3, SameOptions

\* Home goes to a position inside the input.
LEMMA HomePositionBound ==
  ASSUME IInv
  PROVE  HomePosition \in 0 .. Len(input)
<1> DEFINE unselected == { i \in DOMAIN composition :
                             \A j \in i .. Len(composition) :
                               composition[j].status < kSelected }
           start == IF unselected = {} THEN caret_pos
                    ELSE composition[Min(unselected)].start
<1>1. /\ DOMAIN composition = 1 .. Len(composition) /\ Chain(composition)
      /\ caret_pos \in 0 .. Len(input) /\ Len(input) \in Nat
  BY DEF IInv, CompositionInv, Chain
<1>2. unselected \in SUBSET Nat /\ unselected \subseteq 1 .. Len(composition)
  BY <1>1
<1>3. start \in Nat
  <2> HIDE DEF unselected
  <2>1. CASE unselected = {}
    BY <2>1, <1>1
  <2>2. CASE unselected # {}
    <3>1. Min(unselected) \in 1 .. Len(composition)
      BY <2>2, <1>2, MinNat
    <3>2. composition[Min(unselected)].start \in Nat
      BY <3>1, <1>1, ChainAt
    <3> QED
      BY <2>2, <3>2
  <2> QED
    BY <2>1, <2>2
<1>4. HomePosition = IF start < caret_pos THEN start ELSE 0
  BY Zenon DEF HomePosition
<1> HIDE DEF start
<1> QED
  BY <1>1, <1>3, <1>4

\* Navigator.
LEMMA NavigatorStep ==
  ASSUME IInv,
         \/ LeftByChar \/ RightByChar \/ Home \/ End
         \/ \E p \in 0 .. Len(input) : JumpBySyllable(p)
  PROVE  IInv'
<1>1. PICK p \in 0 .. Len(input) : MoveTo(p)
  <2>1. /\ HomePosition \in 0 .. Len(input) /\ Len(input) \in 0 .. Len(input)
        /\ caret_pos > 0 => caret_pos - 1 \in 0 .. Len(input)
        /\ caret_pos < Len(input) => caret_pos + 1 \in 0 .. Len(input)
    BY HomePositionBound DEF IInv, CompositionInv
  <2> QED
    BY <2>1, Zenon DEF LeftByChar, RightByChar, Home, End, JumpBySyllable
<1>2. UNCHANGED options
  BY DEF LeftByChar, RightByChar, Home, End, JumpBySyllable
<1> QED
  BY <1>1, <1>2, MoveToStep

\* Deleting a candidate.
LEMMA DeleteStep ==
  ASSUME IInv, NEW segs, Chain(segs), Fits(segs, Len(comp_input)),
         Delete(segs, "return"), UNCHANGED options
  PROVE  IInv'
<1>1. "return" \in Continuation
  BY DEF Continuation
<1>2. CompositionInv'
  BY <1>1, ConfirmedChain, EditStep, ComposeStep DEF Delete, IInv, CompositionInv
<1> QED
  BY <1>2, SameOptions

\* The actions of Editor that confirm or commit.
LEMMA ConfirmActionsStep ==
  ASSUME IInv,
         \/ Confirm \/ ToggleSelection \/ CommitComment \/ CommitScriptText
         \/ CommitRawInput \/ CommitComposition
  PROVE  IInv'
<1>1. "return" \in Continuation /\ "CommitUnlessMenu" \in Continuation
  BY DEF Continuation
<1>2. \/ \E k \in Continuation : ConfirmCurrentSelection(k) \/ Commit(k) \/ Clear(k)
      \/ ReopenPreviousSegment("return")
  BY <1>1, Zenon DEF Confirm, ToggleSelection, CommitComment, CommitScriptText, CommitRawInput,
     CommitComposition
<1>3. CompositionInv'
  BY <1>1, <1>2, ConfirmStep, CommitStep, ClearStep, ReopenPreviousSegmentStep DEF IInv
<1>4. UNCHANGED options
  BY DEF Confirm, ToggleSelection, CommitComment, CommitScriptText, CommitRawInput,
     CommitComposition
<1> QED
  BY <1>3, <1>4, SameOptions

\* The actions of Editor that take input or selections back.
LEMMA RevertActionsStep ==
  ASSUME IInv,
         \/ RevertLastEdit \/ BackToPreviousInput
         \/ \E len \in 1 .. Len(input) : BackToPreviousSyllable(len)
         \/ DeleteChar \/ CancelComposition
  PROVE  IInv'
<1>1. "return" \in Continuation /\ "ReopenPreviousSegment" \in Continuation
      /\ 1 \in Nat /\ \A len \in 1 .. Len(input) : len \in Nat
  BY DEF Continuation, IInv, CompositionInv
<1>2. \/ ReopenPreviousSegment("return") \/ ReopenPreviousSelection("return")
      \/ ClearPreviousSegment("return") \/ Clear("return")
      \/ \E k \in Continuation, len \in Nat : PopInput(len, k) \/ DeleteInput(len, k)
  BY <1>1, Zenon DEF RevertLastEdit, BackToPreviousInput, BackToPreviousSyllable, DeleteChar,
     CancelComposition
<1>3. CompositionInv'
  BY <1>1, <1>2, ReopenPreviousSegmentStep, ReopenPreviousSelectionStep, PopInputStep,
     DeleteInputStep, ClearPreviousSegmentStep, ClearStep DEF IInv
<1>4. UNCHANGED options
  BY DEF RevertLastEdit, BackToPreviousInput, BackToPreviousSyllable, DeleteChar,
     CancelComposition
<1> QED
  BY <1>3, <1>4, SameOptions

\* Editor::DeleteCandidate.
LEMMA DeleteCandidateStep ==
  ASSUME IInv, DeleteCandidate
  PROVE  IInv'
<1>1. Delete(composition, "return") /\ UNCHANGED options
  BY DEF DeleteCandidate
<1> QED
  BY <1>1, DeleteStep DEF IInv, CompositionInv

\* The keys keep the invariant.
LEMMA KeyStep ==
  ASSUME IInv, Key
  PROVE  IInv'
<1>1. 0 .. MaxCandidates - 1 \subseteq Nat
  BY BoundAssumption
<1>2. CASE \E ch \in Chars : SpellerKey(ch) \/ AddToInput(ch) \/ DirectCommit(ch)
  BY <1>2, SpellerStep
<1>3. CASE \E ch \in Puncts : AlternatePunct(ch) \/ PunctuatorKey(ch)
  BY <1>3, AlternatePunctStep, PunctuatorStep
<1>4. CASE \E index \in 0 .. MaxCandidates - 1 : \/ SelectCandidateAt(index)
                                                 \/ MoveHighlight(index)
  BY <1>1, <1>4, SelectorStep
<1>5. CASE \/ LeftByChar \/ RightByChar \/ Home \/ End
           \/ \E p \in 0 .. Len(input) : JumpBySyllable(p)
  BY <1>5, NavigatorStep
<1>6. CASE \/ Confirm \/ ToggleSelection \/ CommitComment \/ CommitScriptText
           \/ CommitRawInput \/ CommitComposition
  BY <1>6, ConfirmActionsStep
<1>7. CASE \/ RevertLastEdit \/ BackToPreviousInput
           \/ \E len \in 1 .. Len(input) : BackToPreviousSyllable(len)
           \/ DeleteChar \/ CancelComposition
  BY <1>7, RevertActionsStep
<1>8. CASE DeleteCandidate
  BY <1>8, DeleteCandidateStep
<1>9. CASE PageInPlace \/ HighlightFirst
  BY <1>9, SelectorHomeStep
<1> QED
  BY <1>2, <1>3, <1>4, <1>5, <1>6, <1>7, <1>8, <1>9, Zenon DEF Key

-----------------------------------------------------------------------------
(* The API and the rest of the handlers                                    *)

\* A bounded text is a text.
LEMMA BoundedText ==
  ASSUME NEW text \in BoundedSeq(Chars, MaxInput)
  PROVE  text \in Seq(Chars)
<1>1. PICK m \in 0 .. MaxInput : text \in [1 .. m -> Chars]
  BY Zenon DEF BoundedSeq, SeqOf
<1>2. m \in Nat
  BY <1>1, InputAssumption
<1> QED
  BY <1>1, <1>2

\* RimeDeleteCandidate stores any index.
LEMMA RimeDeleteCandidateStep ==
  ASSUME IInv, NEW index \in Nat, RimeDeleteCandidate(index)
  PROVE  IInv'
<1> DEFINE seg == [ Last(composition) EXCEPT !.selected_index = index ]
<1>1. /\ composition # <<>> /\ UNCHANGED options
      /\ Delete(SetBack(composition, seg), "return")
  BY DEF RimeDeleteCandidate
<1>2. /\ seg \in SegmentType
      /\ \A field \in {"start", "end", "menu"} : seg[field] = Last(composition)[field]
  BY <1>1, BackType DEF IInv, SegmentType
<1> HIDE DEF seg
<1>3. /\ Chain(SetBack(composition, seg))
      /\ Fits(SetBack(composition, seg), Len(comp_input))
  BY <1>1, <1>2, AdjustBack DEF IInv
<1> QED
  BY <1>1, <1>3, DeleteStep

\* RimeChangePage tags the last segment and moves its highlight.
LEMMA RimeChangePageStep ==
  ASSUME IInv, NEW index \in Nat, RimeChangePage(index)
  PROVE  IInv'
<1> DEFINE paged == [ Last(composition) EXCEPT !.tags = @ \cup {"paging"} ]
           moved == [ paged EXCEPT !.selected_index = HighlightIndex(index) ]
<1>1. /\ composition # <<>> /\ Last(composition).menu # NoMenu /\ UNCHANGED options
      /\ \/ Compose(input, caret_pos, SetBack(composition, moved), "return")
         \/ Edit(SetBack(composition, paged), "return")
  BY DEF RimeChangePage, HasMenu
<1>2. Last(composition) \in SegmentType /\ Last(composition).menu \in Menu
  BY <1>1, BackType DEF IInv, SegmentType
<1>3. HighlightIndex(index) \in Nat
  BY <1>2 DEF HighlightIndex, Menu
<1>4. /\ paged \in SegmentType
      /\ \A field \in {"start", "end", "menu"} : paged[field] = Last(composition)[field]
  BY <1>2 DEF SegmentType, Tags
<1>5. /\ moved \in SegmentType
      /\ \A field \in {"start", "end", "menu"} : moved[field] = Last(composition)[field]
  <2> HIDE DEF paged
  <2> QED
    BY <1>3, <1>4 DEF SegmentType
<1> HIDE DEF moved, paged
<1>6. CompositionInv'
  BY <1>1, <1>4, <1>5, AdjustBack, ComposeStep, EditStep
     DEF IInv, CompositionInv, Continuation
<1> QED
  BY <1>1, <1>6, SameOptions

\* The API keeps the invariant.
LEMMA APIStep ==
  ASSUME IInv, API
  PROVE  IInv'
<1>1. "return" \in Continuation
  BY DEF Continuation
<1>2. CASE \E text \in BoundedSeq(Chars, MaxInput) : RimeSetInput(text)
  BY <1>1, <1>2, BoundedText, SetInputStep, SameOptions DEF RimeSetInput, IInv
<1>3. CASE \E p \in 0 .. MaxInput : RimeSetCaretPos(p)
  <2>1. 0 .. MaxInput \subseteq Nat
    BY InputAssumption
  <2> QED
    BY <1>1, <1>3, <2>1, SetCaretPosStep, SameOptions DEF RimeSetCaretPos, IInv
<1>4. CASE \E index \in 0 .. MaxCandidates : \/ RimeSelectCandidate(index)
                                             \/ RimeHighlightCandidate(index)
                                             \/ RimeChangePage(index)
                                             \/ RimeDeleteCandidate(index)
  <2>1. PICK index \in Nat : \/ RimeSelectCandidate(index)
                             \/ RimeHighlightCandidate(index)
                             \/ RimeChangePage(index)
                             \/ RimeDeleteCandidate(index)
    BY <1>4, BoundAssumption
  <2>2. CASE RimeSelectCandidate(index)
    BY <1>1, <2>2, SelectStep, SameOptions DEF RimeSelectCandidate, IInv
  <2>3. CASE RimeHighlightCandidate(index)
    BY <1>1, <2>3, HighlightStep, SameOptions DEF RimeHighlightCandidate, IInv
  <2>4. CASE RimeDeleteCandidate(index)
    BY <2>4, RimeDeleteCandidateStep
  <2>5. CASE RimeChangePage(index)
    BY <2>5, RimeChangePageStep
  <2> QED
    BY <2>1, <2>2, <2>3, <2>4, <2>5
<1>5. CASE RimeCommitComposition
  BY <1>1, <1>5, CommitStep, SameOptions DEF RimeCommitComposition, IInv
<1>6. CASE RimeClearComposition
  BY <1>1, <1>6, ClearStep, SameOptions DEF RimeClearComposition, IInv
<1>7. CASE RimeSetOption
  <2>1. "ascii_mode" \in OptionNames
    BY DEF OptionNames
  <2>3. (~options["ascii_mode"]) \in BOOLEAN
    BY Zenon
  <2>2. set_option("ascii_mode", ~options["ascii_mode"], "return")
    BY <1>7 DEF RimeSetOption
  <2> QED
    BY <1>1, <2>1, <2>2, <2>3, SetOptionStep, Zenon
<1> QED
  BY <1>2, <1>3, <1>4, <1>5, <1>6, <1>7, Zenon DEF API

\* Selector tags the last segment.
LEMMA ResumePagingStep ==
  ASSUME IInv, ResumePaging
  PROVE  IInv'
<1> DEFINE seg == [ Last(composition) EXCEPT !.tags = @ \cup {"paging"} ]
<1>1. /\ composition # <<>> /\ UNCHANGED options
      /\ Edit(SetBack(composition, seg), "return")
  BY DEF ResumePaging
<1>2. /\ seg \in SegmentType
      /\ \A field \in {"start", "end", "menu"} : seg[field] = Last(composition)[field]
  BY <1>1, BackType DEF IInv, SegmentType, Tags
<1> HIDE DEF seg
<1>3. CompositionInv'
  BY <1>1, <1>2, AdjustBack, EditStep DEF IInv, Continuation
<1> QED
  BY <1>1, <1>3, SameOptions

\* The rest of the handlers keeps the invariant.
LEMMA ResumeStep ==
  ASSUME IInv, Resume
  PROVE  IInv'
<1>1. "return" \in Continuation
  BY DEF Continuation
<1>2. CASE ResumePaging
  BY <1>2, ResumePagingStep
<1>3. CASE \/ ResumeBeginEditing \/ ResumeReopenPreviousSegment \/ ResumeCommitUnlessMenu
           \/ ResumeConfirmUniquePunct \/ ResumeAutoCommitPunct
  <2>1. \/ BeginEditing("return") \/ ReopenPreviousSegment("return") \/ Stay("return")
        \/ Commit("return") \/ ConfirmCurrentSelection("return")
    BY <1>3 DEF ResumeBeginEditing, ResumeReopenPreviousSegment, ResumeCommitUnlessMenu,
       ResumeConfirmUniquePunct, ResumeAutoCommitPunct
  <2>2. UNCHANGED options
    BY <1>3 DEF ResumeBeginEditing, ResumeReopenPreviousSegment, ResumeCommitUnlessMenu,
       ResumeConfirmUniquePunct, ResumeAutoCommitPunct
  <2>3. CompositionInv'
    BY <1>1, <2>1, BeginEditingStep, ReopenPreviousSegmentStep, StayStep, CommitStep,
       ConfirmStep DEF IInv
  <2> QED
    BY <2>2, <2>3, SameOptions
<1> QED
  BY <1>2, <1>3 DEF Resume

-----------------------------------------------------------------------------
(* The theorems                                                            *)

\* The invariant is inductive.
LEMMA NextIInv == IInv /\ [Next]_vars => IInv'
<1>1. ASSUME IInv, Next PROVE IInv'
  BY <1>1, EngineStep, ResumeStep, KeyStep, APIStep DEF Next
<1>2. ASSUME IInv, UNCHANGED vars PROVE IInv'
  BY <1>2 DEF vars, IInv, CompositionInv, OptionsInv, Chain, Fits, Proper
<1> QED
  BY <1>1, <1>2

\* It implies the types,
LEMMA IInvTyped == IInv => TypeOK
BY DEF IInv, CompositionInv, OptionsInv, TypeOK, Chain

\* and the tiling.
LEMMA IInvTiles == IInv => SegmentsTile
<1> SUFFICES ASSUME IInv PROVE SegmentsTile
  OBVIOUS
<1>1. /\ Chain(composition) /\ Fits(composition, Len(comp_input))
      /\ DOMAIN composition = 1 .. Len(composition)
  BY DEF IInv, CompositionInv, Chain
<1>2. \A i \in 1 .. Len(composition) :
        /\ composition[i].start <= composition[i].end
        /\ composition[i].end <= Len(comp_input)
        /\ composition[i].start = IF i = 1 THEN 0 ELSE composition[i - 1].end
        /\ i < Len(composition) => composition[i].start # composition[i].end
  BY <1>1 DEF Chain, Fits, Proper
<1> QED
  BY <1>1, <1>2, Zenon DEF SegmentsTile, IsEmptySegment

\* The inductive invariant holds of every run.
THEOREM Invariance == Spec => []IInv
BY InitIInv, NextIInv, PTL DEF Spec

\* Every position that Context, Segmentation and Segment keep is in range, and the
\* caret is inside the input, whatever the calls and their order (context.cc).
THEOREM TypeCorrect == Spec => []TypeOK
BY Invariance, IInvTyped, PTL

\* The segments tile the text whatever the segmentors add and the user selects,
\* reopens or edits, so that no substr() of composition.cc is out of range.
THEOREM Tiling == Spec => []SegmentsTile
BY Invariance, IInvTiles, PTL

-----------------------------------------------------------------------------
(* The composition is up to date.  While the engine is at work, the text    *)
(* that it divides is the beginning of the input up to the caret at least,  *)
(* and a round of segmentors that has not got any further has found nobody  *)
(* to take the next character.                                             *)

\* What is on offer, or has been selected, has a menu.
Offered(segs) ==
  \A i \in 1 .. Len(segs) : segs[i].status >= kGuess => segs[i].menu # NoMenu

Settled(segs) ==
  \A i \in 1 .. Len(segs) : IsEmptySegment(segs[i]) \/ segs[i].status >= kGuess

TextInv ==
  /\ Len(comp_input) <= Len(input) /\ caret_pos <= Len(comp_input)
  /\ comp_input = SubSeq(input, 1, Len(comp_input))

\* Nobody has taken the character at which the round began.
RoundInv ==
  pc = "segmentors" =>
    /\ start_pos < Len(comp_input)
    /\ start_pos <= GetCurrentEndPosition(composition)
    /\ start_pos = GetCurrentEndPosition(composition) =>
         /\ GetCurrentStartPosition(composition) = start_pos
         /\ \A n \in 1 .. next_segmentor - 1 :
              ~Takes(Segmentors[n], comp_input[start_pos + 1])

\* The segments reach the caret, or a character that nobody takes.
ReachInv ==
  pc \notin {"rounds", "segmentors"} =>
    LET end == GetCurrentEndPosition(composition)
    IN  end < caret_pos => ~IsTakenAt(end)

ProgressInv ==
  /\ TextInv
  /\ Offered(composition)
  /\ RoundInv
  /\ ReachInv
  /\ pc \in {"idle", "resume"} => Settled(composition)

LEMMA EndPosition ==
  ASSUME NEW segs, Chain(segs)
  PROVE  /\ GetCurrentEndPosition(segs) \in Nat /\ GetCurrentStartPosition(segs) \in Nat
         /\ GetCurrentStartPosition(segs) <= GetCurrentEndPosition(segs)
         /\ \A n \in Nat : Fits(segs, n) => GetCurrentEndPosition(segs) <= n
<1>1. CASE segs = <<>>
  BY <1>1 DEF GetCurrentStartPosition, GetCurrentEndPosition
<1>2. CASE segs # <<>>
  BY <1>2, ChainLast DEF GetCurrentStartPosition, GetCurrentEndPosition, Fits
<1> QED
  BY <1>1, <1>2

LEMMA BackPosition ==
  ASSUME NEW segs, Chain(segs), segs # <<>>, NEW seg, Proper(seg), seg.start = Last(segs).start
  PROVE  GetCurrentEndPosition(SetBack(segs, seg)) = seg.end
BY SetBackChain DEF GetCurrentEndPosition

LEMMA OfferedPrefix ==
  ASSUME NEW segs, Chain(segs), Offered(segs), NEW k \in 0 .. Len(segs)
  PROVE  Offered(SubSeq(segs, 1, k))
<1>1. Len(segs) \in Nat
  BY DEF Chain
<1>2. Len(SubSeq(segs, 1, k)) = k /\ \A i \in 1 .. k : SubSeq(segs, 1, k)[i] = segs[i]
  BY ChainPrefix
<1> QED
  BY <1>1, <1>2 DEF Offered

LEMMA OfferedForward ==
  ASSUME NEW segs, Chain(segs), Offered(segs)
  PROVE  Offered(Forward(segs)) /\ GetCurrentEndPosition(Forward(segs)) = GetCurrentEndPosition(segs)
<1>1. CASE segs = <<>> \/ IsEmptySegment(Last(segs))
  BY <1>1 DEF Forward
<1>2. CASE segs # <<>> /\ ~IsEmptySegment(Last(segs))
  <2> DEFINE new == Segment(Last(segs).end, Last(segs).end)
  <2>1. segs \in Seq(SegmentType) /\ Len(segs) \in Nat
    BY DEF Chain
  <2>2. new \in SegmentType /\ new.end = Last(segs).end
    BY <1>2, ChainLast, EmptySegment DEF Proper
  <2>3. new.status = kVoid
    BY DEF Segment
  <2>4. Forward(segs) = Append(segs, new)
    BY <1>2 DEF Forward
  <2> HIDE DEF new
  <2>5. /\ Len(Append(segs, new)) = Len(segs) + 1 /\ Append(segs, new)[Len(segs) + 1] = new
        /\ \A i \in 1 .. Len(segs) : Append(segs, new)[i] = segs[i]
        /\ Append(segs, new) # <<>> /\ Last(Append(segs, new)) = new
    BY <2>1, <2>2 DEF Last
  <2>6. Offered(Append(segs, new))
    BY <2>1, <2>3, <2>5 DEF Offered, kVoid, kGuess
  <2> QED
    BY <1>2, <2>2, <2>4, <2>5, <2>6 DEF GetCurrentEndPosition
<1> QED
  BY <1>1, <1>2

LEMMA SettledForward ==
  ASSUME NEW segs, Chain(segs), Settled(segs)
  PROVE  Settled(Forward(segs))
<1>1. CASE segs = <<>> \/ IsEmptySegment(Last(segs))
  BY <1>1 DEF Forward
<1>2. CASE segs # <<>> /\ ~IsEmptySegment(Last(segs))
  <2> DEFINE new == Segment(Last(segs).end, Last(segs).end)
  <2>1. segs \in Seq(SegmentType) /\ Len(segs) \in Nat
    BY DEF Chain
  <2>2. IsEmptySegment(new)
    BY DEF Segment, IsEmptySegment
  <2>3. Forward(segs) = Append(segs, new)
    BY <1>2 DEF Forward
  <2> HIDE DEF new
  <2>4. /\ Len(Append(segs, new)) = Len(segs) + 1 /\ Append(segs, new)[Len(segs) + 1] = new
        /\ \A i \in 1 .. Len(segs) : Append(segs, new)[i] = segs[i]
    BY <2>1
  <2> QED
    BY <2>1, <2>2, <2>3, <2>4 DEF Settled
<1> QED
  BY <1>1, <1>2

LEMMA OfferedBack ==
  ASSUME NEW segs, Chain(segs), Offered(segs), segs # <<>>,
         NEW seg, seg.status >= kGuess => seg.menu # NoMenu
  PROVE  /\ Offered(SetBack(segs, seg))
         /\ Len(SetBack(segs, seg)) = Len(segs) /\ SetBack(segs, seg)[Len(segs)] = seg
         /\ \A i \in 1 .. Len(segs) - 1 : SetBack(segs, seg)[i] = segs[i]
<1>1. segs \in Seq(SegmentType) /\ Len(segs) \in Nat /\ Len(segs) >= 1
  BY ChainLast DEF Chain
<1>2. Len(segs) - 1 \in 0 .. Len(segs)
  BY <1>1
<1> DEFINE front == SubSeq(segs, 1, Len(segs) - 1)
<1>3. /\ front \in Seq(SegmentType) /\ Len(front) = Len(segs) - 1
      /\ \A i \in 1 .. Len(segs) - 1 : front[i] = segs[i]
  BY <1>2, ChainPrefix DEF Chain
<1>4. SetBack(segs, seg) = Append(front, seg)
  BY DEF SetBack, Front
<1> HIDE DEF front
<1>5. /\ Len(SetBack(segs, seg)) = Len(segs) /\ SetBack(segs, seg)[Len(segs)] = seg
      /\ \A i \in 1 .. Len(segs) - 1 : SetBack(segs, seg)[i] = segs[i]
  BY <1>1, <1>3, <1>4
<1> QED
  BY <1>1, <1>5 DEF Offered

LEMMA OfferedReset ==
  ASSUME NEW segs, Chain(segs), Offered(segs), NEW old, NEW new,
         DiffPos(old, new) \in Nat
  PROVE  Offered(Reset(segs, old, new))
<1> DEFINE below == { i \in DOMAIN segs : segs[i].end <= DiffPos(old, new) }
           kept == MaxOrZero(below)
<1>1. Len(segs) \in Nat /\ DOMAIN segs = 1 .. Len(segs)
  BY DEF Chain
<1>2. below \in SUBSET (0 .. Len(segs))
  BY <1>1
<1>3. kept \in 0 .. Len(segs)
  <2> HIDE DEF below
  <2> QED
    BY <1>1, <1>2, MaxOrZeroNat
<1>4. Reset(segs, old, new) \in { segs, Forward(SubSeq(segs, 1, kept)) }
  BY Zenon DEF Reset
<1> HIDE DEF kept
<1> QED
  BY <1>3, <1>4, ChainPrefix, OfferedPrefix, OfferedForward

LEMMA OfferedTrim ==
  ASSUME NEW segs, Chain(segs), Offered(segs)
  PROVE  Offered(Trim(segs)) /\ GetCurrentEndPosition(Trim(segs)) = GetCurrentEndPosition(segs)
<1>1. CASE CanTrim(segs)
  <2>1. /\ segs \in Seq(SegmentType) /\ segs # <<>> /\ IsEmptySegment(Last(segs))
        /\ Len(segs) \in Nat /\ Len(segs) >= 1 /\ Last(segs) = segs[Len(segs)]
    BY <1>1, ChainLast DEF CanTrim, Chain
  <2> DEFINE n == Len(segs) - 1
  <2>2. n \in 0 .. Len(segs) /\ Trim(segs) = SubSeq(segs, 1, n)
    BY <1>1, <2>1 DEF Trim, Front
  <2>3. Chain(SubSeq(segs, 1, n)) /\ Len(SubSeq(segs, 1, n)) = n /\ Offered(SubSeq(segs, 1, n))
        /\ \A i \in 1 .. n : SubSeq(segs, 1, n)[i] = segs[i]
    BY <2>2, ChainPrefix, OfferedPrefix
  <2>4. GetCurrentEndPosition(segs) = segs[Len(segs)].start
    BY <2>1 DEF GetCurrentEndPosition, IsEmptySegment
  <2>5. CASE n = 0
    <3>1. segs[Len(segs)].start = 0
      BY <2>1, <2>5, ChainAt
    <3>2. SubSeq(segs, 1, 0) = <<>>
      BY <2>1
    <3> QED
      BY <2>2, <2>3, <2>4, <2>5, <3>1, <3>2 DEF GetCurrentEndPosition
  <2>6. CASE n # 0
    <3>0. Len(segs) > 1 /\ Len(segs) \in 1 .. Len(segs) /\ n \in 1 .. n
      <4>1. Len(segs) \in Nat /\ Len(segs) >= 1 /\ Len(segs) - 1 # 0
        BY <2>1, <2>6
      <4> QED
        BY <4>1
    <3>1. segs[Len(segs)].start = segs[n].end
      BY <3>0, ChainAt
    <3> HIDE DEF n
    <3>2. SubSeq(segs, 1, n) # <<>> /\ Last(SubSeq(segs, 1, n)) = segs[n]
      <4>1. SubSeq(segs, 1, n) # <<>>
        BY <2>3, <3>0
      <4> QED
        BY <2>3, <3>0, <4>1 DEF Last
    <3> QED
      BY <2>2, <2>3, <2>4, <3>1, <3>2 DEF GetCurrentEndPosition
  <2> QED
    BY <2>5, <2>6
<1>2. CASE ~CanTrim(segs)
  BY <1>2 DEF Trim
<1> QED
  BY <1>1, <1>2

\* An added segment takes the composition as far as it reaches itself.
LEMMA AddSegmentEnd ==
  ASSUME NEW segs, Chain(segs), Offered(segs), NEW seg, Proper(seg), seg.status = kVoid
  PROVE  /\ Offered(AddSegment(segs, seg))
         /\ GetCurrentEndPosition(AddSegment(segs, seg)) >= GetCurrentEndPosition(segs)
         /\ seg.start = GetCurrentStartPosition(segs) =>
              GetCurrentEndPosition(AddSegment(segs, seg)) >= seg.end
<1>0. /\ GetCurrentEndPosition(segs) \in Nat /\ seg.end \in Nat /\ seg.start \in Nat
      /\ seg.start <= seg.end
  BY EndPosition DEF Proper, SegmentType
<1>1. CASE seg.start # GetCurrentStartPosition(segs)
  BY <1>0, <1>1 DEF AddSegment
<1>2. CASE seg.start = GetCurrentStartPosition(segs) /\ segs = <<>>
  <2>1. AddSegment(segs, seg) = <<seg>> /\ GetCurrentEndPosition(segs) = 0
    BY <1>2 DEF AddSegment, GetCurrentEndPosition
  <2>2. <<seg>> # <<>> /\ Len(<<seg>>) = 1 /\ <<seg>>[1] = seg /\ Last(<<seg>>) = seg
    BY DEF Last
  <2>3. Offered(<<seg>>)
    BY <2>2 DEF Offered, kVoid, kGuess
  <2> QED
    BY <1>0, <2>1, <2>2, <2>3 DEF GetCurrentEndPosition
<1>3. CASE seg.start = GetCurrentStartPosition(segs) /\ segs # <<>>
  <2>1. /\ seg.start = Last(segs).start /\ Proper(Last(segs)) /\ Last(segs) \in SegmentType
        /\ GetCurrentEndPosition(segs) = Last(segs).end
        /\ Last(segs).status >= kGuess => Last(segs).menu # NoMenu
    BY <1>3, ChainLast DEF GetCurrentStartPosition, GetCurrentEndPosition, Proper, Offered
  <2> DEFINE merged == [ Last(segs) EXCEPT !.tags = @ \cup seg.tags ]
  <2>2. /\ Proper(merged) /\ merged.start = Last(segs).start /\ merged.end = Last(segs).end
        /\ merged.status = Last(segs).status /\ merged.menu = Last(segs).menu
    BY <2>1 DEF Proper, SegmentType
  <2>3. CASE Last(segs).end > seg.end
    BY <1>0, <1>3, <2>1, <2>3 DEF AddSegment
  <2>4. CASE Last(segs).end < seg.end
    <3>1. AddSegment(segs, seg) = SetBack(segs, seg)
      BY <1>0, <1>3, <2>1, <2>4 DEF AddSegment
    <3>2. seg.status >= kGuess => seg.menu # NoMenu
      BY DEF kVoid, kGuess
    <3> QED
      BY <1>0, <1>3, <2>1, <2>4, <3>1, <3>2, OfferedBack, BackPosition
  <2>5. CASE Last(segs).end = seg.end
    <3>1. AddSegment(segs, seg) = SetBack(segs, merged)
      BY <1>0, <1>3, <2>1, <2>5 DEF AddSegment
    <3> HIDE DEF merged
    <3> QED
      BY <1>0, <1>3, <2>1, <2>2, <2>5, <3>1, OfferedBack, BackPosition
  <2> QED
    BY <1>0, <2>1, <2>3, <2>4, <2>5
<1> QED
  BY <1>1, <1>2, <1>3

\* The segments that a call of the context leaves are as they were translated.
Kept(segs) ==
  /\ Chain(segs) /\ Offered(segs) /\ Settled(segs)
  /\ \/ GetCurrentEndPosition(segs) = GetCurrentEndPosition(composition)
     \/ GetCurrentEndPosition(segs) >= caret_pos

\* A call makes the engine compose some segments again, or keeps them.
Composes == \E text, caret, segs, k : Chain(segs) /\ Offered(segs) /\ Compose(text, caret, segs, k)
Keeps    == \E segs, k : Kept(segs) /\ Edit(segs, k)

Ready == CompositionInv /\ ProgressInv /\ pc \in {"idle", "resume"}

LEMMA ComposesProgress ==
  ASSUME CompositionInv, Composes, CompositionInv'
  PROVE  ProgressInv'
<1>1. PICK text, caret, segs, k : Chain(segs) /\ Offered(segs) /\ Compose(text, caret, segs, k)
  BY DEF Composes
<1> DEFINE active_input == SubSeq(text, 1, caret)
           active       == Reset(segs, comp_input, active_input)
           n            == Len(comp_input')
<1>2. /\ text \in Seq(Chars) /\ caret \in 0 .. Len(text) /\ comp_input \in Seq(Chars)
      /\ input' = text /\ caret_pos' = caret /\ pc' = "rounds"
  BY <1>1 DEF Compose, CompositionInv
<1>3. \/ composition' = active /\ comp_input' = active_input
      \/ composition' = Reset(active, active_input, text) /\ comp_input' = text
  BY <1>1 DEF Compose
<1>4. active_input \in Seq(Chars) /\ Len(active_input) = caret
  BY <1>2, CutText
<1>5. Chain(active) /\ Offered(active)
  <2> HIDE DEF active_input
  <2>1. DiffPos(comp_input, active_input) \in Nat
    BY <1>2, <1>4, DiffPosBound
  <2> QED
    BY <1>1, <1>2, <1>4, <2>1, ResetChain, OfferedReset
<1>6. Offered(Reset(active, active_input, text))
  <2> HIDE DEF active, active_input
  <2>1. DiffPos(active_input, text) \in Nat
    BY <1>2, <1>4, DiffPosBound
  <2> QED
    BY <1>5, <2>1, OfferedReset
<1>7. TextInv'
  <2>1. SubSeq(text, 1, Len(text)) = text /\ Len(text) \in Nat
    BY <1>2
  <2>2. /\ Len(comp_input') <= Len(text) /\ caret <= Len(comp_input')
        /\ comp_input' = SubSeq(text, 1, Len(comp_input'))
    <3> HIDE DEF active
    <3>1. CASE comp_input' = active_input
      BY <1>2, <1>4, <3>1
    <3>2. CASE comp_input' = text
      BY <1>2, <2>1, <3>2
    <3> QED
      BY <1>3, <3>1, <3>2
  <2> QED
    BY <1>2, <2>2 DEF TextInv
<1>8. Offered(composition')
  BY <1>3, <1>5, <1>6
<1> QED
  BY <1>2, <1>7, <1>8 DEF ProgressInv, RoundInv, ReachInv, Offered

LEMMA KeepsProgress ==
  ASSUME Ready, Keeps
  PROVE  ProgressInv'
<1>1. PICK segs, k : Kept(segs) /\ Edit(segs, k)
  BY DEF Keeps
<1>2. /\ composition' = segs /\ UNCHANGED <<input, caret_pos, comp_input>>
      /\ pc' \in {"idle", "resume"}
  BY <1>1 DEF Edit, Return
<1>3. /\ TextInv /\ caret_pos \in Nat /\ GetCurrentEndPosition(segs) \in Nat
      /\ GetCurrentEndPosition(composition) < caret_pos =>
           ~IsTakenAt(GetCurrentEndPosition(composition))
  BY <1>1, EndPosition DEF Ready, ProgressInv, ReachInv, CompositionInv, Kept
<1>4. GetCurrentEndPosition(segs) < caret_pos => ~IsTakenAt(GetCurrentEndPosition(segs))
  BY <1>1, <1>3 DEF Kept
<1>5. TextInv' /\ Offered(composition') /\ Settled(composition')
  BY <1>1, <1>2, <1>3 DEF TextInv, Kept
<1>6. RoundInv'
  BY <1>2 DEF RoundInv
<1>7. ReachInv'
  BY <1>2, <1>4 DEF ReachInv, IsTakenAt
<1>8. Offered(composition)' /\ Settled(composition)'
  BY <1>5 DEF Offered, Settled
<1> QED
  BY <1>5, <1>6, <1>7, <1>8 DEF ProgressInv

-----------------------------------------------------------------------------
(* The calls of the context compose the segments or keep them.             *)

LEMMA KeptComposition ==
  ASSUME Ready
  PROVE  Kept(composition) /\ Chain(<<>>) /\ Offered(<<>>)
BY DEF Kept, Ready, ProgressInv, CompositionInv, Chain, Offered

LEMMA StayKeeps ==
  ASSUME Ready, NEW k, Stay(k)
  PROVE  Keeps
<1>1. Edit(composition, k)
  BY DEF Stay, Edit
<1> QED
  BY <1>1, KeptComposition, Zenon DEF Keeps

LEMMA ClearComposes ==
  ASSUME Ready, NEW k, Clear(k)
  PROVE  Composes
BY KeptComposition, Zenon DEF Clear, Composes

LEMMA CommitProgress ==
  ASSUME Ready, NEW k, Commit(k)
  PROVE  Composes \/ Keeps
BY ClearComposes, StayKeeps DEF Commit

\* A change of the input, or of the caret.
LEMMA InputComposes ==
  ASSUME Ready, NEW text, NEW caret, NEW k, Compose(text, caret, composition, k)
  PROVE  Composes
BY KeptComposition, Zenon DEF Kept, Composes

\* The segments with another last segment, over the same text with the same menu.
LEMMA AdjustedKept ==
  ASSUME Ready, composition # <<>>, NEW seg \in SegmentType,
         \A field \in {"start", "end", "menu"} : seg[field] = Last(composition)[field],
         \/ seg.status = Last(composition).status
         \/ seg.status >= kGuess /\ seg.menu # NoMenu
  PROVE  /\ Kept(SetBack(composition, seg)) /\ SetBack(composition, seg) # <<>>
         /\ Last(SetBack(composition, seg)) = seg
<1> DEFINE segs == SetBack(composition, seg)
           old  == Last(composition)
<1>1. /\ Chain(composition) /\ Offered(composition) /\ Settled(composition) /\ CompositionInv
      /\ Len(composition) \in Nat /\ Len(composition) >= 1
      /\ old = composition[Len(composition)] /\ Proper(old)
      /\ GetCurrentEndPosition(composition) = old.end
  BY ChainLast DEF Ready, ProgressInv, CompositionInv, GetCurrentEndPosition
<1>2. seg.start = old.start /\ seg.end = old.end /\ seg.menu = old.menu
  OBVIOUS
<1>3. Chain(segs) /\ segs # <<>>
  BY <1>1, AdjustBack
<1>4. /\ seg.status >= kGuess => seg.menu # NoMenu
      /\ IsEmptySegment(seg) \/ seg.status >= kGuess
  <2> HIDE DEF segs
  <2>1. /\ old.status >= kGuess => old.menu # NoMenu
        /\ IsEmptySegment(old) \/ old.status >= kGuess
    BY <1>1 DEF Offered, Settled
  <2> QED
    BY <1>2, <2>1 DEF IsEmptySegment
<1>5. Proper(seg)
  BY <1>1, <1>2 DEF Proper
<1>6. /\ Offered(segs) /\ Len(segs) = Len(composition) /\ segs[Len(composition)] = seg
      /\ \A i \in 1 .. Len(composition) - 1 : segs[i] = composition[i]
  <2> HIDE DEF old
  <2> QED
    BY <1>1, <1>4, OfferedBack
<1>7. GetCurrentEndPosition(segs) = old.end /\ Last(segs) = seg
  BY <1>1, <1>2, <1>5, BackPosition, SetBackChain
<1>8. Settled(segs)
  <2> HIDE DEF segs, old
  <2> QED
    BY <1>1, <1>4, <1>6 DEF Settled
<1> QED
  BY <1>1, <1>3, <1>6, <1>7, <1>8 DEF Kept

\* Closing a segment keeps what has been selected in it.
LEMMA CloseKeeps ==
  ASSUME NEW seg \in SegmentType
  PROVE  Close(seg).status = seg.status /\ Close(seg).menu = seg.menu
BY DEF Close, SegmentType

\* A selection up to the end of the input leaves nothing to compose.
LEMMA OnSelectProgress ==
  ASSUME Ready, NEW segs, Kept(segs), segs # <<>>, Last(segs).status = kSelected,
         NEW k, OnSelect(segs, k)
  PROVE  Composes \/ Keeps
<1> DEFINE seg       == Close(Last(segs))
           confirmed == [ seg EXCEPT !.status = kConfirmed ]
           caret     == IF seg.end >= caret_pos THEN Len(input) ELSE caret_pos
<1>1. \/ Clear(k)
      \/ seg.end = Len(input) /\ Edit(Forward(SetBack(segs, confirmed)), k)
      \/ Compose(input, caret, Forward(SetBack(segs, seg)), k)
  BY DEF OnSelect
<1>2. /\ Chain(segs) /\ Offered(segs) /\ Settled(segs) /\ Len(segs) \in Nat /\ Len(segs) >= 1
      /\ Proper(Last(segs)) /\ Last(segs) \in SegmentType /\ Last(segs) = segs[Len(segs)]
      /\ Last(segs).menu # NoMenu
  BY ChainLast DEF Kept, Proper, Offered, kSelected, kGuess
<1>3. /\ Proper(seg) /\ seg \in SegmentType /\ seg.start = Last(segs).start
      /\ seg.menu = Last(segs).menu
  BY <1>2, CloseProper, CloseKeeps DEF Proper
<1> HIDE DEF seg, caret
<1>4. /\ Proper(confirmed) /\ confirmed.start = seg.start /\ confirmed.end = seg.end
      /\ confirmed.menu = seg.menu /\ confirmed.status = kConfirmed
  BY <1>3 DEF Proper, SegmentType, Status, kVoid, kConfirmed
<1> HIDE DEF confirmed
<1>5. Chain(Forward(SetBack(segs, seg))) /\ Offered(Forward(SetBack(segs, seg)))
  <2>1. Chain(SetBack(segs, seg)) /\ Offered(SetBack(segs, seg))
    BY <1>2, <1>3, OfferedBack, SetBackChain
  <2> QED
    BY <2>1, ForwardChain, OfferedForward
<1> DEFINE back == SetBack(segs, confirmed)
<1>6. /\ Chain(back) /\ Offered(back) /\ Len(back) = Len(segs) /\ back[Len(segs)] = confirmed
      /\ \A i \in 1 .. Len(segs) - 1 : back[i] = segs[i]
      /\ GetCurrentEndPosition(back) = seg.end
  BY <1>2, <1>3, <1>4, OfferedBack, SetBackChain, BackPosition
<1> HIDE DEF back
<1>7. Settled(back)
  BY <1>2, <1>4, <1>6 DEF Settled, kConfirmed, kGuess
<1>8. /\ Chain(Forward(back)) /\ Offered(Forward(back)) /\ Settled(Forward(back))
      /\ GetCurrentEndPosition(Forward(back)) = seg.end
  BY <1>6, <1>7, ForwardChain, OfferedForward, SettledForward
<1>9. caret_pos <= Len(input)
  BY DEF Ready, CompositionInv
<1>10. CASE Clear(k)
  BY <1>10, ClearComposes
<1>11. CASE seg.end = Len(input) /\ Edit(Forward(back), k)
  <2>1. Kept(Forward(back))
    BY <1>8, <1>9, <1>11 DEF Kept
  <2> QED
    BY <1>11, <2>1, Zenon DEF Keeps
<1>12. CASE Compose(input, caret, Forward(SetBack(segs, seg)), k)
  BY <1>5, <1>12, Zenon DEF Composes
<1> QED
  BY <1>1, <1>10, <1>11, <1>12 DEF back

\* Context::Select.
LEMMA SelectProgress ==
  ASSUME Ready, NEW index \in Nat, NEW k, Select(index, k)
  PROVE  Composes \/ Keeps
<1> DEFINE seg == [ Last(composition) EXCEPT !.selected_index = index,
                                             !.status = kSelected ]
<1>1. /\ composition # <<>> /\ Last(composition).menu # NoMenu
      /\ OnSelect(SetBack(composition, seg), k)
  BY DEF Select, CanSelect
<1>2. kSelected \in Status /\ kSelected >= kGuess
  BY DEF Status, kVoid, kGuess, kSelected, kConfirmed
<1>3. /\ seg \in SegmentType /\ seg.status = kSelected /\ seg.menu # NoMenu
      /\ \A field \in {"start", "end", "menu"} : seg[field] = Last(composition)[field]
  BY <1>1, <1>2, BackType DEF Ready, SegmentType
<1> HIDE DEF seg
<1> QED
  BY <1>1, <1>2, <1>3, AdjustedKept, OnSelectProgress

\* Context::ConfirmCurrentSelection: a segment that is not empty has a menu.
LEMMA ConfirmProgress ==
  ASSUME Ready, NEW k, ConfirmCurrentSelection(k)
  PROVE  Composes \/ Keeps
<1> DEFINE seg == [ Last(composition) EXCEPT !.status = kSelected ]
<1>1. /\ composition # <<>> /\ OnSelect(SetBack(composition, seg), k)
      /\ SelectedCandidate \/ ~IsEmptySegment(Last(composition))
  BY DEF ConfirmCurrentSelection, CanConfirm, SelectBack
<1>2. kSelected \in Status /\ kSelected >= kGuess
  BY DEF Status, kVoid, kGuess, kSelected, kConfirmed
<1>3. Last(composition).menu # NoMenu
  <2>1. /\ Len(composition) \in 1 .. Len(composition)
        /\ Last(composition) = composition[Len(composition)]
        /\ Offered(composition) /\ Settled(composition)
    BY <1>1, ChainLast DEF Ready, CompositionInv, ProgressInv
  <2> QED
    BY <1>1, <2>1 DEF Offered, Settled, SelectedCandidate, HasSelectedCandidate
<1>4. /\ seg \in SegmentType /\ seg.status = kSelected /\ seg.menu # NoMenu
      /\ \A field \in {"start", "end", "menu"} : seg[field] = Last(composition)[field]
  BY <1>1, <1>2, <1>3, BackType DEF Ready, SegmentType
<1> HIDE DEF seg
<1> QED
  BY <1>1, <1>2, <1>4, AdjustedKept, OnSelectProgress

\* Context::Highlight.
LEMMA HighlightProgress ==
  ASSUME Ready, NEW index \in Nat, NEW k, Highlight(index, k)
  PROVE  Composes
<1> DEFINE seg == [ Last(composition) EXCEPT !.selected_index = HighlightIndex(index) ]
<1>1. /\ composition # <<>> /\ Last(composition).menu # NoMenu
      /\ Compose(input, caret_pos, SetBack(composition, seg), k)
  BY DEF Highlight, CanHighlight
<1>2. Last(composition) \in SegmentType /\ Last(composition).menu \in Menu
  BY <1>1, BackType DEF Ready, SegmentType
<1>3. HighlightIndex(index) \in Nat
  BY <1>2 DEF HighlightIndex, Menu
<1>4. /\ seg \in SegmentType /\ seg.status = Last(composition).status
      /\ \A field \in {"start", "end", "menu"} : seg[field] = Last(composition)[field]
  BY <1>2, <1>3 DEF SegmentType
<1> HIDE DEF seg
<1>5. Chain(SetBack(composition, seg)) /\ Offered(SetBack(composition, seg))
  BY <1>1, <1>4, AdjustedKept DEF Kept
<1> QED
  BY <1>1, <1>5, Zenon DEF Composes

\* Marking a selection leaves the segments as they are.
LEMMA EditedKept ==
  ASSUME Ready
  PROVE  Kept(Edited)
<1> DEFINE marked(seg) == [ seg EXCEPT !.tags = @ \cup {"selected_before_editing"} ]
           marks == Edited
           n == Len(composition)
<1>1. \A seg \in SegmentType : /\ marked(seg).start = seg.start
                               /\ marked(seg).end = seg.end
                               /\ marked(seg).status = seg.status
                               /\ marked(seg).menu = seg.menu
  BY DEF SegmentType
<1>2. /\ composition \in Seq(SegmentType) /\ n \in Nat /\ DOMAIN composition = 1 .. n
      /\ Chain(composition) /\ Offered(composition) /\ Settled(composition)
      /\ Chain(marks) /\ DOMAIN marks = 1 .. n
  <2>1. composition \in Seq(SegmentType) /\ Chain(composition)
    BY DEF Ready, CompositionInv, Chain
  <2>2. DOMAIN marks = DOMAIN composition
    BY DEF Edited
  <2>3. Chain(marks)
    BY EditedChain DEF Ready
  <2> QED
    BY <2>1, <2>2, <2>3 DEF Ready, ProgressInv
<1>3. \A i \in 1 .. n : marks[i] \in {composition[i], marked(composition[i])}
  BY <1>2 DEF Edited
<1>4. \A i \in 1 .. n : composition[i] \in SegmentType
  BY <1>2
<1> HIDE DEF marked, marks
<1>5. \A i \in 1 .. n : /\ marks[i].start = composition[i].start
                        /\ marks[i].end = composition[i].end
                        /\ marks[i].status = composition[i].status
                        /\ marks[i].menu = composition[i].menu
  BY <1>1, <1>3, <1>4
<1>6. Len(marks) = n
  BY <1>2 DEF Chain
<1>7. GetCurrentEndPosition(marks) = GetCurrentEndPosition(composition)
  <2>1. n = 0 => marks = <<>> /\ composition = <<>>
    BY <1>2, <1>6 DEF Chain
  <2>2. n # 0 => /\ marks # <<>> /\ composition # <<>>
                 /\ Last(marks) = marks[n] /\ Last(composition) = composition[n]
                 /\ n \in 1 .. n
    BY <1>2, <1>6 DEF Last
  <2> HIDE DEF n
  <2> QED
    BY <1>5, <2>1, <2>2 DEF GetCurrentEndPosition
<1>8. Offered(marks) /\ Settled(marks)
  BY <1>2, <1>5, <1>6 DEF Offered, Settled, IsEmptySegment
<1> QED
  BY <1>2, <1>7, <1>8 DEF Kept, marks

\* Context::BeginEditing.
LEMMA BeginEditingKeeps ==
  ASSUME Ready, NEW k, BeginEditing(k)
  PROVE  Keeps
BY EditedKept, Zenon DEF BeginEditing, Keeps

\* A segment that is reopened has its menu.
LEMMA OfferedReopen ==
  ASSUME NEW segs, Chain(segs), Offered(segs)
  PROVE  Chain(ReopenBack(segs)) /\ Offered(ReopenBack(segs))
<1> DEFINE seg == Reopen(Last(segs), caret_pos)
<1>1. CASE segs = <<>>
  BY <1>1 DEF ReopenBack
<1>2. CASE segs # <<>>
  <2>1. /\ Last(segs) \in SegmentType /\ Last(segs) = segs[Len(segs)]
        /\ Len(segs) \in 1 .. Len(segs)
    BY <1>2, ChainLast DEF Proper
  <2>2. /\ seg.menu = Last(segs).menu
        /\ seg.status >= kGuess => Last(segs).status >= kGuess
    BY <2>1 DEF Reopen, SegmentType, Status, kVoid, kGuess, kSelected, kConfirmed
  <2>3. seg.status >= kGuess => seg.menu # NoMenu
    BY <2>1, <2>2 DEF Offered
  <2>4. ReopenBack(segs) = SetBack(segs, seg)
    BY <1>2 DEF ReopenBack
  <2> HIDE DEF seg
  <2> QED
    BY <1>2, <2>3, <2>4, OfferedBack, ReopenBackChain
<1> QED
  BY <1>1, <1>2, ReopenBackChain

\* Context::ReopenPreviousSegment and Context::ReopenPreviousSelection.
LEMMA ReopenComposes ==
  ASSUME Ready, NEW k, ReopenPreviousSegment(k) \/ ReopenPreviousSelection(k)
  PROVE  Composes
<1>1. Chain(composition) /\ Offered(composition)
  BY DEF Ready, CompositionInv, ProgressInv
<1>2. PICK segs \in { Trim(composition), SubSeq(composition, 1, LastSelected) } :
        Compose(input, caret_pos, ReopenBack(segs), k)
  BY DEF ReopenPreviousSegment, ReopenPreviousSelection
<1>3. Chain(segs) /\ Offered(segs)
  BY <1>1, <1>2, TrimChain, OfferedTrim, LastSelectedIndex, ChainPrefix, OfferedPrefix DEF Ready
<1> QED
  BY <1>2, <1>3, OfferedReopen, Zenon DEF Composes

\* What ClearNonConfirmedComposition leaves has been selected.
LEMMA ConfirmedOffered ==
  ASSUME Ready
  PROVE  Chain(Confirmed) /\ Offered(Confirmed)
<1> DEFINE selected == { i \in DOMAIN composition : composition[i].status >= kSelected }
           n == MaxOrZero(selected)
<1>1. /\ Chain(composition) /\ Offered(composition) /\ CompositionInv
      /\ Len(composition) \in Nat /\ DOMAIN composition = 1 .. Len(composition)
  BY DEF Ready, ProgressInv, CompositionInv, Chain
<1>2. selected \in SUBSET (0 .. Len(composition))
  BY <1>1
<1>3. n \in 0 .. Len(composition)
  <2> HIDE DEF selected
  <2> QED
    BY <1>1, <1>2, MaxOrZeroNat
<1>4. Confirmed \in { composition, Forward(SubSeq(composition, 1, n)) }
  BY Zenon DEF Confirmed
<1> HIDE DEF n
<1> QED
  BY <1>1, <1>3, <1>4, ConfirmedChain, ChainPrefix, OfferedPrefix, OfferedForward

\* Context::RefreshNonConfirmedComposition.
LEMMA RefreshProgress ==
  ASSUME Ready, NEW k, RefreshNonConfirmedComposition(k)
  PROVE  Composes \/ Keeps
<1>1. CASE Compose(input, caret_pos, Confirmed, k)
  BY <1>1, ConfirmedOffered, Zenon DEF Composes
<1> QED
  BY <1>1, StayKeeps DEF RefreshNonConfirmedComposition

-----------------------------------------------------------------------------
(* So do the handlers of the keys, the API and the rest of the handlers.   *)

\* The keys that change the input, move the caret, or commit.
LEMMA TypingProgress ==
  ASSUME Ready,
         \/ \E ch \in Chars : SpellerKey(ch) \/ AddToInput(ch) \/ DirectCommit(ch)
         \/ \E ch \in Puncts : PunctuatorKey(ch)
         \/ DeleteChar
  PROVE  Composes \/ Keeps
<1>1. \/ \E text, caret, k : Compose(text, caret, composition, k)
      \/ \E k : Commit(k)
  BY Zenon DEF SpellerKey, AddToInput, DirectCommit, PunctuatorKey, DeleteChar, PushInput,
     DeleteInput
<1> QED
  BY <1>1, InputComposes, CommitProgress

\* Punctuator::AlternatePunct offers the menu that is there.
LEMMA AlternateProgress ==
  ASSUME Ready, NEW ch \in Puncts, AlternatePunct(ch)
  PROVE  Keeps
<1> DEFINE seg   == Last(composition)
           index == (seg.selected_index + 1) % Len(seg.menu.ends)
           next  == [ seg EXCEPT !.selected_index = index, !.status = kGuess ]
<1>1. /\ composition # <<>> /\ seg.menu # NoMenu /\ seg.menu.ends # <<>>
      /\ Edit(SetBack(composition, next), "return")
  BY DEF AlternatePunct, CanAlternate, HasMenu
<1>2. seg \in SegmentType
  BY <1>1, BackType DEF Ready
<1>3. index \in Nat
  <2>1. seg.menu \in Menu /\ seg.selected_index \in Nat
    BY <1>1, <1>2 DEF SegmentType
  <2>2. Len(seg.menu.ends) \in Nat /\ Len(seg.menu.ends) > 0
    BY <1>1, <2>1 DEF Menu
  <2> QED
    BY <2>1, <2>2
<1> HIDE DEF index
<1>4. kGuess \in Status /\ kGuess >= kGuess
  BY DEF Status, kVoid, kGuess, kConfirmed
<1>5. /\ next \in SegmentType /\ next.status = kGuess /\ next.menu # NoMenu
      /\ \A field \in {"start", "end", "menu"} : next[field] = Last(composition)[field]
  BY <1>1, <1>2, <1>3, <1>4 DEF SegmentType
<1> HIDE DEF next
<1>6. Kept(SetBack(composition, next))
  BY <1>1, <1>4, <1>5, AdjustedKept
<1> QED
  BY <1>1, <1>6, Zenon DEF Keeps

\* Navigator.
LEMMA NavigatorProgress ==
  ASSUME Ready,
         \/ LeftByChar \/ RightByChar \/ Home \/ End
         \/ \E p \in 0 .. Len(input) : JumpBySyllable(p)
  PROVE  Composes \/ Keeps
<1>1. PICK p : MoveTo(p)
  BY Zenon DEF LeftByChar, RightByChar, Home, End, JumpBySyllable
<1>2. CASE Compose(input, p, Edited, "return")
  <2>1. Chain(Edited) /\ Offered(Edited)
    BY EditedKept DEF Kept
  <2> QED
    BY <1>2, <2>1, Zenon DEF Composes
<1>3. CASE BeginEditing("return")
  BY <1>3, BeginEditingKeeps
<1> QED
  BY <1>1, <1>2, <1>3 DEF MoveTo

\* Selector.
LEMMA SelectorProgress ==
  ASSUME Ready, NEW index \in Nat, SelectCandidateAt(index) \/ MoveHighlight(index)
  PROVE  Composes \/ Keeps
BY SelectProgress, HighlightProgress DEF SelectCandidateAt, MoveHighlight

\* The actions of Editor, but for the deletion of a candidate.
LEMMA EditorProgress ==
  ASSUME Ready,
         \/ Confirm \/ ToggleSelection \/ CommitComment \/ CommitScriptText
         \/ CommitRawInput \/ CommitComposition
         \/ RevertLastEdit \/ BackToPreviousInput
         \/ \E len \in 1 .. Len(input) : BackToPreviousSyllable(len)
         \/ CancelComposition
  PROVE  Composes \/ Keeps
<1>1. \/ \E k : ConfirmCurrentSelection(k) \/ Commit(k) \/ Clear(k)
      \/ \E k : ReopenPreviousSegment(k) \/ ReopenPreviousSelection(k)
      \/ \E text, caret, k : Compose(text, caret, composition, k)
  BY Zenon DEF Confirm, ToggleSelection, CommitComment, CommitScriptText, CommitRawInput,
     CommitComposition, RevertLastEdit, BackToPreviousInput, BackToPreviousSyllable,
     CancelComposition, PopInput, ClearPreviousSegment, set_input
<1> QED
  BY <1>1, ConfirmProgress, CommitProgress, ClearComposes, ReopenComposes, InputComposes

\* Deleting a candidate.
LEMMA DeleteProgress ==
  ASSUME Ready, NEW segs, Kept(segs), NEW k, Delete(segs, k)
  PROVE  Composes \/ Keeps
<1>1. CASE Edit(segs, k)
  BY <1>1, Zenon DEF Keeps
<1>2. CASE Compose(input, caret_pos, Confirmed, k)
  BY <1>2, ConfirmedOffered, Zenon DEF Composes
<1> QED
  BY <1>1, <1>2 DEF Delete

\* RimeDeleteCandidate, RimeChangePage and Selector's tag, before they reach the engine.
LEMMA StoredIndexKept ==
  ASSUME Ready, composition # <<>>, NEW index \in Nat
  PROVE  Kept(SetBack(composition, [ Last(composition) EXCEPT !.selected_index = index ]))
<1> DEFINE seg == [ Last(composition) EXCEPT !.selected_index = index ]
<1>1. /\ seg \in SegmentType /\ seg.status = Last(composition).status
      /\ \A field \in {"start", "end", "menu"} : seg[field] = Last(composition)[field]
  BY BackType DEF Ready, SegmentType
<1> HIDE DEF seg
<1>2. Kept(SetBack(composition, seg))
  BY <1>1, AdjustedKept
<1> QED
  BY <1>2 DEF seg

LEMMA PagedKept ==
  ASSUME Ready, composition # <<>>, NEW index \in Nat
  PROVE  LET paged == [ Last(composition) EXCEPT !.tags = @ \cup {"paging"} ]
         IN  /\ Kept(SetBack(composition, paged))
             /\ Kept(SetBack(composition, [ paged EXCEPT !.selected_index = index ]))
<1> DEFINE paged == [ Last(composition) EXCEPT !.tags = @ \cup {"paging"} ]
           moved == [ paged EXCEPT !.selected_index = index ]
<1>1. /\ paged \in SegmentType /\ paged.status = Last(composition).status
      /\ \A field \in {"start", "end", "menu"} : paged[field] = Last(composition)[field]
  BY BackType DEF Ready, SegmentType, Tags
<1> HIDE DEF paged
<1>2. /\ moved \in SegmentType /\ moved.status = Last(composition).status
      /\ \A field \in {"start", "end", "menu"} : moved[field] = Last(composition)[field]
  BY <1>1 DEF SegmentType
<1> HIDE DEF moved
<1>3. Kept(SetBack(composition, paged)) /\ Kept(SetBack(composition, moved))
  BY <1>1, <1>2, AdjustedKept
<1> QED
  BY <1>3 DEF paged, moved

LEMMA SelectorHomeProgress ==
  ASSUME Ready, PageInPlace \/ HighlightFirst
  PROVE  Composes \/ Keeps
<1>1. CASE PageInPlace
  <2>1. Kept(SetBack(composition, [ Last(composition) EXCEPT !.tags = @ \cup {"paging"} ]))
    BY <1>1, PagedKept DEF PageInPlace, Selecting
  <2> QED
    BY <1>1, <2>1, Zenon DEF PageInPlace, Keeps
<1>2. CASE HighlightFirst
  BY <1>2, HighlightProgress DEF HighlightFirst
<1> QED
  BY <1>1, <1>2

\* The keys.
LEMMA KeyProgress ==
  ASSUME Ready, Key
  PROVE  Composes \/ Keeps
<1>1. 0 .. MaxCandidates - 1 \subseteq Nat
  BY BoundAssumption
<1>2. CASE \/ \E ch \in Chars : SpellerKey(ch) \/ AddToInput(ch) \/ DirectCommit(ch)
           \/ \E ch \in Puncts : PunctuatorKey(ch)
           \/ DeleteChar
  BY <1>2, TypingProgress
<1>3. CASE \E ch \in Puncts : AlternatePunct(ch)
  BY <1>3, AlternateProgress
<1>4. CASE \E index \in 0 .. MaxCandidates - 1 : \/ SelectCandidateAt(index)
                                                 \/ MoveHighlight(index)
  BY <1>1, <1>4, SelectorProgress
<1>5. CASE \/ LeftByChar \/ RightByChar \/ Home \/ End
           \/ \E p \in 0 .. Len(input) : JumpBySyllable(p)
  BY <1>5, NavigatorProgress
<1>6. CASE \/ Confirm \/ ToggleSelection \/ CommitComment \/ CommitScriptText
           \/ CommitRawInput \/ CommitComposition
           \/ RevertLastEdit \/ BackToPreviousInput
           \/ \E len \in 1 .. Len(input) : BackToPreviousSyllable(len)
           \/ CancelComposition
  BY <1>6, EditorProgress
<1>7. CASE DeleteCandidate
  BY <1>7, KeptComposition, DeleteProgress DEF DeleteCandidate
<1>8. CASE PageInPlace \/ HighlightFirst
  BY <1>8, SelectorHomeProgress
<1> QED
  BY <1>2, <1>3, <1>4, <1>5, <1>6, <1>7, <1>8, Zenon DEF Key

LEMMA ChangePageProgress ==
  ASSUME Ready, NEW index \in Nat, RimeChangePage(index)
  PROVE  Composes \/ Keeps
<1> DEFINE paged == [ Last(composition) EXCEPT !.tags = @ \cup {"paging"} ]
           moved == [ paged EXCEPT !.selected_index = HighlightIndex(index) ]
<1>1. /\ composition # <<>> /\ Last(composition).menu # NoMenu
      /\ \/ Compose(input, caret_pos, SetBack(composition, moved), "return")
         \/ Edit(SetBack(composition, paged), "return")
  BY DEF RimeChangePage, HasMenu
<1>2. HighlightIndex(index) \in Nat
  <2>1. Last(composition) \in SegmentType /\ Last(composition).menu \in Menu
    BY <1>1, BackType DEF Ready, SegmentType
  <2> QED
    BY <2>1 DEF HighlightIndex, Menu
<1>3. Kept(SetBack(composition, paged)) /\ Kept(SetBack(composition, moved))
  BY <1>1, <1>2, PagedKept
<1> HIDE DEF paged, moved
<1>4. CASE Compose(input, caret_pos, SetBack(composition, moved), "return")
  BY <1>3, <1>4, Zenon DEF Composes, Kept
<1>5. CASE Edit(SetBack(composition, paged), "return")
  BY <1>3, <1>5, Zenon DEF Keeps
<1> QED
  BY <1>1, <1>4, <1>5

\* The API.
LEMMA APIProgress ==
  ASSUME Ready, API
  PROVE  Composes \/ Keeps
<1>1. CASE \/ \E text \in BoundedSeq(Chars, MaxInput) : RimeSetInput(text)
           \/ \E p \in 0 .. MaxInput : RimeSetCaretPos(p)
  <2>1. \E text, caret, k : Compose(text, caret, composition, k)
    BY <1>1, Zenon DEF RimeSetInput, RimeSetCaretPos, set_input, set_caret_pos
  <2> QED
    BY <2>1, InputComposes
<1>2. CASE \E index \in 0 .. MaxCandidates : \/ RimeSelectCandidate(index)
                                             \/ RimeHighlightCandidate(index)
                                             \/ RimeChangePage(index)
                                             \/ RimeDeleteCandidate(index)
  <2>1. PICK index \in Nat : \/ RimeSelectCandidate(index)
                             \/ RimeHighlightCandidate(index)
                             \/ RimeChangePage(index)
                             \/ RimeDeleteCandidate(index)
    BY <1>2, BoundAssumption
  <2>2. CASE RimeSelectCandidate(index)
    BY <2>2, SelectProgress DEF RimeSelectCandidate
  <2>3. CASE RimeHighlightCandidate(index)
    BY <2>3, HighlightProgress DEF RimeHighlightCandidate
  <2>4. CASE RimeDeleteCandidate(index)
    BY <2>4, StoredIndexKept, DeleteProgress DEF RimeDeleteCandidate
  <2>5. CASE RimeChangePage(index)
    BY <2>5, ChangePageProgress
  <2> QED
    BY <2>1, <2>2, <2>3, <2>4, <2>5
<1>3. CASE RimeCommitComposition
  BY <1>3, CommitProgress DEF RimeCommitComposition
<1>4. CASE RimeClearComposition
  BY <1>4, ClearComposes DEF RimeClearComposition
<1>5. CASE RimeSetOption
  BY <1>5, RefreshProgress, StayKeeps DEF RimeSetOption, set_option
<1> QED
  BY <1>1, <1>2, <1>3, <1>4, <1>5, Zenon DEF API

\* The rest of the handlers.
LEMMA ResumeProgress ==
  ASSUME Ready, Resume
  PROVE  Composes \/ Keeps
<1>1. CASE ResumePaging
  <2>1. Kept(SetBack(composition, [ Last(composition) EXCEPT !.tags = @ \cup {"paging"} ]))
    BY <1>1, PagedKept DEF ResumePaging
  <2> QED
    BY <1>1, <2>1, Zenon DEF ResumePaging, Keeps
<1>2. CASE \/ ResumeBeginEditing \/ ResumeReopenPreviousSegment \/ ResumeCommitUnlessMenu
           \/ ResumeConfirmUniquePunct \/ ResumeAutoCommitPunct
  <2>1. \/ BeginEditing("return") \/ ReopenPreviousSegment("return") \/ Stay("return")
        \/ Commit("return") \/ ConfirmCurrentSelection("return")
    BY <1>2 DEF ResumeBeginEditing, ResumeReopenPreviousSegment, ResumeCommitUnlessMenu,
       ResumeConfirmUniquePunct, ResumeAutoCommitPunct
  <2> QED
    BY <2>1, BeginEditingKeeps, ReopenComposes, StayKeeps, CommitProgress, ConfirmProgress
<1> QED
  BY <1>1, <1>2 DEF Resume

\* They are called when the engine is at rest.
LEMMA CallsAtRest ==
  ASSUME Resume \/ Key \/ API
  PROVE  pc \in {"idle", "resume"}
<1>1. CASE Resume
  BY <1>1 DEF Resume, Resuming, ResumeBeginEditing, ResumeReopenPreviousSegment,
     ResumeCommitUnlessMenu, ResumePaging, ResumeConfirmUniquePunct, ResumeAutoCommitPunct
<1>2. CASE Key
  BY <1>2, Zenon DEF Key, Idle, Composing, Selecting, SpellerKey, AddToInput, DirectCommit,
     AlternatePunct, PunctuatorKey, SelectCandidateAt, MoveHighlight, PageInPlace,
     HighlightFirst, LeftByChar, RightByChar, Home, End, JumpBySyllable, Confirm, ToggleSelection, CommitComment, CommitScriptText,
     CommitRawInput, CommitComposition, RevertLastEdit, BackToPreviousInput,
     BackToPreviousSyllable, DeleteCandidate, DeleteChar, CancelComposition
<1>3. CASE API
  BY <1>3, Zenon DEF API, Idle, RimeSetInput, RimeSetCaretPos, RimeSelectCandidate,
     RimeHighlightCandidate, RimeChangePage, RimeDeleteCandidate, RimeCommitComposition,
     RimeClearComposition, RimeSetOption
<1> QED
  BY <1>1, <1>2, <1>3

-----------------------------------------------------------------------------
(* The rounds of segmentors                                                *)

Working == CompositionInv /\ ProgressInv

\* A segmentor takes the composition beyond the start of the round, or leaves it
\* to the next one.
LEMMA SegmentorProgress ==
  ASSUME Working, pc = "segmentors", NEW segs, Offered(segs),
         \/ /\ GetCurrentEndPosition(segs) \in Nat
            /\ GetCurrentEndPosition(segs) > start_pos
            /\ Continue(segs) \/ Stop(segs)
         \/ /\ segs = composition /\ Continue(segs)
            /\ GetCurrentEndPosition(segs) = start_pos =>
                 ~Takes(Segmentors[next_segmentor], comp_input[start_pos + 1])
  PROVE  ProgressInv'
<1>1. /\ composition' = segs /\ pc' = "segmentors"
      /\ UNCHANGED <<input, caret_pos, comp_input, start_pos>>
      /\ Continue(segs) => next_segmentor' = next_segmentor + 1
  BY DEF Continue, Stop
<1>2. /\ TextInv /\ RoundInv /\ start_pos \in Nat
      /\ next_segmentor \in Nat /\ next_segmentor >= 1
  BY DEF Working, ProgressInv, CompositionInv
<1>3. RoundInv'
  <2>1. CASE /\ GetCurrentEndPosition(segs) \in Nat
             /\ GetCurrentEndPosition(segs) > start_pos
    <3>1. /\ start_pos <= GetCurrentEndPosition(segs)
          /\ start_pos # GetCurrentEndPosition(segs)
      BY <1>2, <2>1
    <3> QED
      BY <1>1, <1>2, <3>1 DEF RoundInv
  <2>2. CASE /\ segs = composition /\ Continue(segs)
             /\ GetCurrentEndPosition(segs) = start_pos =>
                  ~Takes(Segmentors[next_segmentor], comp_input[start_pos + 1])
    <3>1. \A n \in 1 .. next_segmentor + 1 - 1 : n \in 1 .. next_segmentor - 1 \/ n = next_segmentor
      BY <1>2
    <3>2. start_pos = GetCurrentEndPosition(composition) =>
            \A n \in 1 .. next_segmentor' - 1 : ~Takes(Segmentors[n], comp_input[start_pos + 1])
      BY <1>1, <1>2, <2>2, <3>1 DEF RoundInv
    <3> QED
      BY <1>1, <1>2, <2>2, <3>2 DEF RoundInv, Takes
  <2> QED
    BY <2>1, <2>2
<1>4. Offered(composition') /\ TextInv'
  BY <1>1, <1>2 DEF TextInv
<1>5. Offered(composition)'
  BY <1>4 DEF Offered
<1> QED
  BY <1>1, <1>3, <1>4, <1>5 DEF ProgressInv, ReachInv

\* Where a round stands: no further than its start at the beginning of a segment.
LEMMA RoundPosition ==
  ASSUME Working, pc = "segmentors"
  PROVE  /\ Chain(composition) /\ Offered(composition) /\ Len(comp_input) \in Nat
         /\ GetCurrentStartPosition(composition) \in Nat
         /\ GetCurrentStartPosition(composition) <= Len(comp_input)
         /\ GetCurrentEndPosition(composition) \in Nat
         /\ GetCurrentStartPosition(composition) <= GetCurrentEndPosition(composition)
         /\ start_pos \in Nat /\ start_pos < Len(comp_input)
         /\ start_pos <= GetCurrentEndPosition(composition)
         /\ start_pos = GetCurrentEndPosition(composition) =>
              GetCurrentStartPosition(composition) = start_pos
BY EndPosition, StartPosition DEF Working, CompositionInv, ProgressInv, RoundInv

\* A segment that begins where the round stands takes the composition beyond it.
LEMMA AddedBeyond ==
  ASSUME Working, pc = "segmentors",
         NEW k \in Nat, k > GetCurrentStartPosition(composition), NEW tags \in SUBSET Tags
  PROVE  LET j    == GetCurrentStartPosition(composition)
             segs == AddSegment(composition, SegmentWithTags(j, k, tags))
         IN  /\ Offered(segs)
             /\ GetCurrentEndPosition(segs) \in Nat /\ GetCurrentEndPosition(segs) > start_pos
<1> DEFINE j    == GetCurrentStartPosition(composition)
           seg  == SegmentWithTags(j, k, tags)
           segs == AddSegment(composition, seg)
<1>1. j \in Nat /\ j <= k
  BY RoundPosition
<1>2. Proper(seg) /\ seg.start = j /\ seg.end = k
  <2> HIDE DEF j
  <2> QED
    BY <1>1, NewSegment
<1>3. seg.status = kVoid
  BY DEF SegmentWithTags, Segment
<1>4. Chain(composition) /\ Offered(composition)
  BY RoundPosition
<1> HIDE DEF seg
<1>5. Chain(segs) /\ Offered(segs)
      /\ GetCurrentEndPosition(segs) >= GetCurrentEndPosition(composition)
      /\ GetCurrentEndPosition(segs) >= k
  BY <1>2, <1>3, <1>4, AddSegmentChain, AddSegmentEnd
<1>6. GetCurrentEndPosition(segs) \in Nat
  BY <1>5, EndPosition
<1> HIDE DEF segs
<1>7. GetCurrentEndPosition(segs) > start_pos
  BY <1>5, <1>6, RoundPosition
<1> QED
  BY <1>5, <1>6, <1>7 DEF segs, seg

LEMMA AsciiProgress ==
  ASSUME Working, AsciiSegmentor
  PROVE  ProgressInv'
<1> DEFINE j    == GetCurrentStartPosition(composition)
           segs == AddSegment(composition, SegmentWithTags(j, Len(comp_input), {"raw"}))
<1>1. /\ pc = "segmentors" /\ Segmentors[next_segmentor] = "ascii_segmentor"
      /\ \/ Continue(composition)
         \/ j < Len(comp_input) /\ Stop(segs)
         \/ ~(j < Len(comp_input)) /\ Stop(composition)
  BY DEF AsciiSegmentor, Calling
<1>2. CASE Continue(composition)
  <2>1. ~Takes(Segmentors[next_segmentor], comp_input[start_pos + 1])
    BY <1>1 DEF Takes
  <2> QED
    BY <1>1, <1>2, <2>1, RoundPosition, SegmentorProgress
<1>3. CASE j < Len(comp_input) /\ Stop(segs)
  <2>1. /\ Offered(segs) /\ GetCurrentEndPosition(segs) \in Nat
        /\ GetCurrentEndPosition(segs) > start_pos
    <3>1. Len(comp_input) \in Nat /\ Len(comp_input) > j /\ {"raw"} \in SUBSET Tags
      BY <1>1, <1>3, RoundPosition DEF Tags
    <3> QED
      BY <1>1, <3>1, AddedBeyond
  <2> QED
    BY <1>1, <1>3, <2>1, SegmentorProgress
<1>4. CASE ~(j < Len(comp_input)) /\ Stop(composition)
  <2>1. GetCurrentEndPosition(composition) > start_pos
    BY <1>1, <1>4, RoundPosition
  <2> QED
    BY <1>1, <1>4, <2>1, RoundPosition, SegmentorProgress
<1> QED
  BY <1>1, <1>2, <1>3, <1>4

\* An initial begins a run of spelling.
LEMMA SpellingBegins ==
  ASSUME CompositionInv, NEW j \in 0 .. Len(comp_input), j < Len(comp_input),
         ~(j < SpellingEnd(j))
  PROVE  comp_input[j + 1] \notin Alphabet \cap Initials
<1> SUFFICES ASSUME comp_input[j + 1] \in Alphabet \cap Initials
             PROVE  FALSE
  OBVIOUS
<1> DEFINE ends == { k \in j .. Len(comp_input) : \A p \in j .. k - 1 : IsSpelling(j, p) }
<1>1. Len(comp_input) \in Nat /\ j \in Nat
  BY DEF CompositionInv
<1>2. IsSpelling(j, j)
  BY DEF IsSpelling
<1>3. \A p \in j .. (j + 1) - 1 : p = j
  BY <1>1
<1>4. j + 1 \in j .. Len(comp_input)
  BY <1>1
<1>5. j + 1 \in ends
  BY <1>2, <1>3, <1>4
<1>6. ends \in SUBSET (0 .. Len(comp_input))
  BY <1>1
<1>7. SpellingEnd(j) = Max(ends)
  BY DEF SpellingEnd
<1> HIDE DEF ends
<1>8. Max(ends) \in ends /\ Max(ends) >= j + 1
  BY <1>1, <1>5, <1>6, MaxNat
<1>9. SpellingEnd(j) \in 0 .. Len(comp_input) /\ SpellingEnd(j) >= j + 1
  BY <1>6, <1>7, <1>8
<1> QED
  BY <1>1, <1>9

LEMMA AbcProgress ==
  ASSUME Working, AbcSegmentor
  PROVE  ProgressInv'
<1> DEFINE j    == GetCurrentStartPosition(composition)
           k    == SpellingEnd(j)
           segs == AddSegment(composition, SegmentWithTags(j, k, {"abc"}))
<1>1. /\ pc = "segmentors" /\ Segmentors[next_segmentor] = "abc_segmentor"
      /\ \/ j < k /\ Continue(segs)
         \/ ~(j < k) /\ Continue(composition)
  BY DEF AbcSegmentor, Calling
<1>2. j \in 0 .. Len(comp_input) /\ k \in Nat /\ Len(comp_input) \in Nat
  <2>1. j \in 0 .. Len(comp_input) /\ Len(comp_input) \in Nat
    BY StartPosition DEF Working
  <2>2. k \in j .. Len(comp_input)
    BY <2>1, SpellingEndBound DEF Working
  <2> HIDE DEF j, k
  <2> QED
    BY <2>1, <2>2
<1>3. CASE j < k /\ Continue(segs)
  <2>1. k > j /\ {"abc"} \in SUBSET Tags
    BY <1>2, <1>3 DEF Tags
  <2> HIDE DEF k
  <2>2. /\ Offered(segs) /\ GetCurrentEndPosition(segs) \in Nat
        /\ GetCurrentEndPosition(segs) > start_pos
    BY <1>1, <1>2, <2>1, AddedBeyond
  <2> QED
    BY <1>1, <1>3, <2>2, SegmentorProgress
<1>4. CASE ~(j < k) /\ Continue(composition)
  <2>1. ASSUME GetCurrentEndPosition(composition) = start_pos
        PROVE  ~Takes(Segmentors[next_segmentor], comp_input[start_pos + 1])
    <3>1. j = start_pos /\ j < Len(comp_input)
      BY <1>1, <2>1, RoundPosition
    <3>2. comp_input[j + 1] \notin Alphabet \cap Initials
      BY <1>2, <1>4, <3>1, SpellingBegins DEF Working
    <3> QED
      BY <1>1, <3>1, <3>2 DEF Takes
  <2> HIDE DEF j, k
  <2> QED
    BY <1>1, <1>4, <2>1, RoundPosition, SegmentorProgress
<1> QED
  BY <1>1, <1>3, <1>4

LEMMA PunctProgress ==
  ASSUME Working, PunctSegmentor
  PROVE  ProgressInv'
<1> DEFINE k    == GetCurrentStartPosition(composition)
           segs == AddSegment(composition, SegmentWithTags(k, k + 1, {"punct"}))
<1>1. /\ pc = "segmentors" /\ Segmentors[next_segmentor] = "punct_segmentor"
      /\ \/ k = Len(comp_input) /\ Stop(composition)
         \/ comp_input[k + 1] \notin Puncts /\ Continue(composition)
         \/ k < Len(comp_input) /\ Stop(segs)
  BY DEF PunctSegmentor, Calling
<1>2. CASE k = Len(comp_input) /\ Stop(composition)
  <2>1. GetCurrentEndPosition(composition) > start_pos
    BY <1>1, <1>2, RoundPosition
  <2> QED
    BY <1>1, <1>2, <2>1, RoundPosition, SegmentorProgress
<1>3. CASE comp_input[k + 1] \notin Puncts /\ Continue(composition)
  <2>1. GetCurrentEndPosition(composition) = start_pos =>
          ~Takes(Segmentors[next_segmentor], comp_input[start_pos + 1])
    BY <1>1, <1>3, RoundPosition DEF Takes
  <2> QED
    BY <1>1, <1>3, <2>1, RoundPosition, SegmentorProgress
<1>4. CASE k < Len(comp_input) /\ Stop(segs)
  <2>1. k + 1 \in Nat /\ k + 1 > k /\ {"punct"} \in SUBSET Tags
    BY <1>1, RoundPosition DEF Tags
  <2>2. /\ Offered(segs) /\ GetCurrentEndPosition(segs) \in Nat
        /\ GetCurrentEndPosition(segs) > start_pos
    BY <1>1, <2>1, AddedBeyond
  <2> QED
    BY <1>1, <1>4, <2>2, SegmentorProgress
<1> QED
  BY <1>1, <1>2, <1>3, <1>4

\* Forward puts an empty segment behind one that is not.
LEMMA ForwardLast ==
  ASSUME NEW segs, Chain(segs), segs # <<>>, ~IsEmptySegment(Last(segs))
  PROVE  /\ Forward(segs) # <<>> /\ Len(Forward(segs)) = Len(segs) + 1
         /\ Len(Forward(segs)) > 1 /\ Forward(segs)[Len(Forward(segs)) - 1] = Last(segs)
         /\ IsEmptySegment(Last(Forward(segs))) /\ Last(Forward(segs)).status = kVoid
         /\ Last(Forward(segs)).start = Last(segs).end
<1> DEFINE new == Segment(Last(segs).end, Last(segs).end)
<1>1. Len(segs) \in Nat /\ Len(segs) >= 1 /\ Last(segs) = segs[Len(segs)]
  BY ChainLast
<1>2. Forward(segs) = Append(segs, new)
  BY DEF Forward
<1>3. /\ new \in SegmentType /\ new.start = Last(segs).end
      /\ new.end = Last(segs).end /\ new.status = kVoid
  BY ChainLast, EmptySegment DEF Proper, Segment
<1>4. segs \in Seq(SegmentType)
  BY DEF Chain
<1> HIDE DEF new
<1> DEFINE longer == Append(segs, new)
<1>5. /\ longer # <<>> /\ Len(longer) = Len(segs) + 1 /\ Last(longer) = new
      /\ longer[Len(segs)] = segs[Len(segs)]
  BY <1>1, <1>3, <1>4 DEF Last
<1> HIDE DEF longer
<1>6. Len(longer) > 1 /\ Len(longer) - 1 = Len(segs)
  BY <1>1, <1>5
<1>7. Forward(segs) = longer
  BY <1>2 DEF longer
<1> QED
  BY <1>1, <1>3, <1>5, <1>6, <1>7 DEF IsEmptySegment

\* The segment after a trimmed one begins where that one did.
LEMMA ForwardTrimmed ==
  ASSUME NEW segs, Chain(segs), GetCurrentSegmentLength(segs) = 0
  PROVE  LET new == Forward(Trim(segs))
         IN  /\ GetCurrentStartPosition(new) = GetCurrentStartPosition(segs)
             /\ new # <<>> => Last(new).status = kVoid
<1>1. Chain(Trim(segs))
  BY TrimChain
<1>2. CASE Trim(segs) = <<>>
  <2>1. GetCurrentStartPosition(segs) = 0
    BY <1>2, TrimmedEnd
  <2>2. Forward(Trim(segs)) = <<>>
    BY <1>2 DEF Forward
  <2> QED
    BY <2>1, <2>2 DEF GetCurrentStartPosition
<1>3. CASE Trim(segs) # <<>>
  <2>1. /\ Last(Trim(segs)).end = GetCurrentStartPosition(segs)
        /\ ~IsEmptySegment(Last(Trim(segs)))
    BY <1>3, TrimmedEnd
  <2>2. /\ Forward(Trim(segs)) # <<>> /\ Last(Forward(Trim(segs))).status = kVoid
        /\ Last(Forward(Trim(segs))).start = Last(Trim(segs)).end
    BY <1>1, <1>3, <2>1, ForwardLast
  <2>3. GetCurrentStartPosition(Forward(Trim(segs))) = Last(Forward(Trim(segs))).start
    BY <2>2 DEF GetCurrentStartPosition
  <2> QED
    BY <2>1, <2>2, <2>3
<1> QED
  BY <1>2, <1>3

\* FallbackSegmentor::Proceed takes the character, unless somebody has.
LEMMA FallbackProgress ==
  ASSUME Working, FallbackSegmentor
  PROVE  ProgressInv'
<1> DEFINE k    == GetCurrentStartPosition(composition)
           segs == Trim(composition)
           new  == SegmentWithTags(k, k + 1, {"raw"})
<1>1. /\ pc = "segmentors"
      /\ \/ /\ GetCurrentSegmentLength(composition) > 0 \/ k = Len(comp_input)
            /\ Stop(composition)
         \/ /\ GetCurrentSegmentLength(composition) = 0
            /\ \/ segs # <<>> /\ Stop(ExtendRaw(segs, k))
               \/ /\ segs = <<>> \/ segs # <<>>
                  /\ Stop(AddRaw(segs, k))
  BY DEF FallbackSegmentor, Calling
<1>2. /\ Chain(segs) /\ Offered(segs) /\ k \in Nat /\ k + 1 \in Nat /\ k <= k + 1
      /\ GetCurrentEndPosition(segs) = GetCurrentEndPosition(composition)
  BY <1>1, RoundPosition, TrimChain, OfferedTrim
<1>3. CASE /\ GetCurrentSegmentLength(composition) > 0 \/ k = Len(comp_input)
           /\ Stop(composition)
  <2>1. GetCurrentEndPosition(composition) > start_pos
    BY <1>1, <1>3, RoundPosition DEF GetCurrentSegmentLength
  <2> QED
    BY <1>1, <1>3, <2>1, RoundPosition, SegmentorProgress
<1>4. ASSUME GetCurrentSegmentLength(composition) = 0
      PROVE  k + 1 > start_pos /\ GetCurrentEndPosition(composition) = k
  BY <1>1, <1>4, RoundPosition DEF GetCurrentSegmentLength
<1>5. CASE GetCurrentSegmentLength(composition) = 0 /\ segs # <<>> /\ Stop(ExtendRaw(segs, k))
  <2>1. /\ Last(segs) \in SegmentType /\ Last(segs).end = k /\ Last(segs).start <= k + 1
        /\ k + 1 > start_pos
    BY <1>2, <1>4, <1>5, ChainLast DEF Proper, GetCurrentEndPosition
  <2> DEFINE e   == k + 1
             raw == Raw(Last(segs), e)
  <2>2. Proper(raw) /\ raw.status = kVoid /\ raw.start = Last(segs).start /\ raw.end = e
    <3> HIDE DEF k, segs
    <3> QED
      BY <1>2, <2>1, RawSegment
  <2>3. ExtendRaw(segs, k) = SetBack(segs, raw)
    BY DEF ExtendRaw, Raw
  <2> HIDE DEF raw, segs
  <2>4. raw.status >= kGuess => raw.menu # NoMenu
    BY <2>2 DEF kVoid, kGuess
  <2>5. Offered(SetBack(segs, raw)) /\ GetCurrentEndPosition(SetBack(segs, raw)) = e
    BY <1>2, <1>5, <2>2, <2>4, OfferedBack, BackPosition
  <2> HIDE DEF k
  <2> QED
    BY <1>1, <1>2, <1>5, <2>1, <2>3, <2>5, SegmentorProgress
<1>6. CASE GetCurrentSegmentLength(composition) = 0 /\ Stop(AddRaw(segs, k))
  <2>1. k + 1 > start_pos /\ GetCurrentEndPosition(composition) = k
    BY <1>4, <1>6
  <2>2. GetCurrentStartPosition(Forward(segs)) = k
    BY <1>6, ForwardTrimmed, RoundPosition, <1>1
  <2>3. Chain(Forward(segs)) /\ Offered(Forward(segs))
    BY <1>2, ForwardChain, OfferedForward
  <2>4. Proper(new) /\ new.start = k /\ new.end = k + 1 /\ new.status = kVoid
    <3>1. Proper(new) /\ new.start = k /\ new.end = k + 1
      <4> HIDE DEF k
      <4> QED
        BY <1>2, NewSegment DEF Tags
    <3> QED
      BY <3>1 DEF SegmentWithTags, Segment
  <2>5. AddRaw(segs, k) = AddSegment(Forward(segs), new)
    BY DEF AddRaw
  <2> DEFINE added == AddSegment(Forward(segs), new)
  <2> HIDE DEF new, segs
  <2>6. /\ Chain(added) /\ Offered(added)
        /\ GetCurrentEndPosition(added) >= k + 1
    <3> HIDE DEF k
    <3> QED
      BY <2>2, <2>3, <2>4, AddSegmentChain, AddSegmentEnd
  <2>7. GetCurrentEndPosition(added) \in Nat
    BY <2>6, EndPosition
  <2> HIDE DEF added
  <2>8. GetCurrentEndPosition(added) > start_pos
    BY <1>1, <1>2, <2>1, <2>6, <2>7, RoundPosition
  <2> QED
    BY <1>1, <1>6, <2>5, <2>6, <2>7, <2>8, SegmentorProgress DEF added
<1> HIDE DEF k, segs
<1> QED
  BY <1>1, <1>3, <1>5, <1>6

\* A round begins where the last segment does.
LEMMA BeginRoundProgress ==
  ASSUME Working, BeginRound
  PROVE  ProgressInv'
<1>1. /\ UNCHANGED <<input, caret_pos, composition, comp_input>> /\ pc' = "segmentors"
      /\ start_pos' = GetCurrentStartPosition(composition) /\ next_segmentor' = 1
      /\ ~(GetCurrentEndPosition(composition) >= Len(comp_input))
  BY DEF BeginRound, contextVars, HasFinishedSegmentation
<1>2. /\ GetCurrentStartPosition(composition) \in Nat
      /\ GetCurrentEndPosition(composition) \in Nat /\ Len(comp_input) \in Nat
      /\ GetCurrentStartPosition(composition) <= GetCurrentEndPosition(composition)
  BY EndPosition DEF Working, CompositionInv
<1>3. 1 .. 1 - 1 = {}
  OBVIOUS
<1>4. RoundInv'
  BY <1>1, <1>2, <1>3 DEF RoundInv
<1> QED
  BY <1>1, <1>4 DEF Working, ProgressInv, TextInv, ReachInv, Offered

\* A round that has not advanced has found nobody to take the character.
LEMMA EndRoundProgress ==
  ASSUME Working, EndRound
  PROVE  ProgressInv'
<1> DEFINE end == GetCurrentEndPosition(composition)
<1>1. /\ Chain(composition) /\ Offered(composition) /\ TextInv /\ RoundInv
      /\ end \in Nat /\ start_pos \in Nat /\ start_pos < Len(comp_input) /\ start_pos <= end
      /\ caret_pos \in Nat /\ Len(comp_input) \in Nat /\ next_segmentor \in Nat
      /\ input \in Seq(Chars) /\ comp_input \in Seq(Chars)
  BY EndPosition DEF Working, ProgressInv, CompositionInv, EndRound, RoundInv
<1>2. CASE pc' = "rounds"
  <2>1. /\ composition' \in { composition, Forward(composition) }
        /\ UNCHANGED <<input, caret_pos, comp_input>>
    BY <1>2 DEF EndRound
  <2>2. Offered(composition')
    BY <1>1, <2>1, OfferedForward
  <2>3. Offered(composition)'
    BY <2>2 DEF Offered
  <2> QED
    BY <1>1, <1>2, <2>1, <2>3 DEF ProgressInv, TextInv, RoundInv, ReachInv
<1>3. CASE pc' = "trim" /\ UNCHANGED composition
  <2>1. UNCHANGED <<input, caret_pos, comp_input>>
    BY DEF EndRound
  <2>2. start_pos = end \/ start_pos >= caret_pos
    BY <1>3 DEF EndRound
  <2>3. ASSUME end < caret_pos PROVE ~IsTakenAt(end)
    <3>1. start_pos = end
      BY <1>1, <2>2, <2>3
    <3>2. comp_input[end + 1] = input[end + 1]
      <4>1. end + 1 \in 1 .. Len(comp_input) /\ Len(comp_input) <= Len(input)
        BY <1>1, <3>1 DEF TextInv
      <4>2. comp_input = SubSeq(input, 1, Len(comp_input))
        BY <1>1 DEF TextInv
      <4> DEFINE m == Len(comp_input)
      <4>3. m \in Nat /\ m <= Len(input) /\ end + 1 \in 1 .. m
        BY <1>1, <4>1
      <4> HIDE DEF m, end
      <4>4. SubSeq(input, 1, m)[end + 1] = input[end + 1]
        BY <1>1, <4>3
      <4> QED
        BY <4>2, <4>4 DEF m
    <3>3. \A n \in 1 .. next_segmentor - 1 : ~Takes(Segmentors[n], comp_input[end + 1])
      BY <1>1, <3>1 DEF RoundInv, EndRound
    <3>4. \A n \in DOMAIN Segmentors : n \in 1 .. next_segmentor - 1
      BY <1>1, SegmentorsAssumption DEF EndRound
    <3> QED
      BY <3>2, <3>3, <3>4 DEF IsTakenAt
  <2>4. ReachInv'
    BY <1>3, <2>1, <2>3 DEF ReachInv, IsTakenAt
  <2> QED
    BY <1>1, <1>3, <2>1, <2>4 DEF ProgressInv, TextInv, RoundInv, Offered
<1> QED
  BY <1>2, <1>3 DEF EndRound

\* The end of the composition stays where it is.
LEMMA FinishSegmentationProgress ==
  ASSUME Working, FinishSegmentation
  PROVE  ProgressInv'
<1> DEFINE segs == IF composition # <<>> /\ "placeholder" \in Last(composition).tags
                   THEN composition
                   ELSE Trim(composition)
           end  == GetCurrentEndPosition(composition)
<1>1. /\ composition' \in { segs, Forward(segs) }
      /\ UNCHANGED <<input, caret_pos, comp_input>>
      /\ pc' = "translators"
      /\ pc = "trim" \/ end >= Len(comp_input)
  BY DEF FinishSegmentation, ForwardIfSelected, HasFinishedSegmentation
<1>2. /\ Chain(composition) /\ Offered(composition) /\ TextInv /\ ReachInv
      /\ end \in Nat /\ caret_pos \in Nat /\ Len(comp_input) \in Nat
  BY EndPosition DEF Working, ProgressInv, CompositionInv
<1>3. Chain(segs) /\ Offered(segs) /\ GetCurrentEndPosition(segs) = end
  BY <1>2, TrimChain, OfferedTrim
<1> HIDE DEF segs
<1>4. Offered(composition') /\ GetCurrentEndPosition(composition') = end
  BY <1>1, <1>3, OfferedForward
<1>5. end < caret_pos => ~IsTakenAt(end)
  BY <1>1, <1>2 DEF ReachInv, TextInv
<1> HIDE DEF end
<1>6. ReachInv' /\ Offered(composition)'
  BY <1>1, <1>4, <1>5 DEF ReachInv, IsTakenAt, GetCurrentEndPosition, Offered
<1> QED
  BY <1>1, <1>2, <1>6 DEF ProgressInv, TextInv, RoundInv

\* A translation gives the segment its menu.
LEMMA TranslateProgress ==
  ASSUME Working, CompositionInv', TranslateSegment
  PROVE  ProgressInv'
<1> DEFINE i   == Min(Untranslated)
           seg == composition[i]
<1>1. PICK ends \in BoundedSeq((seg.start + 1) .. seg.end, MaxCandidates) :
        composition' = [ composition EXCEPT ![i] = Translated(seg, ends) ]
  BY DEF TranslateSegment
<1>2. UNCHANGED <<input, caret_pos, comp_input, engineVars>> /\ pc = "translators"
  BY DEF TranslateSegment
<1>3. /\ composition \in Seq(SegmentType) /\ Len(composition) \in Nat
      /\ DOMAIN composition = 1 .. Len(composition) /\ Chain(composition)
      /\ Offered(composition) /\ TextInv /\ ReachInv
  BY DEF Working, ProgressInv, CompositionInv, Chain
<1>4. i \in 1 .. Len(composition)
  <2>1. Untranslated # {} /\ Untranslated \in SUBSET Nat /\ Untranslated \subseteq 1 .. Len(composition)
    BY <1>3 DEF TranslateSegment, Untranslated
  <2> QED
    BY <2>1, MinNat
<1> DEFINE new == Translated(seg, ends)
<1>5. /\ new.start = seg.start /\ new.end = seg.end /\ new.menu \in Menu
  <2> HIDE DEF i
  <2> QED
    BY <1>1, <1>4, TranslatedSegment DEF Working
<1>6. new.menu # NoMenu
  BY <1>5, NoMenuAssumption
<1>7. Chain(composition')
  BY DEF CompositionInv, Chain
<1>8. /\ Len(composition') = Len(composition)
      /\ composition'[i] = new
      /\ \A j \in 1 .. Len(composition) : j # i => composition'[j] = composition[j]
  BY <1>1, <1>3, <1>4
<1> HIDE DEF i, seg, new
<1>9. GetCurrentEndPosition(composition') = GetCurrentEndPosition(composition)
  <2>1. Len(composition) \in 1 .. Len(composition) /\ composition # <<>> /\ composition' # <<>>
    BY <1>3, <1>4, <1>7, <1>8 DEF Chain
  <2>2. /\ Last(composition) = composition[Len(composition)]
        /\ Last(composition') = composition'[Len(composition)]
    BY <1>3, <1>7, <1>8, <2>1, ChainLast
  <2>3. composition'[Len(composition)].end = composition[Len(composition)].end
    BY <1>5, <1>8, <2>1 DEF seg
  <2> QED
    BY <2>1, <2>2, <2>3 DEF GetCurrentEndPosition
<1>10. Offered(composition')
  BY <1>3, <1>6, <1>8 DEF Offered
<1>11. Offered(composition)' /\ ReachInv'
  BY <1>2, <1>3, <1>9, <1>10 DEF Offered, ReachInv, IsTakenAt, GetCurrentEndPosition, engineVars
<1> QED
  BY <1>2, <1>3, <1>11 DEF ProgressInv, TextInv, RoundInv, engineVars

\* When the call returns, nothing is left to translate.
LEMMA FinishTranslationProgress ==
  ASSUME Working, FinishTranslation
  PROVE  ProgressInv'
<1>1. /\ UNCHANGED <<input, caret_pos, composition, comp_input>>
      /\ pc = "translators" /\ pc' \in {"idle", "resume"}
  BY DEF FinishTranslation, Return, contextVars
<1>2. Settled(composition)
  <2>1. /\ composition \in Seq(SegmentType) /\ DOMAIN composition = 1 .. Len(composition)
    BY DEF Working, CompositionInv, Chain
  <2>2. \A i \in 1 .. Len(composition) : ~(composition[i].status < kGuess)
    BY <2>1 DEF FinishTranslation, Untranslated
  <2>3. \A i \in 1 .. Len(composition) : composition[i].status \in Status
    <3>1. \A i \in 1 .. Len(composition) : composition[i] \in SegmentType
      BY <2>1
    <3> QED
      BY <3>1 DEF SegmentType
  <2> QED
    BY <2>2, <2>3 DEF Settled, Status, kVoid, kGuess, kConfirmed
<1> QED
  BY <1>1, <1>2 DEF Working, ProgressInv, TextInv, RoundInv, ReachInv, IsTakenAt, Offered, Settled

LEMMA EngineProgress ==
  ASSUME Working, CompositionInv', Engine
  PROVE  ProgressInv'
BY BeginRoundProgress, AsciiProgress, AbcProgress, PunctProgress, FallbackProgress,
   EndRoundProgress, FinishSegmentationProgress, TranslateProgress,
   FinishTranslationProgress DEF Engine

LEMMA InitProgress == Init => ProgressInv
<1> SUFFICES ASSUME Init PROVE ProgressInv
  OBVIOUS
<1>1. /\ input = <<>> /\ comp_input = <<>> /\ composition = <<>> /\ caret_pos = 0 /\ pc = "idle"
  BY DEF Init
<1>2. TextInv
  BY <1>1 DEF TextInv
<1>3. RoundInv /\ ReachInv
  BY <1>1 DEF RoundInv, ReachInv, GetCurrentEndPosition
<1>4. Offered(composition) /\ Settled(composition)
  BY <1>1 DEF Offered, Settled
<1> QED
  BY <1>2, <1>3, <1>4 DEF ProgressInv

LEMMA NextProgress == IInv /\ ProgressInv /\ [Next]_vars => ProgressInv'
<1> SUFFICES ASSUME IInv, ProgressInv, [Next]_vars PROVE ProgressInv'
  OBVIOUS
<1>1. CompositionInv /\ CompositionInv'
  BY NextIInv DEF IInv
<1>2. CASE Engine
  BY <1>1, <1>2, EngineProgress DEF Working
<1>3. CASE Resume \/ Key \/ API
  BY <1>1, <1>3, CallsAtRest, ResumeProgress, KeyProgress, APIProgress, ComposesProgress,
     KeepsProgress DEF Ready
<1>4. CASE UNCHANGED vars
  BY <1>4 DEF vars, ProgressInv, TextInv, RoundInv, ReachInv, Takes, IsTakenAt, Offered, Settled
<1> QED
  BY <1>2, <1>3, <1>4 DEF Next

LEMMA ProgressUpToDate == IInv /\ ProgressInv => UpToDate
<1> SUFFICES ASSUME IInv, ProgressInv, pc = "idle" PROVE UpToDate
  BY DEF UpToDate
<1>1. IsPrefix(comp_input, input)
  <2>1. comp_input \in Seq(Chars) /\ TextInv
    BY DEF IInv, CompositionInv, ProgressInv
  <2>2. SubSeq(comp_input, 1, Len(comp_input)) = comp_input
    BY <2>1
  <2> QED
    BY <2>1, <2>2 DEF IsPrefix, TextInv
<1>2. LET end == GetCurrentEndPosition(composition)
      IN  end < caret_pos => ~IsTakenAt(end)
  BY DEF ProgressInv, ReachInv
<1>3. \A i \in DOMAIN composition :
        \/ IsEmptySegment(composition[i])
        \/ composition[i].status >= kGuess /\ composition[i].menu # NoMenu
  <2>1. DOMAIN composition = 1 .. Len(composition)
    BY DEF IInv, CompositionInv, Chain
  <2> QED
    BY <2>1 DEF ProgressInv, Offered, Settled
<1> QED
  BY <1>1, <1>2, <1>3 DEF UpToDate

\* When a call returns, the composition is up to date whatever the schema's
\* segmentors and alphabet: the segments reach the caret or a character that no
\* segmentor takes, and all have been translated (CalculateSegmentation and
\* TranslateSegments in engine.cc).
THEOREM ComposedWhenIdle == Spec => []UpToDate
<1>1. IInv /\ ProgressInv /\ [Next]_vars => (IInv /\ ProgressInv)'
  BY NextIInv, NextProgress
<1> QED
  BY <1>1, InitIInv, InitProgress, ProgressUpToDate, PTL DEF Spec

-----------------------------------------------------------------------------
(* A selection stays.  A segment that the user has selected is never the    *)
(* last one, so that no operation on the last segment disturbs it, and an   *)
(* empty segment has nothing to select.                                     *)

Unselected(segs) == segs # <<>> => Last(segs).status < kSelected

Bare(seg) == IsEmptySegment(seg) /\ seg.menu # NoMenu => seg.menu.ends = <<>>

Answered(segs) == \A i \in 1 .. Len(segs) : Bare(segs[i])

Open(segs) == Unselected(segs) /\ Answered(segs)

\* The user has selected what comes before the last segment.
Behind(segs) == Len(segs) > 1 /\ segs[Len(segs) - 1].status >= kSelected

LEMMA CompositionChain ==
  ASSUME CompositionInv
  PROVE  /\ Chain(composition) /\ composition \in Seq(SegmentType)
         /\ Len(composition) \in Nat /\ DOMAIN composition = 1 .. Len(composition)
<1>1. Chain(composition)
  BY DEF CompositionInv
<1> QED
  BY <1>1 DEF Chain

\* The first k segments are the same.
Agree(old, new, k) == \A i \in 1 .. k : i \in 1 .. Len(new) /\ new[i] = old[i]

LEMMA OpenPrefix ==
  ASSUME NEW segs, Chain(segs), Answered(segs), NEW k \in 0 .. Len(segs)
  PROVE  /\ Chain(SubSeq(segs, 1, k)) /\ Answered(SubSeq(segs, 1, k))
         /\ Len(SubSeq(segs, 1, k)) = k /\ Agree(segs, SubSeq(segs, 1, k), k)
         /\ k < Len(segs) /\ SubSeq(segs, 1, k) # <<>> => ~IsEmptySegment(Last(SubSeq(segs, 1, k)))
<1> DEFINE prefix == SubSeq(segs, 1, k)
<1>1. Len(segs) \in Nat /\ k \in Nat
  BY DEF Chain
<1>2. Chain(prefix) /\ Len(prefix) = k /\ \A i \in 1 .. k : prefix[i] = segs[i]
  BY ChainPrefix
<1> HIDE DEF prefix
<1>3. Answered(prefix) /\ Agree(segs, prefix, k)
  BY <1>1, <1>2 DEF Answered, Agree
<1>4. ASSUME k < Len(segs), prefix # <<>> PROVE ~IsEmptySegment(Last(prefix))
  <2>1. k >= 1 /\ Last(prefix) = prefix[k]
    BY <1>2, <1>4, ChainLast
  <2>2. k \in 1 .. Len(segs) /\ prefix[k] = segs[k]
    BY <1>1, <1>2, <2>1
  <2> QED
    BY <1>4, <2>1, <2>2, ChainAt DEF IsEmptySegment
<1> QED
  BY <1>2, <1>3, <1>4 DEF prefix

\* Forward puts an empty segment behind a selected one.
LEMMA OpenForward ==
  ASSUME NEW segs, Chain(segs), Answered(segs),
         segs # <<>> => ~IsEmptySegment(Last(segs)) \/ Last(segs).status < kSelected
  PROVE  /\ Chain(Forward(segs)) /\ Open(Forward(segs))
         /\ Agree(segs, Forward(segs), Len(segs))
<1>1. segs \in Seq(SegmentType) /\ Len(segs) \in Nat
  BY DEF Chain
<1>2. CASE segs = <<>> \/ IsEmptySegment(Last(segs))
  BY <1>1, <1>2, ForwardChain DEF Forward, Open, Unselected, Agree
<1>3. CASE segs # <<>> /\ ~IsEmptySegment(Last(segs))
  <2> DEFINE new == Segment(Last(segs).end, Last(segs).end)
  <2>1. new \in SegmentType
    BY <1>3, ChainLast, EmptySegment DEF Proper
  <2>2. new.status < kSelected /\ Bare(new)
    BY DEF Segment, kVoid, kSelected, Bare
  <2>3. Forward(segs) = Append(segs, new)
    BY <1>3 DEF Forward
  <2> HIDE DEF new
  <2> DEFINE longer == Append(segs, new)
  <2>4. /\ Len(longer) = Len(segs) + 1 /\ longer[Len(segs) + 1] = new
        /\ \A i \in 1 .. Len(segs) : longer[i] = segs[i]
        /\ Last(longer) = new
    BY <1>1, <2>1 DEF Last
  <2> HIDE DEF longer
  <2>5. Answered(longer) /\ Agree(segs, longer, Len(segs)) /\ Unselected(longer)
    BY <1>1, <2>2, <2>4 DEF Answered, Agree, Unselected
  <2> QED
    BY <2>3, <2>5, ForwardChain DEF Open, longer
<1> QED
  BY <1>2, <1>3

\* Another last segment.
LEMMA OpenBack ==
  ASSUME NEW segs, Chain(segs), Answered(segs), segs # <<>>,
         NEW seg, Proper(seg), seg.start = Last(segs).start, Bare(seg)
  PROVE  /\ Chain(SetBack(segs, seg)) /\ Answered(SetBack(segs, seg))
         /\ SetBack(segs, seg) # <<>> /\ Last(SetBack(segs, seg)) = seg
         /\ Len(SetBack(segs, seg)) = Len(segs)
         /\ Agree(segs, SetBack(segs, seg), Len(segs) - 1)
<1> DEFINE n    == Len(segs) - 1
           back == SetBack(segs, seg)
<1>1. segs \in Seq(SegmentType) /\ Len(segs) \in Nat /\ Len(segs) >= 1 /\ n \in 0 .. Len(segs)
  BY ChainLast DEF Chain
<1>2. seg \in SegmentType
  BY DEF Proper
<1> DEFINE front == SubSeq(segs, 1, n)
<1>3. front \in Seq(SegmentType) /\ Len(front) = n /\ \A i \in 1 .. n : front[i] = segs[i]
  BY <1>1, ChainPrefix DEF Chain
<1>4. back = Append(front, seg)
  BY DEF SetBack, Front
<1> HIDE DEF front
<1>5. /\ Len(back) = Len(segs) /\ back[Len(segs)] = seg
      /\ \A i \in 1 .. n : back[i] = segs[i]
  BY <1>1, <1>2, <1>3, <1>4
<1>6. Chain(back) /\ back # <<>> /\ Last(back) = seg
  BY SetBackChain
<1> HIDE DEF back
<1>7. Answered(back) /\ Agree(segs, back, n)
  BY <1>1, <1>5 DEF Answered, Agree
<1> QED
  BY <1>5, <1>6, <1>7 DEF back

\* Segmentation::Trim drops an empty segment that nobody has selected.
LEMMA OpenTrim ==
  ASSUME NEW segs, Chain(segs), Answered(segs)
  PROVE  /\ Chain(Trim(segs)) /\ Answered(Trim(segs))
         /\ Agree(segs, Trim(segs), Len(segs) - 1)
         /\ CanTrim(segs) => /\ Len(Trim(segs)) = Len(segs) - 1
                             /\ Trim(segs) # <<>> => ~IsEmptySegment(Last(Trim(segs)))
<1>1. segs \in Seq(SegmentType) /\ Len(segs) \in Nat
  BY DEF Chain
<1>2. CASE CanTrim(segs)
  <2> DEFINE k == Len(segs) - 1
  <2>1. k \in 0 .. Len(segs) /\ k < Len(segs) /\ Trim(segs) = SubSeq(segs, 1, k)
    BY <1>2, ChainLast DEF CanTrim, Trim, Front
  <2> HIDE DEF k
  <2>2. /\ Chain(SubSeq(segs, 1, k)) /\ Answered(SubSeq(segs, 1, k))
        /\ Len(SubSeq(segs, 1, k)) = k /\ Agree(segs, SubSeq(segs, 1, k), k)
        /\ SubSeq(segs, 1, k) # <<>> => ~IsEmptySegment(Last(SubSeq(segs, 1, k)))
    BY <2>1, OpenPrefix
  <2> QED
    BY <2>1, <2>2 DEF k
<1>3. CASE ~CanTrim(segs)
  BY <1>1, <1>3 DEF Trim, Agree
<1> QED
  BY <1>2, <1>3

\* What lies before the difference of the two inputs stays.
LEMMA OpenReset ==
  ASSUME NEW segs, Chain(segs), Open(segs),
         NEW S, NEW old \in Seq(S), NEW new \in Seq(S)
  PROVE  /\ Chain(Reset(segs, old, new)) /\ Open(Reset(segs, old, new))
         /\ \A i \in 1 .. Len(segs) :
              segs[i].end <= DiffPos(old, new) =>
                i \in 1 .. Len(Reset(segs, old, new)) /\ Reset(segs, old, new)[i] = segs[i]
<1> DEFINE below == { i \in DOMAIN segs : segs[i].end <= DiffPos(old, new) }
           kept  == MaxOrZero(below)
           reset == Reset(segs, old, new)
<1>1. Len(segs) \in Nat /\ DOMAIN segs = 1 .. Len(segs)
  BY DEF Chain
<1>2. below \in SUBSET (0 .. Len(segs))
  BY <1>1
<1>3. kept \in 0 .. Len(segs) /\ kept <= Len(segs) /\ \A i \in below : kept >= i
  <2> HIDE DEF below
  <2> QED
    BY <1>1, <1>2, MaxOrZeroNat
<1>4. Chain(reset) /\ kept \in Nat /\ kept <= Len(segs)
  <2> HIDE DEF kept, below
  <2> QED
    BY <1>1, <1>3, ResetChain
<1>5. reset = IF kept = Len(segs) THEN segs ELSE Forward(SubSeq(segs, 1, kept))
  BY Zenon DEF Reset
<1>6. \A i \in 1 .. Len(segs) : segs[i].end <= DiffPos(old, new) => i \in 1 .. kept
  <2>1. \A i \in 1 .. Len(segs) : segs[i].end <= DiffPos(old, new) => i \in below
    BY <1>1
  <2> HIDE DEF below, kept
  <2> QED
    BY <1>1, <1>3, <2>1
<1> HIDE DEF kept, below, reset
<1>7. CASE kept = Len(segs)
  BY <1>4, <1>5, <1>7 DEF reset
<1>8. CASE kept # Len(segs)
  <2> DEFINE prefix == SubSeq(segs, 1, kept)
  <2>1. kept < Len(segs)
    <3>1. Len(segs) \in Nat
      BY <1>1
    <3>2. kept \in Nat /\ kept <= Len(segs)
      BY <1>4
    <3> QED
      BY <1>8, <3>1, <3>2
  <2>2. /\ Chain(prefix) /\ Answered(prefix) /\ Len(prefix) = kept /\ Agree(segs, prefix, kept)
        /\ prefix # <<>> => ~IsEmptySegment(Last(prefix))
    BY <1>3, <2>1, OpenPrefix DEF Open
  <2> HIDE DEF prefix
  <2>3. Open(Forward(prefix)) /\ Agree(prefix, Forward(prefix), kept)
    BY <2>2, OpenForward
  <2>4. reset = Forward(prefix)
    BY <1>5, <1>8 DEF prefix
  <2>5. \A i \in 1 .. kept : i \in 1 .. Len(reset) /\ reset[i] = segs[i]
    BY <2>2, <2>3, <2>4 DEF Agree
  <2> QED
    BY <1>4, <1>6, <2>3, <2>4, <2>5 DEF reset
<1> QED
  BY <1>7, <1>8

\* Two texts that agree up to a position do not differ before it.
LEMMA AgreedDiffPos ==
  ASSUME NEW S, NEW old \in Seq(S), NEW new \in Seq(S), NEW e \in 0 .. Len(old),
         e <= Len(new), \A i \in 1 .. e : old[i] = new[i]
  PROVE  DiffPos(old, new) >= e
<1> DEFINE agree == { k \in 0 .. Len(old) : AgreeUpTo(old, new, k) }
<1>1. e \in agree /\ agree \in SUBSET (0 .. Len(old)) /\ Len(old) \in Nat
  BY DEF AgreeUpTo
<1>2. DiffPos(old, new) = Max(agree)
  BY DEF DiffPos
<1> HIDE DEF agree
<1> QED
  BY <1>1, <1>2, MaxNat

-----------------------------------------------------------------------------
Chosen(seg) == seg.status >= kSelected /\ HasSelectedCandidate(seg)

Holds(segs) ==
  \A i \in 1 .. Len(composition) :
    Chosen(composition[i]) => i \in 1 .. Len(segs) /\ SameChoice(composition[i], segs[i])

\* What a call makes of the segments before the engine composes them.
Leaves(segs) == Chain(segs) /\ Open(segs) /\ (Reopens \/ Holds(segs))

\* The last segment is over the same text with the same menu, or has none to show.
SameTail(segs) ==
  segs # <<>> /\ Last(segs).menu # NoMenu =>
    /\ composition # <<>>
    /\ \A field \in {"start", "end", "menu"} : Last(segs)[field] = Last(composition)[field]
    /\ Last(composition).tags \subseteq Last(segs).tags
    /\ Behind(composition) => Behind(segs)

Calls ==
  \/ \E k : Clear(k)
  \/ \E segs, k : Leaves(segs) /\ SameTail(segs) /\ Edit(segs, k)
  \/ \E segs, text, caret, k : Leaves(segs) /\ Compose(text, caret, segs, k)

AtRest == Ready /\ Open(composition)

\* Composing keeps the segments before the change and before the caret.
LEMMA ComposeStands ==
  ASSUME CompositionInv, CompositionInv', NEW segs, Chain(segs), Open(segs),
         NEW text, NEW caret, NEW k, Compose(text, caret, segs, k)
  PROVE  /\ Open(composition')
         /\ \A i \in 1 .. Len(segs) :
              /\ segs[i].end \in 0 .. Len(comp_input)
              /\ IsPrefix(SubSeq(comp_input, 1, segs[i].end), text)
              /\ caret >= segs[i].end
              => i \in 1 .. Len(composition') /\ composition'[i] = segs[i]
<1> DEFINE active_input == SubSeq(text, 1, caret)
           active       == Reset(segs, comp_input, active_input)
           whole        == Reset(active, active_input, text)
<1>1. composition' = active \/ composition' = whole
  BY DEF Compose
<1>2. /\ text \in Seq(Chars) /\ caret \in 0 .. Len(text) /\ Len(text) \in Nat
      /\ comp_input \in Seq(Chars) /\ Len(comp_input) \in Nat
  <2>1. input' = text /\ caret_pos' = caret
    BY DEF Compose
  <2> QED
    BY <2>1 DEF CompositionInv
<1>3. /\ active_input \in Seq(Chars) /\ Len(active_input) = caret
      /\ \A j \in 1 .. caret : active_input[j] = text[j]
  BY <1>2, CutText
<1> HIDE DEF active_input
<1>4. /\ Chain(active) /\ Open(active)
      /\ \A i \in 1 .. Len(segs) :
           segs[i].end <= DiffPos(comp_input, active_input) =>
             i \in 1 .. Len(active) /\ active[i] = segs[i]
  BY <1>2, <1>3, OpenReset
<1> HIDE DEF active
<1>5. /\ Open(whole)
      /\ \A i \in 1 .. Len(active) :
           active[i].end <= DiffPos(active_input, text) =>
             i \in 1 .. Len(whole) /\ whole[i] = active[i]
  BY <1>2, <1>3, <1>4, OpenReset
<1> HIDE DEF whole
<1>6. DiffPos(active_input, text) >= caret /\ DiffPos(active_input, text) \in Nat
  <2>1. caret \in 0 .. Len(active_input) /\ caret <= Len(text)
    BY <1>2, <1>3
  <2>2. DiffPos(active_input, text) >= caret
    BY <1>2, <1>3, <2>1, AgreedDiffPos
  <2>3. DiffPos(active_input, text) \in 0 .. Len(active_input)
    BY <1>2, <1>3, DiffPosBound
  <2>4. Len(active_input) \in Nat
    BY <1>3
  <2> QED
    BY <2>2, <2>3, <2>4
<1>7. ASSUME NEW i \in 1 .. Len(segs), segs[i].end \in 0 .. Len(comp_input),
             IsPrefix(SubSeq(comp_input, 1, segs[i].end), text), caret >= segs[i].end
      PROVE  i \in 1 .. Len(composition') /\ composition'[i] = segs[i]
  <2> DEFINE e   == segs[i].end
             cut == SubSeq(comp_input, 1, e)
  <2> HIDE DEF e
  <2>1. /\ cut \in Seq(Chars) /\ Len(cut) = e /\ e \in Nat
        /\ \A j \in 1 .. e : cut[j] = comp_input[j]
    BY <1>2, <1>7, CutText DEF e
  <2>2. Len(cut) <= Len(text) /\ SubSeq(cut, 1, Len(cut)) = SubSeq(text, 1, Len(cut))
    BY <1>7 DEF IsPrefix, e
  <2>3. \A j \in 1 .. e : comp_input[j] = text[j]
    <3>1. SubSeq(cut, 1, e) = cut
      <4> HIDE DEF cut
      <4> QED
        BY <2>1
    <3>2. \A j \in 1 .. e : SubSeq(text, 1, e)[j] = text[j]
      <4>1. e \in 0 .. Len(text)
        BY <1>2, <2>1, <2>2
      <4> QED
        BY <1>2, <4>1
    <3> HIDE DEF cut
    <3> QED
      BY <2>1, <2>2, <3>1, <3>2
  <2>4. e \in 0 .. Len(comp_input) /\ e <= caret
    BY <1>7 DEF e
  <2> HIDE DEF cut
  <2>5. \A j \in 1 .. e : comp_input[j] = active_input[j]
    BY <1>2, <1>3, <2>3, <2>4
  <2>6. DiffPos(comp_input, active_input) >= e /\ DiffPos(comp_input, active_input) \in Nat
    <3>1. e <= Len(active_input)
      BY <1>3, <2>4
    <3>2. DiffPos(comp_input, active_input) >= e
      BY <1>2, <1>3, <2>4, <2>5, <3>1, AgreedDiffPos
    <3>3. DiffPos(comp_input, active_input) \in Nat
      BY <1>2, <1>3, DiffPosBound
    <3> QED
      BY <3>2, <3>3
  <2>7. i \in 1 .. Len(active) /\ active[i] = segs[i]
    BY <1>4, <2>4, <2>6 DEF e
  <2>8. active[i].end <= DiffPos(active_input, text)
    BY <1>2, <1>6, <2>4, <2>7 DEF e
  <2> QED
    BY <1>1, <1>5, <2>7, <2>8
<1> QED
  BY <1>1, <1>4, <1>5, <1>7

\* A segment that has been selected with a candidate is not empty.
LEMMA ChosenBelow ==
  ASSUME CompositionInv, Open(composition), NEW i \in 1 .. Len(composition),
         Chosen(composition[i])
  PROVE  /\ i \in 1 .. Len(composition) - 1
         /\ composition[i].end \in 0 .. Len(comp_input) /\ composition[i].end > 0
<1>1. Chain(composition) /\ Fits(composition, Len(comp_input)) /\ Len(comp_input) \in Nat
      /\ Len(composition) \in Nat
  BY DEF CompositionInv, Chain
<1>2. i # Len(composition)
  <2>1. i = Len(composition) => Last(composition) = composition[i] /\ composition # <<>>
    BY <1>1, ChainLast
  <2>2. Chosen(composition[i]) /\ composition[i].status \in Int
    BY <1>1, ChainAt DEF Proper, SegmentType, Status, kVoid, kConfirmed
  <2> QED
    BY <2>1, <2>2 DEF Open, Unselected, Chosen, kSelected
<1>3. i < Len(composition)
  BY <1>1, <1>2
<1>4. composition[i].start \in Nat /\ composition[i].end \in Nat
      /\ composition[i].start <= composition[i].end
      /\ composition[i].start # composition[i].end
  BY <1>1, <1>3, ChainAt
<1> QED
  BY <1>1, <1>3, <1>4 DEF Fits

\* A call leaves the selections that it does not reopen.
LEMMA CallsStand ==
  ASSUME AtRest, Calls, CompositionInv'
  PROVE  Open(composition') /\ SelectionStands
<1>1. CompositionInv /\ Open(composition) /\ DOMAIN composition = 1 .. Len(composition)
      /\ DOMAIN composition' = 1 .. Len(composition')
  BY DEF AtRest, Ready, CompositionInv, Chain
<1>2. ASSUME Open(composition'),
             ASSUME NEW i \in 1 .. Len(composition), Chosen(composition[i]), ~Reopens,
                    composition[i].end \in 0 .. Len(comp_input), composition[i].end > 0,
                    IsPrefix(SubSeq(comp_input, 1, composition[i].end), input'),
                    caret_pos' >= composition[i].end
             PROVE  i \in 1 .. Len(composition') /\ SameChoice(composition[i], composition'[i])
      PROVE  Open(composition') /\ SelectionStands
  BY <1>1, <1>2, ChosenBelow DEF SelectionStands, Chosen
<1>3. CASE \E k : Clear(k)
  <2>1. PICK k : Compose(<<>>, 0, <<>>, k)
    BY <1>3 DEF Clear
  <2>2. Chain(<<>>) /\ Open(<<>>) /\ caret_pos' = 0
    BY <2>1 DEF Chain, Open, Unselected, Answered, Compose
  <2>3. Open(composition')
    BY <1>1, <2>1, <2>2, ComposeStands
  <2>4. \A e \in 0 .. Len(comp_input) : e > 0 => ~(caret_pos' >= e)
    BY <2>2 DEF Ready, CompositionInv
  <2> QED
    BY <1>2, <2>3, <2>4
<1>4. CASE \E segs, k : Leaves(segs) /\ SameTail(segs) /\ Edit(segs, k)
  <2>1. PICK segs : Leaves(segs) /\ composition' = segs
    BY <1>4 DEF Edit
  <2>2. Open(composition')
    BY <2>1 DEF Leaves
  <2> QED
    BY <1>2, <2>1, <2>2 DEF Leaves, Holds
<1>5. CASE \E segs, text, caret, k : Leaves(segs) /\ Compose(text, caret, segs, k)
  <2>1. PICK segs, text, caret, k : Leaves(segs) /\ Compose(text, caret, segs, k)
    BY <1>5
  <2>2. Chain(segs) /\ Open(segs) /\ input' = text /\ caret_pos' = caret
    BY <2>1 DEF Leaves, Compose
  <2>3. /\ Open(composition')
        /\ \A i \in 1 .. Len(segs) :
              /\ segs[i].end \in 0 .. Len(comp_input)
              /\ IsPrefix(SubSeq(comp_input, 1, segs[i].end), text)
              /\ caret >= segs[i].end
              => i \in 1 .. Len(composition') /\ composition'[i] = segs[i]
    BY <1>1, <2>1, <2>2, ComposeStands
  <2>4. ASSUME NEW i \in 1 .. Len(composition), Chosen(composition[i]), ~Reopens,
               composition[i].end \in 0 .. Len(comp_input),
               IsPrefix(SubSeq(comp_input, 1, composition[i].end), input'),
               caret_pos' >= composition[i].end
        PROVE  i \in 1 .. Len(composition') /\ SameChoice(composition[i], composition'[i])
    <3>1. i \in 1 .. Len(segs) /\ SameChoice(composition[i], segs[i])
      BY <2>1, <2>4 DEF Leaves, Holds
    <3>2. segs[i].end = composition[i].end
      BY <3>1 DEF SameChoice
    <3>3. i \in 1 .. Len(composition') /\ composition'[i] = segs[i]
      BY <2>2, <2>3, <2>4, <3>1, <3>2
    <3> QED
      BY <3>1, <3>3
  <2> QED
    BY <1>2, <2>3, <2>4
<1> QED
  BY <1>3, <1>4, <1>5 DEF Calls

-----------------------------------------------------------------------------
(* The calls of the context leave the selections as they are.              *)

\* No segment below the last one is disturbed.
LEMMA AgreedHolds ==
  ASSUME CompositionInv, Open(composition), NEW segs,
         Agree(composition, segs, Len(composition) - 1)
  PROVE  Holds(segs)
BY ChosenBelow DEF Holds, Agree, SameChoice, Chosen

LEMMA CompositionLeaves ==
  ASSUME AtRest
  PROVE  /\ Leaves(composition) /\ SameTail(composition)
         /\ CompositionInv /\ Open(composition) /\ Chain(composition)
<1>1. CompositionInv /\ Open(composition) /\ Chain(composition) /\ Len(composition) \in Nat
  BY DEF AtRest, Ready, CompositionInv, Chain
<1>2. Agree(composition, composition, Len(composition) - 1)
  BY <1>1 DEF Agree
<1> QED
  BY <1>1, <1>2, AgreedHolds DEF Leaves, SameTail

LEMMA StayStands ==
  ASSUME AtRest, NEW k, Stay(k)
  PROVE  Calls
<1>1. Edit(composition, k)
  BY DEF Stay, Edit
<1> QED
  BY <1>1, CompositionLeaves, Zenon DEF Calls

LEMMA CommitStands ==
  ASSUME AtRest, NEW k, Commit(k)
  PROVE  Calls
BY StayStands, Zenon DEF Commit, Calls

LEMMA InputStands ==
  ASSUME AtRest, NEW text, NEW caret, NEW k, Compose(text, caret, composition, k)
  PROVE  Calls
BY CompositionLeaves, Zenon DEF Calls

\* Another last segment that is not selected, over the same text with the same menu.
LEMMA AdjustedLeaves ==
  ASSUME AtRest, composition # <<>>, NEW seg \in SegmentType, seg.status < kSelected,
         \A field \in {"start", "end", "menu"} : seg[field] = Last(composition)[field]
  PROVE  /\ Leaves(SetBack(composition, seg))
         /\ Last(composition).tags \subseteq seg.tags => SameTail(SetBack(composition, seg))
<1> DEFINE old == Last(composition)
<1>1. /\ CompositionInv /\ Chain(composition) /\ Open(composition)
      /\ Proper(old) /\ old = composition[Len(composition)]
      /\ Len(composition) \in 1 .. Len(composition)
  BY CompositionLeaves, ChainLast
<1> HIDE DEF old
<1>2. seg.start = old.start /\ seg.end = old.end /\ seg.menu = old.menu
  BY DEF old
<1>3. Proper(seg) /\ Bare(seg)
  BY <1>1, <1>2 DEF Proper, Bare, IsEmptySegment, Open, Answered
<1>4. /\ Chain(SetBack(composition, seg)) /\ Answered(SetBack(composition, seg))
      /\ Last(SetBack(composition, seg)) = seg
      /\ Len(SetBack(composition, seg)) = Len(composition)
      /\ Agree(composition, SetBack(composition, seg), Len(composition) - 1)
  BY <1>1, <1>2, <1>3, OpenBack DEF Open, old
<1>5. ASSUME Last(composition).tags \subseteq seg.tags
      PROVE  SameTail(SetBack(composition, seg))
  <2> DEFINE segs == SetBack(composition, seg)
             n    == Len(composition) - 1
  <2> HIDE DEF segs
  <2>1. /\ Len(composition) \in Nat /\ Last(segs) = seg /\ Len(segs) = Len(composition)
        /\ \A i \in 1 .. n : segs[i] = composition[i]
    BY <1>1, <1>4 DEF Agree, segs, Chain
  <2>2. Behind(composition) => Behind(segs)
    BY <2>1 DEF Behind
  <2> QED
    BY <1>5, <2>1, <2>2 DEF SameTail, segs
<1> QED
  BY <1>1, <1>4, <1>5, AgreedHolds DEF Leaves, Open, Unselected

\* A selected segment that is not empty, and the empty one that Forward puts behind it.
LEMMA ForwardLeaves ==
  ASSUME AtRest, NEW segs, Chain(segs), Answered(segs), segs # <<>>,
         Len(segs) = Len(composition), Agree(composition, segs, Len(composition) - 1),
         NEW seg, Proper(seg), seg.start = Last(segs).start, ~IsEmptySegment(seg)
  PROVE  Leaves(Forward(SetBack(segs, seg))) /\ SameTail(Forward(SetBack(segs, seg)))
<1> DEFINE back == SetBack(segs, seg)
           n    == Len(composition) - 1
<1>1. CompositionInv /\ Open(composition) /\ Len(composition) \in Nat
  BY CompositionLeaves DEF Chain
<1>2. Bare(seg)
  BY DEF Bare
<1>3. /\ Chain(back) /\ Answered(back) /\ back # <<>> /\ Last(back) = seg
      /\ Len(back) = Len(composition) /\ Agree(segs, back, n)
  BY <1>2, OpenBack
<1> HIDE DEF back
<1>4. /\ Chain(Forward(back)) /\ Open(Forward(back))
      /\ Agree(back, Forward(back), Len(composition))
  BY <1>3, OpenForward
<1>5. Agree(composition, Forward(back), n)
  BY <1>1, <1>3, <1>4 DEF Agree
<1>6. SameTail(Forward(back))
  <2> DEFINE new == Segment(Last(back).end, Last(back).end)
  <2>1. Forward(back) = Append(back, new)
    BY <1>3 DEF Forward
  <2>2. new \in SegmentType /\ new.menu = NoMenu
    BY <1>3, ChainLast, EmptySegment DEF Proper, Segment
  <2>3. back \in Seq(SegmentType)
    BY <1>3 DEF Chain
  <2> HIDE DEF new
  <2>4. Last(Append(back, new)) = new
    BY <2>2, <2>3 DEF Last
  <2> QED
    BY <2>1, <2>2, <2>4 DEF SameTail
<1> QED
  BY <1>1, <1>4, <1>5, <1>6, AgreedHolds DEF Leaves, back

\* ConcreteEngine::OnSelect.
LEMMA OnSelectStands ==
  ASSUME AtRest, composition # <<>>, NEW selected \in SegmentType, ~IsEmptySegment(selected),
         \A field \in {"start", "end", "menu"} : selected[field] = Last(composition)[field],
         NEW k, OnSelect(SetBack(composition, selected), k)
  PROVE  Calls
<1> DEFINE segs      == SetBack(composition, selected)
           seg       == Close(Last(segs))
           confirmed == [ seg EXCEPT !.status = kConfirmed ]
           caret     == IF seg.end >= caret_pos THEN Len(input) ELSE caret_pos
<1>1. \/ Clear(k)
      \/ Edit(Forward(SetBack(segs, confirmed)), k)
      \/ Compose(input, caret, Forward(SetBack(segs, seg)), k)
  BY DEF OnSelect
<1>2. CompositionInv /\ Chain(composition) /\ Open(composition) /\ Proper(Last(composition))
  BY CompositionLeaves, ChainLast
<1>3. /\ selected.start = Last(composition).start /\ selected.end = Last(composition).end
      /\ selected.menu = Last(composition).menu
  OBVIOUS
<1>4. Proper(selected) /\ Bare(selected)
  BY <1>2, <1>3 DEF Proper, Bare
<1>5. /\ Chain(segs) /\ Answered(segs) /\ segs # <<>> /\ Last(segs) = selected
      /\ Len(segs) = Len(composition) /\ Agree(composition, segs, Len(composition) - 1)
  BY <1>2, <1>3, <1>4, OpenBack DEF Open
<1> HIDE DEF segs
<1>6. Proper(seg) /\ seg.start = selected.start /\ seg.start # seg.end
  BY <1>4, <1>5, CloseProper DEF IsEmptySegment
<1> HIDE DEF seg, caret
<1>7. Proper(confirmed) /\ confirmed.start = seg.start /\ confirmed.end = seg.end
  BY <1>6 DEF Proper, SegmentType, Status, kVoid, kConfirmed
<1> HIDE DEF confirmed
<1>8. /\ Leaves(Forward(SetBack(segs, seg))) /\ Leaves(Forward(SetBack(segs, confirmed)))
      /\ SameTail(Forward(SetBack(segs, confirmed)))
  BY <1>5, <1>6, <1>7, ForwardLeaves DEF IsEmptySegment
<1> QED
  BY <1>1, <1>8, Zenon DEF Calls

\* Context::Select: a menu with a candidate is that of a segment that is not empty.
LEMMA SelectStands ==
  ASSUME AtRest, NEW index \in Nat, NEW k, Select(index, k)
  PROVE  Calls
<1> DEFINE seg == [ Last(composition) EXCEPT !.selected_index = index,
                                             !.status = kSelected ]
<1>1. /\ composition # <<>> /\ Last(composition).menu # NoMenu
      /\ index < Len(Last(composition).menu.ends)
      /\ OnSelect(SetBack(composition, seg), k)
  BY DEF Select, CanSelect
<1>2. /\ Last(composition) \in SegmentType /\ Bare(Last(composition))
  BY <1>1, CompositionLeaves, ChainLast DEF Open, Answered, Proper
<1>3. ~IsEmptySegment(Last(composition))
  <2>1. Last(composition).menu.ends # <<>>
    BY <1>1
  <2> QED
    BY <1>1, <1>2, <2>1 DEF Bare
<1>4. kSelected \in Status
  BY DEF Status, kVoid, kSelected, kConfirmed
<1>5. /\ seg \in SegmentType
      /\ \A field \in {"start", "end", "menu"} : seg[field] = Last(composition)[field]
  BY <1>2, <1>4 DEF SegmentType
<1> HIDE DEF seg
<1>6. ~IsEmptySegment(seg)
  BY <1>3, <1>5 DEF IsEmptySegment
<1> QED
  BY <1>1, <1>5, <1>6, OnSelectStands

\* Context::ConfirmCurrentSelection.
LEMMA ConfirmStands ==
  ASSUME AtRest, NEW k, ConfirmCurrentSelection(k)
  PROVE  Calls
<1> DEFINE seg == [ Last(composition) EXCEPT !.status = kSelected ]
<1>1. /\ composition # <<>> /\ OnSelect(SetBack(composition, seg), k)
      /\ SelectedCandidate \/ ~IsEmptySegment(Last(composition))
  BY DEF ConfirmCurrentSelection, CanConfirm, SelectBack
<1>2. /\ Last(composition) \in SegmentType /\ Bare(Last(composition))
  BY <1>1, CompositionLeaves, ChainLast DEF Open, Answered, Proper
<1>3. ~IsEmptySegment(Last(composition))
  <2>1. SelectedCandidate => /\ Last(composition).menu # NoMenu
                             /\ Last(composition).menu.ends # <<>>
    BY <1>2 DEF SelectedCandidate, HasSelectedCandidate, SegmentType
  <2> QED
    BY <1>1, <1>2, <2>1 DEF Bare
<1>4. /\ seg \in SegmentType
      /\ \A field \in {"start", "end", "menu"} : seg[field] = Last(composition)[field]
      /\ seg.start = Last(composition).start /\ seg.end = Last(composition).end
  BY <1>2 DEF SegmentType, Status, kVoid, kSelected, kConfirmed
<1> HIDE DEF seg
<1>5. ~IsEmptySegment(seg)
  BY <1>3, <1>4 DEF IsEmptySegment
<1> QED
  BY <1>1, <1>4, <1>5, OnSelectStands

\* Context::Highlight.
LEMMA HighlightStands ==
  ASSUME AtRest, NEW index \in Nat, NEW k, Highlight(index, k)
  PROVE  Calls
<1> DEFINE seg == [ Last(composition) EXCEPT !.selected_index = HighlightIndex(index) ]
<1>1. /\ composition # <<>> /\ Last(composition).menu # NoMenu
      /\ Compose(input, caret_pos, SetBack(composition, seg), k)
  BY DEF Highlight, CanHighlight
<1>2. /\ Last(composition) \in SegmentType /\ Last(composition).menu \in Menu
      /\ Last(composition).status < kSelected
  BY <1>1, CompositionLeaves, BackType DEF SegmentType, Open, Unselected
<1>3. HighlightIndex(index) \in Nat
  BY <1>2 DEF HighlightIndex, Menu
<1>4. /\ seg \in SegmentType /\ seg.status = Last(composition).status
      /\ \A field \in {"start", "end", "menu"} : seg[field] = Last(composition)[field]
  BY <1>2, <1>3 DEF SegmentType
<1> HIDE DEF seg
<1>5. Leaves(SetBack(composition, seg))
  BY <1>1, <1>2, <1>4, AdjustedLeaves
<1> QED
  BY <1>1, <1>5, Zenon DEF Calls

\* Marking a selection leaves it as it is.
LEMMA EditedLeaves ==
  ASSUME AtRest
  PROVE  Leaves(Edited) /\ SameTail(Edited)
<1> DEFINE marked(seg) == [ seg EXCEPT !.tags = @ \cup {"selected_before_editing"} ]
           marks == Edited
           n == Len(composition)
<1>1. \A seg \in SegmentType :
        /\ marked(seg).start = seg.start /\ marked(seg).end = seg.end
        /\ marked(seg).status = seg.status /\ marked(seg).menu = seg.menu
        /\ marked(seg).selected_index = seg.selected_index
        /\ seg.tags \subseteq marked(seg).tags
  BY DEF SegmentType
<1>2. /\ composition \in Seq(SegmentType) /\ n \in Nat /\ DOMAIN composition = 1 .. n
      /\ CompositionInv /\ Open(composition) /\ Chain(composition)
  BY CompositionLeaves DEF Chain
<1>3. Chain(marks) /\ DOMAIN marks = 1 .. n
  <2>1. DOMAIN marks = DOMAIN composition
    BY DEF Edited
  <2> QED
    BY <1>2, <2>1, EditedChain
<1>4. \A i \in 1 .. n : marks[i] \in {composition[i], marked(composition[i])}
  BY <1>2 DEF Edited
<1>5. \A i \in 1 .. n : composition[i] \in SegmentType
  BY <1>2
<1> HIDE DEF marked, marks
<1>6. \A i \in 1 .. n :
        /\ marks[i].start = composition[i].start /\ marks[i].end = composition[i].end
        /\ marks[i].status = composition[i].status /\ marks[i].menu = composition[i].menu
        /\ marks[i].selected_index = composition[i].selected_index
        /\ composition[i].tags \subseteq marks[i].tags
  BY <1>1, <1>4, <1>5
<1>7. Len(marks) = n
  BY <1>3, <1>2 DEF Chain
<1>8. Answered(marks) /\ Holds(marks)
  BY <1>2, <1>6, <1>7 DEF Open, Answered, Bare, IsEmptySegment, Holds, SameChoice, Chosen
<1>9. Unselected(marks) /\ SameTail(marks)
  <2>1. marks # <<>> => /\ composition # <<>> /\ n \in 1 .. n
                        /\ Last(marks) = marks[n] /\ Last(composition) = composition[n]
    BY <1>2, <1>3, <1>7, ChainLast
  <2>2. Behind(composition) => Behind(marks)
    <3>1. n > 1 => n - 1 \in 1 .. n
      BY <1>2
    <3> QED
      BY <1>6, <1>7, <3>1 DEF Behind
  <2> HIDE DEF n
  <2> QED
    BY <1>2, <1>6, <2>1, <2>2 DEF Open, Unselected, SameTail
<1> QED
  BY <1>3, <1>8, <1>9 DEF Leaves, Open, marks

LEMMA BeginEditingStands ==
  ASSUME AtRest, NEW k, BeginEditing(k)
  PROVE  Calls
BY EditedLeaves, Zenon DEF BeginEditing, Calls

\* A segment that is reopened is not selected any more.
LEMMA OpenReopen ==
  ASSUME NEW segs, Chain(segs), Answered(segs)
  PROVE  Chain(ReopenBack(segs)) /\ Open(ReopenBack(segs))
<1> DEFINE old == Last(segs)
           seg == Reopen(old, caret_pos)
<1>1. CASE segs = <<>>
  BY <1>1 DEF ReopenBack, Open, Unselected
<1>2. CASE segs # <<>>
  <2>1. /\ Proper(old) /\ old \in SegmentType /\ Bare(old)
    BY <1>2, ChainLast DEF Proper, Answered
  <2> HIDE DEF old
  <2>2. Proper(seg) /\ seg.start = old.start
    BY <2>1, ReopenProper
  <2>3. /\ seg.menu = old.menu /\ seg.status < kSelected
        /\ seg.end = old.end \/ seg.end > old.end
    BY <2>1 DEF Reopen, SegmentType, Status, kVoid, kGuess, kSelected, kConfirmed
  <2> HIDE DEF seg
  <2>4. Bare(seg)
    BY <2>1, <2>2, <2>3 DEF Bare, IsEmptySegment, Proper, SegmentType
  <2>5. ReopenBack(segs) = SetBack(segs, seg)
    BY <1>2 DEF ReopenBack, seg, old
  <2> QED
    BY <1>2, <2>2, <2>3, <2>4, <2>5, OpenBack DEF old, Open, Unselected
<1> QED
  BY <1>1, <1>2

LEMMA ReopenStands ==
  ASSUME AtRest, Reopens, NEW k, ReopenPreviousSegment(k) \/ ReopenPreviousSelection(k)
  PROVE  Calls
<1>1. CompositionInv /\ Chain(composition) /\ Answered(composition)
  BY CompositionLeaves DEF Open
<1>2. PICK segs \in { Trim(composition), SubSeq(composition, 1, LastSelected) } :
        Compose(input, caret_pos, ReopenBack(segs), k)
  BY DEF ReopenPreviousSegment, ReopenPreviousSelection
<1>3. Chain(segs) /\ Answered(segs)
  BY <1>1, <1>2, OpenTrim, LastSelectedIndex, OpenPrefix
<1>4. Leaves(ReopenBack(segs))
  BY <1>3, OpenReopen DEF Leaves
<1> QED
  BY <1>2, <1>4, Zenon DEF Calls

\* Context::ClearNonConfirmedComposition drops what comes after the last selection.
LEMMA ConfirmedLeaves ==
  ASSUME AtRest
  PROVE  Leaves(Confirmed)
<1> DEFINE selected == { i \in DOMAIN composition : composition[i].status >= kSelected }
           n == MaxOrZero(selected)
           prefix == SubSeq(composition, 1, n)
<1>1. /\ CompositionInv /\ Open(composition) /\ Chain(composition)
      /\ Len(composition) \in Nat /\ DOMAIN composition = 1 .. Len(composition)
  BY CompositionLeaves DEF Chain
<1>2. selected \in SUBSET (0 .. Len(composition))
  BY <1>1
<1>3. n \in 0 .. Len(composition) /\ (selected # {} => n \in selected)
      /\ \A i \in selected : n >= i
  <2> HIDE DEF selected
  <2> QED
    BY <1>1, <1>2, MaxOrZeroNat
<1>4. Confirmed = IF NonConfirmed THEN Forward(prefix) ELSE composition
  BY Zenon DEF Confirmed
<1>5. CASE ~NonConfirmed
  BY <1>4, <1>5, CompositionLeaves
<1>6. CASE NonConfirmed
  <2>1. n < Len(composition)
    <3>1. /\ composition # <<>> /\ Len(composition) >= 1
          /\ composition[Len(composition)].status < kSelected
          /\ composition[Len(composition)] \in SegmentType
      BY <1>1, <1>6, ChainLast DEF NonConfirmed, Proper
    <3>2. Len(composition) \notin selected
      BY <3>1 DEF SegmentType, Status, kSelected, kVoid, kConfirmed
    <3>3. selected = {} => n = 0
      BY Zenon DEF MaxOrZero
    <3> HIDE DEF selected, n
    <3>4. n # Len(composition)
      BY <1>3, <3>1, <3>2, <3>3
    <3>5. n \in Nat /\ Len(composition) \in Nat /\ n <= Len(composition)
      BY <1>1, <1>3
    <3> QED
      BY <3>4, <3>5
  <2>2. \A i \in 1 .. Len(composition) : Chosen(composition[i]) => i \in 1 .. n
    <3>1. \A i \in 1 .. Len(composition) : Chosen(composition[i]) => i \in selected
      BY <1>1 DEF Chosen
    <3> HIDE DEF selected, n
    <3> QED
      BY <1>1, <1>3, <3>1
  <2> HIDE DEF n
  <2>3. /\ Chain(prefix) /\ Answered(prefix) /\ Len(prefix) = n
        /\ Agree(composition, prefix, n)
        /\ prefix # <<>> => ~IsEmptySegment(Last(prefix))
    BY <1>1, <1>3, <2>1, OpenPrefix DEF Open
  <2> HIDE DEF prefix
  <2>4. /\ Chain(Forward(prefix)) /\ Open(Forward(prefix))
        /\ Agree(prefix, Forward(prefix), n)
    BY <2>3, OpenForward
  <2>5. Holds(Forward(prefix))
    BY <2>2, <2>3, <2>4 DEF Holds, Agree, SameChoice, Chosen
  <2> QED
    BY <1>4, <1>6, <2>4, <2>5 DEF Leaves
<1> QED
  BY <1>5, <1>6

LEMMA RefreshStands ==
  ASSUME AtRest, NEW k, RefreshNonConfirmedComposition(k)
  PROVE  Calls
<1>1. CASE Compose(input, caret_pos, Confirmed, k)
  BY <1>1, ConfirmedLeaves, Zenon DEF Calls
<1> QED
  BY <1>1, StayStands DEF RefreshNonConfirmedComposition

-----------------------------------------------------------------------------
(* So do the handlers, but for those that reopen a segment.                *)

LEMMA TypingStands ==
  ASSUME AtRest,
         \/ \E ch \in Chars : SpellerKey(ch) \/ AddToInput(ch) \/ DirectCommit(ch)
         \/ \E ch \in Puncts : PunctuatorKey(ch)
         \/ DeleteChar
  PROVE  Calls
<1>1. \/ \E text, caret, k : Compose(text, caret, composition, k)
      \/ \E k : Commit(k)
  BY Zenon DEF SpellerKey, AddToInput, DirectCommit, PunctuatorKey, DeleteChar, PushInput,
     DeleteInput
<1> QED
  BY <1>1, InputStands, CommitStands

\* Punctuator::AlternatePunct offers the next candidate of the last segment.
LEMMA AlternateStands ==
  ASSUME AtRest, NEW ch \in Puncts, AlternatePunct(ch)
  PROVE  Calls
<1> DEFINE seg   == Last(composition)
           index == (seg.selected_index + 1) % Len(seg.menu.ends)
           next  == [ seg EXCEPT !.selected_index = index, !.status = kGuess ]
<1>1. /\ composition # <<>> /\ seg.menu # NoMenu /\ seg.menu.ends # <<>>
      /\ Edit(SetBack(composition, next), "return")
  BY DEF AlternatePunct, CanAlternate, HasMenu
<1>2. seg \in SegmentType
  BY <1>1, CompositionLeaves, BackType
<1>3. index \in Nat
  <2>1. seg.menu \in Menu /\ seg.selected_index \in Nat
    BY <1>1, <1>2 DEF SegmentType
  <2>2. Len(seg.menu.ends) \in Nat /\ Len(seg.menu.ends) > 0
    BY <1>1, <2>1 DEF Menu
  <2> QED
    BY <2>1, <2>2
<1> HIDE DEF index
<1>4. kGuess \in Status /\ kGuess < kSelected
  BY DEF Status, kVoid, kGuess, kSelected, kConfirmed
<1>5. /\ next \in SegmentType /\ next.status = kGuess
      /\ \A field \in {"start", "end", "menu"} : next[field] = Last(composition)[field]
      /\ Last(composition).tags \subseteq next.tags
  BY <1>1, <1>2, <1>3, <1>4 DEF SegmentType
<1> HIDE DEF next
<1>6. Leaves(SetBack(composition, next)) /\ SameTail(SetBack(composition, next))
  BY <1>1, <1>4, <1>5, AdjustedLeaves
<1> QED
  BY <1>1, <1>6, Zenon DEF Calls

LEMMA NavigatorStands ==
  ASSUME AtRest,
         \/ LeftByChar \/ RightByChar \/ Home \/ End
         \/ \E p \in 0 .. Len(input) : JumpBySyllable(p)
  PROVE  Calls
<1>1. PICK p : MoveTo(p)
  BY Zenon DEF LeftByChar, RightByChar, Home, End, JumpBySyllable
<1>2. CASE Compose(input, p, Edited, "return")
  BY <1>2, EditedLeaves, Zenon DEF Calls
<1>3. CASE BeginEditing("return")
  BY <1>3, BeginEditingStands
<1> QED
  BY <1>1, <1>2, <1>3 DEF MoveTo

LEMMA SelectorStands ==
  ASSUME AtRest, NEW index \in Nat, SelectCandidateAt(index) \/ MoveHighlight(index)
  PROVE  Calls
BY SelectStands, HighlightStands DEF SelectCandidateAt, MoveHighlight

\* The actions of Editor that reopen a segment, and those that do not.
LEMMA RevertStands ==
  ASSUME AtRest,
         \/ ToggleSelection \/ RevertLastEdit \/ BackToPreviousInput
         \/ \E len \in 1 .. Len(input) : BackToPreviousSyllable(len)
  PROVE  Calls
<1>1. Reopens
  BY DEF Reopens
<1>2. \/ \E k : ReopenPreviousSegment(k) \/ ReopenPreviousSelection(k)
      \/ \E k : ConfirmCurrentSelection(k)
      \/ \E text, caret, k : Compose(text, caret, composition, k)
  BY Zenon DEF ToggleSelection, RevertLastEdit, BackToPreviousInput, BackToPreviousSyllable,
     PopInput
<1> QED
  BY <1>1, <1>2, ReopenStands, ConfirmStands, InputStands

LEMMA EditorStands ==
  ASSUME AtRest,
         \/ Confirm \/ CommitComment \/ CommitScriptText \/ CommitRawInput
         \/ CommitComposition \/ CancelComposition
  PROVE  Calls
<1>1. \/ \E k : ConfirmCurrentSelection(k) \/ Commit(k) \/ Clear(k)
      \/ \E text, caret, k : Compose(text, caret, composition, k)
  BY Zenon DEF Confirm, CommitComment, CommitScriptText, CommitRawInput,
     CommitComposition, CancelComposition, ClearPreviousSegment, set_input
<1> QED
  BY <1>1, ConfirmStands, CommitStands, InputStands DEF Calls

LEMMA DeleteStands ==
  ASSUME AtRest, NEW segs, Leaves(segs), SameTail(segs), NEW k, Delete(segs, k)
  PROVE  Calls
<1>1. CASE Edit(segs, k)
  BY <1>1, Zenon DEF Calls
<1>2. CASE Compose(input, caret_pos, Confirmed, k)
  BY <1>2, ConfirmedLeaves, Zenon DEF Calls
<1> QED
  BY <1>1, <1>2 DEF Delete

\* RimeDeleteCandidate, RimeChangePage and Selector's tag change the last segment.
LEMMA StoredIndexLeaves ==
  ASSUME AtRest, composition # <<>>, NEW index \in Nat
  PROVE  LET segs == SetBack(composition, [ Last(composition) EXCEPT !.selected_index = index ])
         IN  Leaves(segs) /\ SameTail(segs)
<1> DEFINE seg == [ Last(composition) EXCEPT !.selected_index = index ]
<1>1. Last(composition) \in SegmentType /\ Last(composition).status < kSelected
  BY CompositionLeaves, BackType DEF Open, Unselected
<1>2. /\ seg \in SegmentType /\ seg.status = Last(composition).status
      /\ \A field \in {"start", "end", "menu"} : seg[field] = Last(composition)[field]
      /\ Last(composition).tags \subseteq seg.tags
  BY <1>1 DEF SegmentType
<1> HIDE DEF seg
<1>3. Leaves(SetBack(composition, seg)) /\ SameTail(SetBack(composition, seg))
  BY <1>1, <1>2, AdjustedLeaves
<1> QED
  BY <1>3 DEF seg

LEMMA PagedLeaves ==
  ASSUME AtRest, composition # <<>>, NEW index \in Nat
  PROVE  LET paged == [ Last(composition) EXCEPT !.tags = @ \cup {"paging"} ]
         IN  /\ Leaves(SetBack(composition, paged)) /\ SameTail(SetBack(composition, paged))
             /\ Leaves(SetBack(composition, [ paged EXCEPT !.selected_index = index ]))
<1> DEFINE paged == [ Last(composition) EXCEPT !.tags = @ \cup {"paging"} ]
           moved == [ paged EXCEPT !.selected_index = index ]
<1>1. Last(composition) \in SegmentType /\ Last(composition).status < kSelected
  BY CompositionLeaves, BackType DEF Open, Unselected
<1>2. /\ paged \in SegmentType /\ paged.status = Last(composition).status
      /\ \A field \in {"start", "end", "menu"} : paged[field] = Last(composition)[field]
      /\ Last(composition).tags \subseteq paged.tags
  BY <1>1 DEF SegmentType, Tags
<1> HIDE DEF paged
<1>3. /\ moved \in SegmentType /\ moved.status = Last(composition).status
      /\ \A field \in {"start", "end", "menu"} : moved[field] = Last(composition)[field]
  BY <1>2 DEF SegmentType
<1> HIDE DEF moved
<1>4. /\ Leaves(SetBack(composition, paged)) /\ SameTail(SetBack(composition, paged))
      /\ Leaves(SetBack(composition, moved))
  BY <1>1, <1>2, <1>3, AdjustedLeaves
<1> QED
  BY <1>4 DEF paged, moved

LEMMA SelectorHomeStands ==
  ASSUME AtRest, PageInPlace \/ HighlightFirst
  PROVE  Calls
<1>1. CASE PageInPlace
  <2> DEFINE paged == SetBack(composition, [ Last(composition) EXCEPT
                                               !.tags = @ \cup {"paging"} ])
  <2>1. Leaves(paged) /\ SameTail(paged)
    BY <1>1, PagedLeaves DEF PageInPlace, Selecting
  <2>2. Edit(paged, "return")
    BY <1>1 DEF PageInPlace
  <2> HIDE DEF paged
  <2> QED
    BY <2>1, <2>2, Zenon DEF Calls
<1>2. CASE HighlightFirst
  BY <1>2, HighlightStands DEF HighlightFirst
<1> QED
  BY <1>1, <1>2

LEMMA KeyStands ==
  ASSUME AtRest, Key
  PROVE  Calls
<1>1. 0 .. MaxCandidates - 1 \subseteq Nat
  BY BoundAssumption
<1>2. CASE \/ \E ch \in Chars : SpellerKey(ch) \/ AddToInput(ch) \/ DirectCommit(ch)
           \/ \E ch \in Puncts : PunctuatorKey(ch)
           \/ DeleteChar
  BY <1>2, TypingStands
<1>3. CASE \E ch \in Puncts : AlternatePunct(ch)
  BY <1>3, AlternateStands
<1>4. CASE \E index \in 0 .. MaxCandidates - 1 : \/ SelectCandidateAt(index)
                                                 \/ MoveHighlight(index)
  BY <1>1, <1>4, SelectorStands
<1>5. CASE \/ LeftByChar \/ RightByChar \/ Home \/ End
           \/ \E p \in 0 .. Len(input) : JumpBySyllable(p)
  BY <1>5, NavigatorStands
<1>6. CASE \/ Confirm \/ CommitComment \/ CommitScriptText \/ CommitRawInput
           \/ CommitComposition \/ CancelComposition
  BY <1>6, EditorStands
<1>7. CASE \/ ToggleSelection \/ RevertLastEdit \/ BackToPreviousInput
           \/ \E len \in 1 .. Len(input) : BackToPreviousSyllable(len)
  BY <1>7, RevertStands
<1>8. CASE DeleteCandidate
  BY <1>8, CompositionLeaves, DeleteStands DEF DeleteCandidate
<1>9. CASE PageInPlace \/ HighlightFirst
  BY <1>9, SelectorHomeStands
<1> QED
  BY <1>2, <1>3, <1>4, <1>5, <1>6, <1>7, <1>8, <1>9, Zenon DEF Key

LEMMA ChangePageStands ==
  ASSUME AtRest, NEW index \in Nat, RimeChangePage(index)
  PROVE  Calls
<1> DEFINE paged == [ Last(composition) EXCEPT !.tags = @ \cup {"paging"} ]
           moved == [ paged EXCEPT !.selected_index = HighlightIndex(index) ]
<1>1. /\ composition # <<>> /\ Last(composition).menu # NoMenu
      /\ \/ Compose(input, caret_pos, SetBack(composition, moved), "return")
         \/ Edit(SetBack(composition, paged), "return")
  BY DEF RimeChangePage, HasMenu
<1>2. HighlightIndex(index) \in Nat
  <2>1. Last(composition) \in SegmentType /\ Last(composition).menu \in Menu
    BY <1>1, CompositionLeaves, BackType DEF SegmentType
  <2> QED
    BY <2>1 DEF HighlightIndex, Menu
<1>3. /\ Leaves(SetBack(composition, paged)) /\ SameTail(SetBack(composition, paged))
      /\ Leaves(SetBack(composition, moved))
  BY <1>1, <1>2, PagedLeaves
<1> HIDE DEF paged, moved
<1> QED
  BY <1>1, <1>3, Zenon DEF Calls

LEMMA APIStands ==
  ASSUME AtRest, API
  PROVE  Calls
<1>1. CASE \/ \E text \in BoundedSeq(Chars, MaxInput) : RimeSetInput(text)
           \/ \E p \in 0 .. MaxInput : RimeSetCaretPos(p)
  <2>1. \E text, caret, k : Compose(text, caret, composition, k)
    BY <1>1, Zenon DEF RimeSetInput, RimeSetCaretPos, set_input, set_caret_pos
  <2> QED
    BY <2>1, InputStands
<1>2. CASE \E index \in 0 .. MaxCandidates : \/ RimeSelectCandidate(index)
                                             \/ RimeHighlightCandidate(index)
                                             \/ RimeChangePage(index)
                                             \/ RimeDeleteCandidate(index)
  <2>1. PICK index \in Nat : \/ RimeSelectCandidate(index)
                             \/ RimeHighlightCandidate(index)
                             \/ RimeChangePage(index)
                             \/ RimeDeleteCandidate(index)
    BY <1>2, BoundAssumption
  <2>2. CASE RimeSelectCandidate(index)
    BY <2>2, SelectStands DEF RimeSelectCandidate
  <2>3. CASE RimeHighlightCandidate(index)
    BY <2>3, HighlightStands DEF RimeHighlightCandidate
  <2>4. CASE RimeDeleteCandidate(index)
    BY <2>4, StoredIndexLeaves, DeleteStands DEF RimeDeleteCandidate
  <2>5. CASE RimeChangePage(index)
    BY <2>5, ChangePageStands
  <2> QED
    BY <2>1, <2>2, <2>3, <2>4, <2>5
<1>3. CASE RimeCommitComposition \/ RimeClearComposition
  BY <1>3, CommitStands DEF RimeCommitComposition, RimeClearComposition, Calls
<1>4. CASE RimeSetOption
  BY <1>4, RefreshStands, StayStands DEF RimeSetOption, set_option
<1> QED
  BY <1>1, <1>2, <1>3, <1>4, Zenon DEF API

LEMMA ResumeStands ==
  ASSUME AtRest, Resume
  PROVE  Calls
<1>1. CASE ResumePaging
  <2> DEFINE paged == SetBack(composition, [ Last(composition) EXCEPT
                                               !.tags = @ \cup {"paging"} ])
  <2>1. Leaves(paged) /\ SameTail(paged)
    BY <1>1, PagedLeaves DEF ResumePaging
  <2>2. Edit(paged, "return")
    BY <1>1 DEF ResumePaging
  <2> HIDE DEF paged
  <2> QED
    BY <2>1, <2>2, Zenon DEF Calls
<1>2. CASE ResumeReopenPreviousSegment
  <2>1. Reopens
    BY <1>2 DEF Reopens
  <2> QED
    BY <1>2, <2>1, ReopenStands, StayStands DEF ResumeReopenPreviousSegment
<1>3. CASE \/ ResumeBeginEditing \/ ResumeCommitUnlessMenu
           \/ ResumeConfirmUniquePunct \/ ResumeAutoCommitPunct
  <2>1. \/ BeginEditing("return") \/ Stay("return")
        \/ Commit("return") \/ ConfirmCurrentSelection("return")
    BY <1>3 DEF ResumeBeginEditing, ResumeCommitUnlessMenu,
       ResumeConfirmUniquePunct, ResumeAutoCommitPunct
  <2> QED
    BY <2>1, BeginEditingStands, StayStands, CommitStands, ConfirmStands
<1> QED
  BY <1>1, <1>2, <1>3 DEF Resume

-----------------------------------------------------------------------------
(* The engine changes the last segment, or one that is not translated.     *)

LEMMA EngineStands ==
  ASSUME CompositionInv, Open(composition), NEW segs, composition' = segs,
         Open(segs), Agree(composition, segs, Len(composition) - 1), CompositionInv'
  PROVE  Open(composition') /\ SelectionStands
<1>1. DOMAIN composition = 1 .. Len(composition) /\ DOMAIN composition' = 1 .. Len(composition')
  BY DEF CompositionInv, Chain
<1>2. Holds(segs)
  BY AgreedHolds
<1> QED
  BY <1>1, <1>2 DEF Holds, SelectionStands, Chosen

LEMMA UnchangedStands ==
  ASSUME CompositionInv, Open(composition), composition' = composition, CompositionInv'
  PROVE  Open(composition') /\ SelectionStands
<1>1. Len(composition) \in Nat
  BY CompositionChain
<1>2. Agree(composition, composition, Len(composition) - 1)
  BY <1>1 DEF Agree
<1> QED
  BY <1>2, EngineStands

\* A segment that is added replaces the last one at most.
LEMMA OpenAdd ==
  ASSUME NEW segs, Chain(segs), Open(segs),
         NEW seg, Proper(seg), seg.menu = NoMenu, seg.status < kSelected
  PROVE  /\ Open(AddSegment(segs, seg))
         /\ Agree(segs, AddSegment(segs, seg), Len(segs) - 1)
<1>1. segs \in Seq(SegmentType) /\ Len(segs) \in Nat
  BY DEF Chain
<1>2. CASE AddSegment(segs, seg) = segs
  BY <1>1, <1>2 DEF Agree
<1>3. CASE segs = <<>> /\ AddSegment(segs, seg) = <<seg>>
  BY <1>3 DEF Open, Unselected, Answered, Bare, Agree, Last
<1> DEFINE merged == [ Last(segs) EXCEPT !.tags = @ \cup seg.tags ]
<1>4. CASE /\ segs # <<>> /\ seg.start = Last(segs).start
           /\ AddSegment(segs, seg) \in { SetBack(segs, seg), SetBack(segs, merged) }
  <2>1. Proper(Last(segs)) /\ Last(segs) = segs[Len(segs)] /\ Len(segs) \in 1 .. Len(segs)
    BY <1>1, <1>4, ChainLast
  <2>2. /\ Proper(merged) /\ merged.start = Last(segs).start /\ merged.end = Last(segs).end
        /\ merged.menu = Last(segs).menu /\ merged.status = Last(segs).status
    BY <2>1 DEF Proper, SegmentType
  <2> HIDE DEF merged
  <2>3. Bare(merged) /\ merged.status < kSelected
    BY <1>4, <2>1, <2>2 DEF Open, Unselected, Answered, Bare, IsEmptySegment
  <2>4. Bare(seg)
    BY DEF Bare
  <2>5. PICK new \in {seg, merged} : AddSegment(segs, seg) = SetBack(segs, new)
    BY <1>4
  <2>6. Proper(new) /\ new.start = Last(segs).start /\ Bare(new) /\ new.status < kSelected
    BY <1>4, <2>2, <2>3, <2>4, <2>5
  <2>7. /\ Answered(SetBack(segs, new)) /\ Last(SetBack(segs, new)) = new
        /\ Agree(segs, SetBack(segs, new), Len(segs) - 1)
    BY <1>4, <2>6, OpenBack DEF Open
  <2> QED
    BY <2>5, <2>6, <2>7 DEF Open, Unselected
<1> QED
  BY <1>2, <1>3, <1>4 DEF AddSegment, GetCurrentStartPosition

LEMMA NewUnselected ==
  ASSUME NEW j, NEW k, NEW tags
  PROVE  /\ SegmentWithTags(j, k, tags).menu = NoMenu
         /\ SegmentWithTags(j, k, tags).status < kSelected
BY DEF SegmentWithTags, Segment, kVoid, kSelected

LEMMA AddedStands ==
  ASSUME CompositionInv, Open(composition), CompositionInv',
         NEW j \in Nat, NEW k \in Nat, j <= k, NEW tags \in SUBSET Tags,
         composition' = AddSegment(composition, SegmentWithTags(j, k, tags))
  PROVE  Open(composition') /\ SelectionStands
<1> DEFINE seg == SegmentWithTags(j, k, tags)
<1>1. Proper(seg) /\ seg.menu = NoMenu /\ seg.status < kSelected
  BY NewSegment, NewUnselected
<1> HIDE DEF seg
<1>2. /\ Open(AddSegment(composition, seg))
      /\ Agree(composition, AddSegment(composition, seg), Len(composition) - 1)
  BY <1>1, OpenAdd DEF CompositionInv
<1>3. composition' = AddSegment(composition, seg)
  BY DEF seg
<1> QED
  BY <1>2, <1>3, EngineStands

LEMMA SegmentorsStand ==
  ASSUME CompositionInv, Open(composition), CompositionInv',
         AsciiSegmentor \/ AbcSegmentor \/ PunctSegmentor
  PROVE  Open(composition') /\ SelectionStands
<1> DEFINE j == GetCurrentStartPosition(composition)
<1>1. j \in 0 .. Len(comp_input) /\ Len(comp_input) \in Nat
  BY StartPosition
<1>2. \/ composition' = composition
      \/ \E k \in Nat, tags \in SUBSET Tags :
           j <= k /\ composition' = AddSegment(composition, SegmentWithTags(j, k, tags))
  <2>1. CASE AsciiSegmentor
    <3>1. {"raw"} \in SUBSET Tags /\ Len(comp_input) \in Nat /\ j <= Len(comp_input)
      BY <1>1 DEF Tags
    <3>2. \/ composition' = composition
          \/ composition' = AddSegment(composition, SegmentWithTags(j, Len(comp_input), {"raw"}))
      BY <2>1 DEF AsciiSegmentor, Continue, Stop
    <3> HIDE DEF j
    <3> QED
      BY <3>1, <3>2, Zenon
  <2>2. CASE AbcSegmentor
    <3>1. SpellingEnd(j) \in j .. Len(comp_input)
      BY <1>1, SpellingEndBound
    <3>2. {"abc"} \in SUBSET Tags /\ SpellingEnd(j) \in Nat /\ j <= SpellingEnd(j)
      <4> HIDE DEF j
      <4> QED
        BY <1>1, <3>1 DEF Tags
    <3>3. \/ composition' = composition
          \/ composition' = AddSegment(composition, SegmentWithTags(j, SpellingEnd(j), {"abc"}))
      BY <2>2 DEF AbcSegmentor, Continue
    <3> HIDE DEF j
    <3> QED
      BY <3>2, <3>3, Zenon
  <2>3. CASE PunctSegmentor
    <3>1. {"punct"} \in SUBSET Tags /\ j + 1 \in Nat /\ j <= j + 1
      <4> HIDE DEF j
      <4> QED
        BY <1>1 DEF Tags
    <3>2. \/ composition' = composition
          \/ composition' = AddSegment(composition, SegmentWithTags(j, j + 1, {"punct"}))
      BY <2>3 DEF PunctSegmentor, Continue, Stop
    <3> HIDE DEF j
    <3> QED
      BY <3>1, <3>2, Zenon
  <2> QED
    BY <2>1, <2>2, <2>3
<1>3. j \in Nat
  BY <1>1
<1> HIDE DEF j
<1> QED
  BY <1>2, <1>3, UnchangedStands, AddedStands

\* FallbackSegmentor clears the raw segment that it extends; the others stay.
LEMMA ExtendRawStands ==
  ASSUME CompositionInv, Open(composition), CompositionInv', pc = "segmentors",
         GetCurrentSegmentLength(composition) = 0, Trim(composition) # <<>>,
         "raw" \in Last(Trim(composition)).tags,
         composition' = ExtendRaw(Trim(composition), GetCurrentStartPosition(composition))
  PROVE  Open(composition') /\ SelectionStands
<1> DEFINE k    == GetCurrentStartPosition(composition)
           segs == Trim(composition)
           raw  == Raw(Last(segs), k + 1)
<1>1. /\ Chain(composition) /\ Len(composition) \in Nat
      /\ DOMAIN composition = 1 .. Len(composition) /\ DOMAIN composition' = 1 .. Len(composition')
  BY DEF CompositionInv, Chain
<1>2. k \in Nat /\ Last(segs).end = k
  <2>1. k \in 0 .. Len(comp_input) /\ Len(comp_input) \in Nat
    BY StartPosition
  <2>2. Last(segs).end = k
    BY <1>1, TrimmedEnd
  <2> HIDE DEF k
  <2> QED
    BY <2>1, <2>2
<1>3. CanTrim(composition)
  <2>1. composition # <<>>
    BY DEF Trim, CanTrim
  <2> QED
    BY <1>1, <2>1, ChainLast DEF GetCurrentSegmentLength, GetCurrentStartPosition,
       GetCurrentEndPosition, CanTrim, IsEmptySegment
<1>4. /\ Chain(segs) /\ Answered(segs) /\ segs # <<>>
      /\ Agree(composition, segs, Len(composition) - 1) /\ Len(segs) = Len(composition) - 1
  BY <1>1, <1>3, OpenTrim DEF Open
<1> HIDE DEF k, segs
<1>5. /\ Last(segs) = segs[Len(segs)] /\ Last(segs) \in SegmentType
      /\ Last(segs).start \in Nat /\ Last(segs).start <= k
  BY <1>2, <1>4, ChainLast DEF Proper
<1>6. /\ Proper(raw) /\ raw.status = kVoid /\ raw.start = Last(segs).start /\ raw.end = k + 1
  <2>1. k + 1 \in Nat /\ Last(segs).start <= k + 1
    BY <1>2, <1>5
  <2> QED
    BY <1>5, <2>1, RawSegment
<1> HIDE DEF raw
<1>7. Bare(raw) /\ raw.status < kSelected
  BY <1>2, <1>5, <1>6 DEF Bare, IsEmptySegment, kVoid, kSelected
<1>8. composition' = SetBack(segs, raw)
  BY DEF ExtendRaw, Raw, segs, k, raw
<1>9. /\ Answered(SetBack(segs, raw)) /\ Last(SetBack(segs, raw)) = raw
      /\ Agree(segs, SetBack(segs, raw), Len(segs) - 1)
  BY <1>4, <1>6, <1>7, OpenBack
<1>10. Open(composition')
  BY <1>7, <1>8, <1>9 DEF Open, Unselected
<1>11. ASSUME NEW i \in 1 .. Len(composition), Chosen(composition[i]),
              "raw" \notin composition[i].tags
       PROVE  i \in 1 .. Len(composition') /\ SameChoice(composition[i], composition'[i])
  <2>1. i \in 1 .. Len(composition) - 1
    BY <1>11, ChosenBelow
  <2>2. i \in 1 .. Len(segs) /\ segs[i] = composition[i]
    BY <1>4, <2>1 DEF Agree
  <2>3. i # Len(segs)
    BY <1>5, <1>11, <2>2 DEF segs
  <2>4. i \in 1 .. Len(segs) - 1
    BY <1>1, <1>4, <2>2, <2>3
  <2>5. i \in 1 .. Len(composition') /\ composition'[i] = composition[i]
    BY <1>8, <1>9, <2>2, <2>4 DEF Agree
  <2> QED
    BY <1>11, <2>5 DEF SameChoice, Chosen
<1> QED
  BY <1>1, <1>10, <1>11 DEF SelectionStands, Chosen

LEMMA AddRawStands ==
  ASSUME CompositionInv, Open(composition), CompositionInv',
         GetCurrentSegmentLength(composition) = 0,
         composition' = AddRaw(Trim(composition), GetCurrentStartPosition(composition))
  PROVE  Open(composition') /\ SelectionStands
<1> DEFINE k    == GetCurrentStartPosition(composition)
           segs == Trim(composition)
           seg  == SegmentWithTags(k, k + 1, {"raw"})
<1>1. Chain(composition) /\ Len(composition) \in Nat /\ k \in Nat
  <2>1. k \in 0 .. Len(comp_input) /\ Len(comp_input) \in Nat
    BY StartPosition
  <2> HIDE DEF k
  <2> QED
    BY <2>1 DEF CompositionInv, Chain
<1>2. composition # <<>> => CanTrim(composition)
  BY <1>1, ChainLast DEF GetCurrentSegmentLength, GetCurrentStartPosition,
     GetCurrentEndPosition, CanTrim, IsEmptySegment
<1>3. /\ Chain(segs) /\ Answered(segs)
      /\ composition # <<>> => Len(segs) = Len(composition) - 1
      /\ Agree(composition, segs, Len(composition) - 1)
      /\ segs # <<>> => ~IsEmptySegment(Last(segs))
  <2>1. CASE composition # <<>>
    BY <1>1, <1>2, <2>1, OpenTrim DEF Open
  <2>2. CASE composition = <<>>
    BY <1>1, <2>2, OpenTrim DEF Open, Trim, CanTrim
  <2> QED
    BY <2>1, <2>2
<1> HIDE DEF k, segs
<1>4. Proper(seg) /\ seg.menu = NoMenu /\ seg.status < kSelected
  <2>1. k + 1 \in Nat /\ k <= k + 1 /\ {"raw"} \in SUBSET Tags
    BY <1>1 DEF Tags
  <2> QED
    BY <1>1, <2>1, NewSegment, NewUnselected
<1> HIDE DEF seg
<1> DEFINE longer == Forward(segs)
           added  == AddSegment(longer, seg)
<1>5. Chain(longer) /\ Open(longer) /\ Agree(segs, longer, Len(segs))
  BY <1>3, OpenForward
<1>6. segs # <<>> => Len(longer) = Len(segs) + 1
  BY <1>3 DEF Forward, Chain
<1>7. segs \in Seq(SegmentType) /\ Len(segs) \in Nat /\ (segs = <<>> => Len(segs) = 0)
  BY <1>3 DEF Chain
<1> HIDE DEF longer
<1>8. Open(added) /\ Agree(longer, added, Len(longer) - 1)
  BY <1>4, <1>5, OpenAdd
<1>9. composition' = added
  BY DEF AddRaw, added, longer, seg, segs, k
<1> HIDE DEF added
<1>10. Agree(composition, added, Len(composition) - 1)
  <2>1. CASE composition = <<>> \/ segs = <<>>
    BY <1>1, <1>3, <1>7, <2>1 DEF Agree
  <2>2. CASE composition # <<>> /\ segs # <<>>
    <3>1. Len(longer) - 1 = Len(segs) /\ Len(composition) - 1 = Len(segs)
      BY <1>1, <1>3, <1>6, <1>7, <2>2
    <3> QED
      BY <1>3, <1>5, <1>7, <1>8, <3>1 DEF Agree
  <2> QED
    BY <2>1, <2>2
<1> QED
  BY <1>8, <1>9, <1>10, EngineStands

LEMMA FallbackStands ==
  ASSUME CompositionInv, Open(composition), CompositionInv', FallbackSegmentor
  PROVE  Open(composition') /\ SelectionStands
<1> DEFINE k    == GetCurrentStartPosition(composition)
           segs == Trim(composition)
<1>1. CASE composition' = composition
  BY <1>1, UnchangedStands
<1>2. CASE /\ pc = "segmentors" /\ GetCurrentSegmentLength(composition) = 0
           /\ segs # <<>> /\ "raw" \in Last(segs).tags
           /\ composition' = ExtendRaw(segs, k)
  BY <1>2, ExtendRawStands
<1>3. CASE GetCurrentSegmentLength(composition) = 0 /\ composition' = AddRaw(segs, k)
  BY <1>3, AddRawStands
<1> QED
  BY <1>1, <1>2, <1>3 DEF FallbackSegmentor, Calling, Stop

LEMMA ForwardStands ==
  ASSUME CompositionInv, Open(composition), CompositionInv',
         NEW segs, Chain(segs), Answered(segs), segs # <<>> => ~IsEmptySegment(Last(segs)),
         Len(segs) >= Len(composition) - 1, Agree(composition, segs, Len(composition) - 1),
         composition' = Forward(segs)
  PROVE  Open(composition') /\ SelectionStands
<1>1. Open(Forward(segs)) /\ Agree(segs, Forward(segs), Len(segs))
  BY OpenForward
<1>2. Len(composition) \in Nat /\ Len(segs) \in Nat
  BY DEF CompositionInv, Chain
<1>3. Agree(composition, Forward(segs), Len(composition) - 1)
  BY <1>1, <1>2 DEF Agree
<1> QED
  BY <1>1, <1>3, EngineStands

LEMMA EndRoundStands ==
  ASSUME CompositionInv, Open(composition), CompositionInv', EndRound
  PROVE  Open(composition') /\ SelectionStands
<1>1. composition' \in { composition, Forward(composition) }
  BY DEF EndRound
<1>2. Chain(composition) /\ Len(composition) \in Nat
  BY CompositionChain
<1>3. CASE composition = <<>> \/ IsEmptySegment(Last(composition)) \/ composition' = composition
  BY <1>1, <1>3, UnchangedStands DEF Forward
<1>4. CASE composition # <<>> /\ ~IsEmptySegment(Last(composition)) /\ composition' = Forward(composition)
  <2>1. Len(composition) >= Len(composition) - 1 /\ Agree(composition, composition, Len(composition) - 1)
    BY <1>2 DEF Agree
  <2> QED
    BY <1>2, <1>4, <2>1, ForwardStands DEF Open
<1> QED
  BY <1>1, <1>3, <1>4

LEMMA FinishSegmentationStands ==
  ASSUME CompositionInv, Open(composition), CompositionInv', FinishSegmentation
  PROVE  Open(composition') /\ SelectionStands
<1> DEFINE segs == Trim(composition)
<1>1. Chain(composition) /\ Len(composition) \in Nat
  BY CompositionChain
<1>2. composition' \in { ForwardIfSelected(composition), ForwardIfSelected(segs) }
  BY DEF FinishSegmentation
<1>3. /\ Chain(segs) /\ Answered(segs) /\ Agree(composition, segs, Len(composition) - 1)
      /\ CanTrim(composition) => /\ Len(segs) = Len(composition) - 1
                                 /\ segs # <<>> => ~IsEmptySegment(Last(segs))
      /\ ~CanTrim(composition) => segs = composition
  BY <1>1, OpenTrim DEF Open, Trim
<1> HIDE DEF segs
<1>4. CASE composition' = ForwardIfSelected(composition)
  <2>1. composition' = composition
    BY <1>1, <1>4, ChainLast DEF ForwardIfSelected, Open, Unselected, Proper, SegmentType,
       Status, kVoid, kSelected, kConfirmed
  <2> QED
    BY <2>1, UnchangedStands
<1>5. CASE ~CanTrim(composition)
  BY <1>2, <1>3, <1>4, <1>5
<1>6. CASE CanTrim(composition) /\ composition' = ForwardIfSelected(segs)
  <2>1. CASE composition' = Forward(segs)
    <3>1. Len(segs) >= Len(composition) - 1
      BY <1>1, <1>3, <1>6
    <3> QED
      BY <1>3, <1>6, <2>1, <3>1, ForwardStands
  <2>2. CASE composition' = segs /\ ~(segs # <<>> /\ Last(segs).status >= kSelected)
    <3>1. segs # <<>> => Last(segs).status \in Status
      BY <1>3, ChainLast DEF Proper, SegmentType
    <3>2. Unselected(segs)
      BY <2>2, <3>1 DEF Unselected, Status, kVoid, kSelected, kConfirmed
    <3> QED
      BY <1>3, <2>2, <3>2, EngineStands DEF Open
  <2> QED
    BY <1>6, <2>1, <2>2 DEF ForwardIfSelected
<1> QED
  BY <1>2, <1>4, <1>5, <1>6

\* A translator has nothing to offer for an empty segment.
LEMMA TranslatedBare ==
  ASSUME CompositionInv, NEW i \in 1 .. Len(composition),
         NEW ends \in BoundedSeq((composition[i].start + 1) .. composition[i].end, MaxCandidates)
  PROVE  /\ Bare(Translated(composition[i], ends))
         /\ Translated(composition[i], ends).status < kSelected
<1> DEFINE seg  == composition[i]
           menu == [ query |-> SubSeq(comp_input, seg.start + 1, seg.end), ends |-> ends ]
           new  == Translated(seg, ends)
<1>1. seg \in SegmentType /\ seg.start \in Nat /\ seg.end \in Nat
  BY ChainAt DEF CompositionInv, Proper
<1> HIDE DEF seg
<1>2. seg.start = seg.end => ends = <<>>
  <2>1. PICK m \in 0 .. MaxCandidates : ends \in [1 .. m -> (seg.start + 1) .. seg.end]
    BY Zenon DEF BoundedSeq, SeqOf, seg
  <2>2. m \in Nat
    BY <2>1, BoundAssumption
  <2>3. ASSUME seg.start = seg.end PROVE m = 0
    <3>1. ~(1 \in 1 .. m)
      <4>1. ASSUME 1 \in 1 .. m PROVE FALSE
        <5>1. ends[1] \in (seg.start + 1) .. seg.end
          BY <2>1, <4>1
        <5> QED
          BY <1>1, <2>3, <5>1
      <4> QED
        BY <4>1
    <3> QED
      BY <2>2, <3>1
  <2>4. ASSUME m = 0 PROVE ends = <<>>
    <3>1. ends \in [1 .. 0 -> Nat]
      BY <1>1, <2>1, <2>4
    <3>2. ends \in Seq(Nat) /\ Len(ends) = 0
      BY <3>1
    <3> QED
      BY <3>2
  <2> QED
    BY <2>3, <2>4
<1>3. menu.ends = ends
  OBVIOUS
<1>4. new = [ seg EXCEPT !.status = kGuess, !.selected_index = 0, !.menu = menu ]
  BY DEF Translated
<1> HIDE DEF menu, new
<1>5. /\ new.start = seg.start /\ new.end = seg.end
      /\ new.menu = menu /\ new.status = kGuess
  BY <1>1, <1>4 DEF SegmentType
<1>6. Bare(new) /\ new.status < kSelected
  BY <1>2, <1>3, <1>5 DEF Bare, IsEmptySegment, kGuess, kSelected
<1> QED
  BY <1>6 DEF new, seg

LEMMA TranslateStands ==
  ASSUME CompositionInv, Open(composition), CompositionInv', TranslateSegment
  PROVE  Open(composition') /\ SelectionStands
<1> DEFINE i   == Min(Untranslated)
           seg == composition[i]
<1>1. /\ composition \in Seq(SegmentType) /\ Len(composition) \in Nat /\ Chain(composition)
      /\ DOMAIN composition = 1 .. Len(composition)
  BY CompositionChain
<1>2. i \in 1 .. Len(composition) /\ seg.status < kGuess
  <2>1. /\ Untranslated # {} /\ Untranslated \in SUBSET Nat
        /\ Untranslated \subseteq 1 .. Len(composition)
    BY <1>1 DEF TranslateSegment, Untranslated
  <2>2. i \in Untranslated
    BY <2>1, MinNat
  <2> HIDE DEF i
  <2> QED
    BY <2>1, <2>2 DEF Untranslated
<1>3. PICK ends \in BoundedSeq((seg.start + 1) .. seg.end, MaxCandidates) :
        composition' = [ composition EXCEPT ![i] = Translated(seg, ends) ]
  BY DEF TranslateSegment
<1> DEFINE new == Translated(seg, ends)
<1> HIDE DEF i
<1>4. Bare(new) /\ new.status < kSelected
  BY <1>2, <1>3, TranslatedBare
<1>5. /\ Len(composition') = Len(composition)
      /\ composition'[i] = new
      /\ \A n \in 1 .. Len(composition) : n # i => composition'[n] = composition[n]
  BY <1>1, <1>2, <1>3
<1> HIDE DEF seg, new
<1>6. Answered(composition')
  BY <1>4, <1>5 DEF Open, Answered
<1>7. Unselected(composition')
  <2> SUFFICES ASSUME composition' # <<>> PROVE Last(composition').status < kSelected
    BY DEF Unselected
  <2>1. Chain(composition')
    BY DEF CompositionInv, Chain
  <2>2. Last(composition') = composition'[Len(composition)] /\ Len(composition) \in 1 .. Len(composition)
    BY <1>1, <1>5, <2>1, ChainLast
  <2>3. composition # <<>>
    BY <2>2
  <2>4. Last(composition) = composition[Len(composition)] /\ Last(composition).status < kSelected
    BY <1>1, <2>3, ChainLast DEF Open, Unselected
  <2> QED
    BY <1>4, <1>5, <2>2, <2>4
<1>8. Holds(composition')
  <2> SUFFICES ASSUME NEW n \in 1 .. Len(composition), Chosen(composition[n])
               PROVE  n \in 1 .. Len(composition') /\ SameChoice(composition[n], composition'[n])
    BY DEF Holds
  <2>1. composition[n].status \in Status
    BY <1>1, ChainAt DEF Proper, SegmentType
  <2>2. n # i
    BY <1>2, <2>1 DEF Chosen, Status, kVoid, kGuess, kSelected, kConfirmed, seg
  <2> QED
    BY <1>5, <2>2 DEF SameChoice, Chosen
<1>9. DOMAIN composition' = 1 .. Len(composition')
  BY DEF CompositionInv, Chain
<1> QED
  BY <1>1, <1>6, <1>7, <1>8, <1>9 DEF Open, Holds, SelectionStands, Chosen

LEMMA RoundsStand ==
  ASSUME CompositionInv, Open(composition), CompositionInv', Engine
  PROVE  Open(composition') /\ SelectionStands
<1>1. CASE BeginRound \/ FinishTranslation
  BY <1>1, UnchangedStands DEF BeginRound, FinishTranslation, contextVars
<1> QED
  BY <1>1, SegmentorsStand, FallbackStands, EndRoundStands, FinishSegmentationStands,
     TranslateStands DEF Engine

-----------------------------------------------------------------------------
LEMMA InitOpen == Init => Open(composition)
BY DEF Init, Open, Unselected, Answered

LEMMA NextOpen ==
  IInv /\ ProgressInv /\ Open(composition) /\ [Next]_vars
    => Open(composition)' /\ [SelectionStands]_vars
<1> SUFFICES ASSUME IInv, ProgressInv, Open(composition), [Next]_vars
             PROVE  Open(composition') /\ [SelectionStands]_vars
  BY DEF Open, Unselected, Answered, Bare
<1>1. CompositionInv /\ CompositionInv'
  BY NextIInv DEF IInv
<1>2. CASE Engine
  BY <1>1, <1>2, RoundsStand
<1>3. CASE Resume \/ Key \/ API
  <2>1. AtRest
    BY <1>1, <1>3, CallsAtRest DEF AtRest, Ready
  <2>2. Calls
    BY <1>3, <2>1, ResumeStands, KeyStands, APIStands
  <2> QED
    BY <1>1, <2>1, <2>2, CallsStand
<1>4. CASE UNCHANGED vars
  BY <1>4 DEF vars
<1> QED
  BY <1>2, <1>3, <1>4 DEF Next

\* What the user has selected survives every call of the front end, every key and
\* every round of the engine, whatever the schema, unless the input changes up to
\* its end, the caret moves into it or a key reopens it: Segmentation::Reset drops
\* what lies beyond the change (segmentation.cc), and Context and the engine
\* otherwise touch none but the last segment, which is never a selected one, and the
\* raw segment before it, which FallbackSegmentor extends.
THEOREM ChoiceSurvives == Spec => SelectionSurvives
<1> DEFINE SelInv == IInv /\ ProgressInv /\ Open(composition)
<1>1. Init => SelInv
  BY InitIInv, InitProgress, InitOpen
<1>2. SelInv /\ [Next]_vars => SelInv' /\ [SelectionStands]_vars
  BY NextIInv, NextProgress, NextOpen
<1> HIDE DEF SelInv
<1> QED
  BY <1>1, <1>2, PTL DEF Spec, SelectionSurvives

-----------------------------------------------------------------------------
(* Selector's tag.  While a candidate is highlighted, the segment in whose  *)
(* menu it is stays the last one, or the engine makes another: the segments *)
(* past the caret are composed again only where a segmentor takes the next  *)
(* character.                                                              *)

\* Some segmentor takes the character at the caret.
Awaited == \E n \in DOMAIN Segmentors : Takes(Segmentors[n], comp_input[caret_pos + 1])

\* The last segment begins at p, right behind what the user has selected.
BeginsAt(segs, p) == GetCurrentStartPosition(segs) = p /\ (p = 0 \/ Behind(segs))

AtCaret(segs) ==
  BeginsAt(segs, caret_pos) /\ (GetCurrentEndPosition(segs) > caret_pos => Awaited)

IsRaw(segs) == segs # <<>> /\ "raw" \in Last(segs).tags /\ ~IsEmptySegment(Last(segs))

\* The engine goes past the caret only where the user has selected everything before.
RoundTail ==
  caret_pos < Len(comp_input) =>
    /\ pc = "rounds" => AtCaret(composition) /\ GetCurrentEndPosition(composition) = caret_pos
    /\ pc = "segmentors" => start_pos = caret_pos
    /\ pc \in {"segmentors", "trim"} => AtCaret(composition) \/ IsRaw(composition)
    /\ pc = "segmentors" /\ next_segmentor <= Len(Segmentors) => AtCaret(composition)

Translating == pc = "translators"
AtEnd == Translating \/ pc \in {"idle", "resume"}

RestTail ==
  /\ AtEnd /\ composition # <<>>
  /\ Translating \/ Last(composition).menu # NoMenu
  => /\ IsEmptySegment(Last(composition)) => Behind(composition)
     /\ GetCurrentEndPosition(composition) > caret_pos =>
          AtCaret(composition) \/ IsRaw(composition)

-----------------------------------------------------------------------------
\* Segmentation::Reset keeps segments that end before the difference.
LEMMA ResetSame ==
  ASSUME NEW segs, Chain(segs), NEW old, NEW new, DiffPos(old, new) \in Nat,
         GetCurrentEndPosition(segs) <= DiffPos(old, new)
  PROVE  Reset(segs, old, new) = segs
<1> DEFINE below == { i \in DOMAIN segs : segs[i].end <= DiffPos(old, new) }
           kept  == MaxOrZero(below)
<1>1. Len(segs) \in Nat /\ DOMAIN segs = 1 .. Len(segs)
  BY DEF Chain
<1>2. below \in SUBSET (0 .. Len(segs))
  BY <1>1
<1>3. segs # <<>> => Len(segs) \in below
  BY <1>1, ChainLast DEF GetCurrentEndPosition
<1>4. segs = <<>> => Len(segs) = 0
  OBVIOUS
<1>5. Reset(segs, old, new) = IF kept = Len(segs) THEN segs ELSE Forward(SubSeq(segs, 1, kept))
  BY Zenon DEF Reset
<1> HIDE DEF below
<1>6. kept = Len(segs)
  BY <1>1, <1>2, <1>3, <1>4, MaxOrZeroNat
<1> QED
  BY <1>5, <1>6

\* It drops the last segment if the texts differ in it.
LEMMA ResetLast ==
  ASSUME NEW segs, Chain(segs), segs # <<>>, NEW old, NEW new, DiffPos(old, new) \in Nat,
         Last(segs).start <= DiffPos(old, new), Last(segs).end > DiffPos(old, new)
  PROVE  Reset(segs, old, new) = Forward(SubSeq(segs, 1, Len(segs) - 1))
<1> DEFINE d     == DiffPos(old, new)
           below == { i \in DOMAIN segs : segs[i].end <= d }
           kept  == MaxOrZero(below)
           n     == Len(segs)
<1>1. n \in Nat /\ n >= 1 /\ DOMAIN segs = 1 .. n /\ Last(segs) = segs[n]
  BY ChainLast DEF Chain
<1>2. below \in SUBSET (0 .. n)
  BY <1>1
<1>3. n \notin below
  <2>1. segs[n].end \in Nat /\ d \in Nat /\ segs[n].end > d
    BY <1>1, ChainLast
  <2> HIDE DEF n, d
  <2> QED
    BY <2>1
<1>4. n > 1 => n - 1 \in below
  <2>1. n > 1 => segs[n].start = segs[n - 1].end /\ segs[n].start <= d
    BY <1>1, ChainAt
  <2>2. n > 1 => n - 1 \in 1 .. n
    BY <1>1
  <2> HIDE DEF n, d
  <2> QED
    BY <1>1, <2>1, <2>2
<1>5. Reset(segs, old, new) = IF kept = n THEN segs ELSE Forward(SubSeq(segs, 1, kept))
  BY Zenon DEF Reset
<1>6. below = {} => kept = 0
  BY Zenon DEF MaxOrZero
<1> HIDE DEF below, n
<1>7. kept \in 0 .. n /\ (below # {} => kept \in below) /\ \A i \in below : kept >= i
  BY <1>1, <1>2, MaxOrZeroNat
<1> HIDE DEF kept
<1>8. kept = n - 1
  BY <1>1, <1>3, <1>4, <1>6, <1>7
<1>9. kept # n
  BY <1>1, <1>8
<1>10. Reset(segs, old, new) = Forward(SubSeq(segs, 1, n - 1))
  BY <1>5, <1>8, <1>9
<1> QED
  BY <1>10 DEF n

\* Everything before the caret is selected: the last segment is empty.
LEMMA ConfirmedAtCaret ==
  ASSUME NEW segs, Chain(segs), Open(segs), NEW p \in Nat, Fits(segs, p),
         p = GetConfirmedPosition(segs)
  PROVE  BeginsAt(segs, p) /\ GetCurrentEndPosition(segs) = p
<1> DEFINE selected == { i \in DOMAIN segs : segs[i].status >= kSelected }
           m == Max(selected)
<1>1. Len(segs) \in Nat /\ DOMAIN segs = 1 .. Len(segs)
  BY DEF Chain
<1>2. p = IF selected = {} THEN 0 ELSE segs[m].end
  BY DEF GetConfirmedPosition
<1>3. CASE selected = {}
  <2>1. p = 0
    BY <1>2, <1>3
  <2> QED
    BY <2>1, EndPosition DEF BeginsAt
<1>4. CASE selected # {}
  <2>1. selected \in SUBSET (0 .. Len(segs))
    BY <1>1
  <2> HIDE DEF selected
  <2>2. m \in selected /\ p = segs[m].end
    BY <1>1, <1>2, <1>4, <2>1, MaxNat
  <2> HIDE DEF m
  <2>3. m \in 1 .. Len(segs) /\ segs[m].status >= kSelected /\ segs[m].status \in Status
    <3>1. m \in 1 .. Len(segs) /\ segs[m].status >= kSelected
      BY <1>1, <2>2 DEF selected
    <3> QED
      BY <3>1, ChainAt DEF Proper, SegmentType
  <2>4. segs # <<>> /\ Last(segs) = segs[Len(segs)]
    BY <1>1, <2>3, ChainLast
  <2>5. m # Len(segs)
    <3>1. segs[Len(segs)].status < kSelected
      BY <2>4 DEF Open, Unselected
    <3> QED
      BY <2>3, <3>1 DEF Status, kVoid, kSelected, kConfirmed
  <2>6. m + 1 \in 1 .. Len(segs) /\ m + 1 > 1 /\ (m + 1) - 1 = m
    <3>1. m \in 1 .. Len(segs) /\ Len(segs) \in Nat
      BY <1>1, <2>3
    <3> QED
      BY <2>5, <3>1
  <2> DEFINE j == m + 1
  <2>7. j \in 1 .. Len(segs) /\ j > 1 /\ j - 1 = m
    BY <2>6
  <2> HIDE DEF j
  <2>8. /\ segs[j].start = p /\ segs[j].end \in Nat /\ segs[j].start <= segs[j].end
        /\ segs[j].end <= p /\ (j < Len(segs) => segs[j].start # segs[j].end)
    BY <2>2, <2>7, ChainAt DEF Fits
  <2>9. j = Len(segs) /\ segs[j].end = p
    BY <1>1, <2>7, <2>8
  <2> QED
    BY <1>1, <2>3, <2>4, <2>7, <2>8, <2>9
       DEF BeginsAt, Behind, GetCurrentStartPosition, GetCurrentEndPosition
<1> QED
  BY <1>3, <1>4

\* Compose: the text past the caret is composed when all before it is selected.
LEMMA ComposeTail ==
  ASSUME CompositionInv, CompositionInv', NEW segs, Chain(segs), Open(segs),
         NEW text, NEW caret, NEW k, Compose(text, caret, segs, k)
  PROVE  RoundTail' /\ RestTail'
<1> DEFINE active_input == SubSeq(text, 1, caret)
           active       == Reset(segs, comp_input, active_input)
<1>1. /\ input' = text /\ caret_pos' = caret /\ pc' = "rounds"
      /\ \/ comp_input' = active_input
         \/ /\ caret < Len(text) /\ caret = GetConfirmedPosition(active)
            /\ composition' = Reset(active, active_input, text) /\ comp_input' = text
  BY DEF Compose
<1>2. /\ text \in Seq(Chars) /\ caret \in 0 .. Len(text) /\ Len(text) \in Nat
      /\ comp_input \in Seq(Chars)
  BY <1>1 DEF CompositionInv
<1>3. /\ active_input \in Seq(Chars) /\ Len(active_input) = caret
      /\ \A j \in 1 .. caret : active_input[j] = text[j]
  BY <1>2, CutText
<1> HIDE DEF active_input
<1>4. Chain(active) /\ Open(active) /\ Fits(active, caret)
  BY <1>2, <1>3, OpenReset, ResetChain
<1> HIDE DEF active
<1>5. CASE comp_input' = active_input
  BY <1>1, <1>2, <1>3, <1>5 DEF RoundTail, RestTail, AtEnd, Translating
<1>6. CASE /\ caret < Len(text) /\ caret = GetConfirmedPosition(active)
           /\ composition' = Reset(active, active_input, text) /\ comp_input' = text
  <2>1. caret \in Nat /\ BeginsAt(active, caret) /\ GetCurrentEndPosition(active) = caret
    BY <1>2, <1>4, <1>6, ConfirmedAtCaret
  <2>2. DiffPos(active_input, text) >= caret /\ DiffPos(active_input, text) \in Nat
    <3>1. caret \in 0 .. Len(active_input) /\ caret <= Len(text)
      BY <1>2, <1>3
    <3>2. DiffPos(active_input, text) >= caret
      BY <1>2, <1>3, <3>1, AgreedDiffPos
    <3>3. DiffPos(active_input, text) \in Nat
      BY <1>2, <1>3, DiffPosBound
    <3> QED
      BY <3>2, <3>3
  <2>3. composition' = active
    BY <1>4, <1>6, <2>1, <2>2, ResetSame
  <2>4. BeginsAt(composition', caret_pos') /\ GetCurrentEndPosition(composition') = caret_pos'
    BY <1>1, <2>1, <2>3
  <2>5. caret_pos' \in Nat
    BY <1>1, <2>1
  <2>6. AtCaret(composition)' /\ (GetCurrentEndPosition(composition) = caret_pos)'
    BY <2>4, <2>5 DEF AtCaret, BeginsAt, Behind, GetCurrentStartPosition, GetCurrentEndPosition
  <2> QED
    BY <1>1, <2>6 DEF RoundTail, RestTail, AtEnd, Translating
<1> QED
  BY <1>1, <1>5, <1>6

\* A call that composes nothing leaves the last segment where it was.
LEMMA EditTail ==
  ASSUME AtRest, RestTail, NEW segs, SameTail(segs), NEW k, Edit(segs, k)
  PROVE  RoundTail' /\ RestTail'
<1>1. /\ composition' = segs /\ pc' \in {"idle", "resume"}
      /\ UNCHANGED <<caret_pos, comp_input>> /\ pc \in {"idle", "resume"}
  BY DEF Edit, Return, AtRest, Ready
<1>2. ASSUME segs # <<>>, Last(segs).menu # NoMenu
      PROVE  /\ IsEmptySegment(Last(segs)) => Behind(segs)
             /\ GetCurrentEndPosition(segs) > caret_pos => AtCaret(segs) \/ IsRaw(segs)
  <2>1. /\ composition # <<>> /\ Last(composition).menu # NoMenu
        /\ Last(segs).start = Last(composition).start /\ Last(segs).end = Last(composition).end
        /\ Last(composition).tags \subseteq Last(segs).tags
        /\ Behind(composition) => Behind(segs)
    BY <1>2 DEF SameTail
  <2>2. /\ IsEmptySegment(Last(composition)) => Behind(composition)
        /\ GetCurrentEndPosition(composition) > caret_pos =>
             AtCaret(composition) \/ IsRaw(composition)
    BY <1>1, <2>1 DEF RestTail, AtEnd
  <2>3. /\ GetCurrentEndPosition(segs) = GetCurrentEndPosition(composition)
        /\ GetCurrentStartPosition(segs) = GetCurrentStartPosition(composition)
    BY <1>2, <2>1 DEF GetCurrentEndPosition, GetCurrentStartPosition
  <2> QED
    BY <1>2, <2>1, <2>2, <2>3 DEF IsEmptySegment, AtCaret, BeginsAt, IsRaw
<1>3. RoundTail'
  BY <1>1 DEF RoundTail
<1>4. RestTail'
  <2> SUFFICES ASSUME composition' # <<>>, Translating' \/ Last(composition').menu # NoMenu
               PROVE  /\ (IsEmptySegment(Last(composition)) => Behind(composition))'
                      /\ (GetCurrentEndPosition(composition) > caret_pos =>
                           AtCaret(composition) \/ IsRaw(composition))'
    BY DEF RestTail
  <2>1. segs # <<>> /\ Last(segs).menu # NoMenu
    BY <1>1 DEF Translating
  <2> QED
    BY <1>1, <1>2, <2>1 DEF AtCaret, BeginsAt, Behind, IsRaw, IsEmptySegment, Awaited,
       GetCurrentStartPosition, GetCurrentEndPosition
<1> QED
  BY <1>3, <1>4

LEMMA CallsTail ==
  ASSUME AtRest, RestTail, Calls, CompositionInv'
  PROVE  RoundTail' /\ RestTail'
<1>1. CompositionInv
  BY DEF AtRest, Ready
<1>2. Chain(<<>>) /\ Open(<<>>)
  BY DEF Chain, Open, Unselected, Answered
<1>3. CASE \E k : Clear(k)
  BY <1>1, <1>2, <1>3, ComposeTail DEF Clear
<1>4. CASE \E segs, k : Leaves(segs) /\ SameTail(segs) /\ Edit(segs, k)
  BY <1>4, EditTail
<1>5. CASE \E segs, text, caret, k : Leaves(segs) /\ Compose(text, caret, segs, k)
  BY <1>1, <1>5, ComposeTail DEF Leaves
<1> QED
  BY <1>3, <1>4, <1>5 DEF Calls

-----------------------------------------------------------------------------
(* The segmentors, which take the character at the caret or leave it.       *)

\* A segment that is added is not empty.  What is on offer in the last segment stays
\* as it was if the new one only adds its tags.
Fine(seg) ==
  seg.status >= kGuess /\ seg.menu # NoMenu =>
    seg.menu.ends = <<>> \/ HasSelectedCandidate(seg)

LEMMA VoidFine ==
  ASSUME NEW seg, seg.status = kVoid
  PROVE  Fine(seg)
BY DEF Fine, kVoid, kGuess

LEMMA AddedTail ==
  ASSUME NEW segs, Chain(segs), NEW seg, Proper(seg), seg.status = kVoid,
         seg.start = GetCurrentStartPosition(segs), seg.start # seg.end
  PROVE  LET new == AddSegment(segs, seg)
         IN  /\ new # <<>> /\ ~IsEmptySegment(Last(new))
             /\ GetCurrentStartPosition(new) = seg.start
             /\ Behind(segs) => Behind(new)
             /\ GetCurrentEndPosition(segs) <= seg.end => seg.tags \subseteq Last(new).tags
             /\ Fine(Last(new)) \/ (segs # <<>> /\ (Fine(Last(segs)) => Fine(Last(new))))
<1> DEFINE old    == Last(segs)
           merged == [ old EXCEPT !.tags = @ \cup seg.tags ]
           new    == AddSegment(segs, seg)
<1>1. seg.start \in Nat /\ seg.end \in Nat /\ seg.start < seg.end /\ seg \in SegmentType
  BY DEF Proper, SegmentType
<1>2. CASE segs = <<>>
  <2>1. new = <<seg>>
    BY <1>2 DEF AddSegment
  <2>2. <<seg>> # <<>> /\ Last(<<seg>>) = seg
    BY DEF Last
  <2>3. ~Behind(segs) /\ Fine(seg) /\ ~IsEmptySegment(seg)
    BY <1>2, VoidFine DEF Behind, IsEmptySegment
  <2>4. new # <<>> /\ Last(new) = seg
    BY <2>1, <2>2
  <2> QED
    BY <2>3, <2>4 DEF GetCurrentStartPosition
<1>3. CASE segs # <<>>
  <2>1. /\ Proper(old) /\ old.start = seg.start /\ old.end \in Nat
        /\ GetCurrentEndPosition(segs) = old.end /\ Len(segs) \in Nat
    BY <1>3, ChainLast DEF GetCurrentStartPosition, GetCurrentEndPosition
  <2>2. ASSUME NEW back, Proper(back), back.start = seg.start
        PROVE  /\ SetBack(segs, back) # <<>> /\ Last(SetBack(segs, back)) = back
               /\ Behind(segs) => Behind(SetBack(segs, back))
    <3> DEFINE front == SubSeq(segs, 1, Len(segs) - 1)
    <3>1. /\ front \in Seq(SegmentType) /\ Len(front) = Len(segs) - 1
          /\ \A i \in 1 .. Len(segs) - 1 : front[i] = segs[i]
      <4>1. Len(segs) - 1 \in 0 .. Len(segs)
        BY <1>3, ChainLast
      <4> QED
        BY <4>1, ChainPrefix DEF Chain
    <3>2. SetBack(segs, back) = Append(front, back) /\ back \in SegmentType
      BY <2>2 DEF SetBack, Front, Proper
    <3> HIDE DEF front
    <3>3. /\ Len(SetBack(segs, back)) = Len(segs)
          /\ \A i \in 1 .. Len(segs) - 1 : SetBack(segs, back)[i] = segs[i]
      BY <2>1, <3>1, <3>2
    <3>4. Behind(segs) => Behind(SetBack(segs, back))
      BY <2>1, <3>3 DEF Behind
    <3> QED
      BY <1>3, <2>1, <2>2, <3>4, SetBackChain
  <2>3. CASE old.end > seg.end
    <3>1. new = segs
      BY <1>3, <2>1, <2>3 DEF AddSegment
    <3> QED
      BY <1>1, <1>3, <2>1, <2>3, <3>1 DEF IsEmptySegment, GetCurrentStartPosition
  <2>4. CASE old.end < seg.end
    <3>1. new = SetBack(segs, seg)
      BY <1>1, <1>3, <2>1, <2>4 DEF AddSegment
    <3> QED
      BY <1>1, <2>2, <3>1, VoidFine DEF IsEmptySegment, GetCurrentStartPosition
  <2>5. CASE old.end = seg.end
    <3>1. new = SetBack(segs, merged)
      BY <1>1, <1>3, <2>1, <2>5 DEF AddSegment
    <3>2. /\ Proper(merged) /\ merged.start = seg.start /\ merged.end = seg.end
          /\ merged.status = old.status /\ merged.menu = old.menu
          /\ merged.selected_index = old.selected_index /\ seg.tags \subseteq merged.tags
      BY <2>1, <2>5 DEF Proper, SegmentType
    <3> HIDE DEF merged
    <3>3. Fine(old) => Fine(merged)
      BY <3>2 DEF Fine, HasSelectedCandidate
    <3> QED
      BY <1>1, <1>3, <2>2, <3>1, <3>2, <3>3 DEF IsEmptySegment, GetCurrentStartPosition
  <2> QED
    BY <1>1, <2>1, <2>3, <2>4, <2>5
<1> QED
  BY <1>2, <1>3

\* What Selector finds, or the one before it when the last segment goes.
TailFine(segs) ==
  /\ segs # <<>> /\ Fine(Last(segs))
  /\ IsEmptySegment(Last(segs)) =>
       Len(segs) > 1 /\ (Fine(segs[Len(segs) - 1]) \/ Behind(segs))

\* There is no segment yet, but there will be one.
Coming == composition = <<>> /\ comp_input # <<>> /\ caret_pos = 0 /\ Awaited

PagingInv ==
  then = "paging" =>
    /\ pc \in {"rounds", "segmentors"} => TailFine(composition) \/ Coming
    /\ pc = "trim" => TailFine(composition)
    /\ pc \in {"translators", "resume"} => composition # <<>> /\ Fine(Last(composition))
    /\ pc = "resume" => Last(composition).status >= kGuess /\ Last(composition).menu # NoMenu

TailInv == RoundTail /\ RestTail /\ PagingInv

\* A run of spelling begins with an initial.
LEMMA SpellingTaken ==
  ASSUME CompositionInv, NEW j \in 0 .. Len(comp_input), j < SpellingEnd(j)
  PROVE  comp_input[j + 1] \in Alphabet \cap Initials
<1> DEFINE ends == { k \in j .. Len(comp_input) : \A p \in j .. k - 1 : IsSpelling(j, p) }
           e    == SpellingEnd(j)
<1>1. Len(comp_input) \in Nat /\ j \in Nat
  BY DEF CompositionInv
<1>2. j \in ends
  <2>1. j .. j - 1 = {} /\ j \in j .. Len(comp_input)
    BY <1>1
  <2> QED
    BY <2>1
<1>3. ends \in SUBSET (0 .. Len(comp_input))
  BY <1>1
<1>4. e = Max(ends)
  BY DEF SpellingEnd
<1>5. e \in ends
  <2> HIDE DEF ends, e
  <2> QED
    BY <1>1, <1>2, <1>3, <1>4, MaxNat
<1>6. e \in Nat /\ j < e /\ \A p \in j .. e - 1 : IsSpelling(j, p)
  BY <1>1, <1>5
<1> HIDE DEF e
<1>7. IsSpelling(j, j)
  BY <1>1, <1>6
<1> QED
  BY <1>7 DEF IsSpelling, IsDelimiterAt, ExpectingAnInitialAt

\* A segment that is added at the end of the round.
LEMMA SegmentAdded ==
  ASSUME Working, pc = "segmentors", next_segmentor \in DOMAIN Segmentors,
         NEW k \in Nat, GetCurrentStartPosition(composition) < k, NEW tags \in SUBSET Tags
  PROVE  LET j    == GetCurrentStartPosition(composition)
             segs == AddSegment(composition, SegmentWithTags(j, k, tags))
         IN  /\ /\ AtCaret(composition)
                /\ Takes(Segmentors[next_segmentor], comp_input[j + 1])
                => AtCaret(segs)
             /\ "raw" \in tags /\ k = Len(comp_input) => IsRaw(segs)
             /\ (composition # <<>> => Fine(Last(composition))) => TailFine(segs)
<1> DEFINE j    == GetCurrentStartPosition(composition)
           seg  == SegmentWithTags(j, k, tags)
           segs == AddSegment(composition, seg)
<1>1. /\ Chain(composition) /\ Len(comp_input) \in Nat /\ j \in Nat
      /\ GetCurrentEndPosition(composition) \in Nat
      /\ GetCurrentEndPosition(composition) <= Len(comp_input) /\ j < k /\ j <= k
  BY RoundPosition, EndPosition DEF Working, CompositionInv
<1>2. /\ Proper(seg) /\ seg.start = j /\ seg.end = k
      /\ seg.status = kVoid /\ seg.tags = tags
  <2> HIDE DEF j
  <2>1. seg.status = kVoid /\ seg.tags = tags
    BY DEF SegmentWithTags, Segment
  <2>2. j \in Nat /\ j <= k
    BY <1>1
  <2>3. Proper(seg) /\ seg.start = j /\ seg.end = k
    BY <2>2, NewSegment
  <2> QED
    BY <2>1, <2>3
<1> HIDE DEF seg
<1>3. /\ segs # <<>> /\ ~IsEmptySegment(Last(segs)) /\ GetCurrentStartPosition(segs) = j
      /\ Behind(composition) => Behind(segs)
      /\ GetCurrentEndPosition(composition) <= k => tags \subseteq Last(segs).tags
      /\ \/ Fine(Last(segs))
         \/ composition # <<>> /\ (Fine(Last(composition)) => Fine(Last(segs)))
  BY <1>1, <1>2, AddedTail
<1> HIDE DEF segs, j
<1>4. AtCaret(composition) /\ Takes(Segmentors[next_segmentor], comp_input[j + 1]) => AtCaret(segs)
  BY <1>3 DEF AtCaret, BeginsAt, Awaited, j
<1>5. "raw" \in tags /\ k = Len(comp_input) => IsRaw(segs)
  BY <1>1, <1>3 DEF IsRaw
<1>6. (composition # <<>> => Fine(Last(composition))) => TailFine(segs)
  BY <1>3 DEF TailFine
<1> QED
  BY <1>4, <1>5, <1>6 DEF j, seg, segs

\* The round goes on with the segments where they were, or with another last one.
LEMMA SegmentedTail ==
  ASSUME Working, TailInv, pc = "segmentors", next_segmentor \in DOMAIN Segmentors,
         NEW segs, Continue(segs) \/ Stop(segs),
         AtCaret(composition) => AtCaret(segs) \/ (IsRaw(segs) /\ Stop(segs)),
         \/ segs = composition
         \/ (composition # <<>> => Fine(Last(composition))) => TailFine(segs)
  PROVE  TailInv'
<1>1. /\ composition' = segs /\ pc' = "segmentors"
      /\ UNCHANGED <<input, caret_pos, comp_input, start_pos, then>>
      /\ Stop(segs) => next_segmentor' = Len(Segmentors) + 1
  BY DEF Continue, Stop
<1>2. Len(Segmentors) \in Nat /\ next_segmentor <= Len(Segmentors)
  BY SegmentorsAssumption
<1>3. RoundTail'
  <2> SUFFICES ASSUME caret_pos' < Len(comp_input')
               PROVE  /\ start_pos' = caret_pos'
                      /\ (AtCaret(composition) \/ IsRaw(composition))'
                      /\ next_segmentor' <= Len(Segmentors) => AtCaret(composition)'
    BY <1>1 DEF RoundTail
  <2>1. start_pos = caret_pos /\ AtCaret(composition)
    BY <1>1, <1>2 DEF TailInv, RoundTail
  <2>2. AtCaret(composition)' <=> AtCaret(segs)
    BY <1>1 DEF AtCaret, BeginsAt, Behind, Awaited, GetCurrentStartPosition,
       GetCurrentEndPosition
  <2>3. IsRaw(composition)' <=> IsRaw(segs)
    BY <1>1 DEF IsRaw, IsEmptySegment
  <2> QED
    BY <1>1, <1>2, <2>1, <2>2, <2>3
<1>4. RestTail'
  BY <1>1 DEF RestTail, AtEnd, Translating
<1>5. PagingInv'
  <2> SUFFICES ASSUME then' = "paging" PROVE TailFine(composition)' \/ Coming'
    BY <1>1 DEF PagingInv
  <2>1. TailFine(composition) \/ Coming
    BY <1>1 DEF TailInv, PagingInv
  <2>2. TailFine(segs) \/ (segs = composition /\ Coming)
    BY <2>1 DEF TailFine, Coming
  <2> QED
    BY <1>1, <2>2 DEF TailFine, Coming, Awaited, Fine, HasSelectedCandidate, IsEmptySegment, Behind
<1> QED
  BY <1>3, <1>4, <1>5 DEF TailInv

LEMMA SegmentorsTail ==
  ASSUME Working, TailInv, AsciiSegmentor \/ AbcSegmentor \/ PunctSegmentor
  PROVE  TailInv'
<1> DEFINE j == GetCurrentStartPosition(composition)
           added(k, tags) == AddSegment(composition, SegmentWithTags(j, k, tags))
<1>1. pc = "segmentors" /\ next_segmentor \in DOMAIN Segmentors
  BY DEF AsciiSegmentor, AbcSegmentor, PunctSegmentor, Calling
<1>2. /\ CompositionInv /\ j \in Nat /\ Len(comp_input) \in Nat /\ j \in 0 .. Len(comp_input)
  BY StartPosition DEF Working
<1>3. CASE Continue(composition) \/ Stop(composition)
  BY <1>1, <1>3, SegmentedTail
<1>4. ASSUME NEW k \in Nat, j < k, NEW tags \in SUBSET Tags,
             \/ /\ Takes(Segmentors[next_segmentor], comp_input[j + 1])
                /\ Continue(added(k, tags)) \/ Stop(added(k, tags))
             \/ "raw" \in tags /\ k = Len(comp_input) /\ Stop(added(k, tags))
      PROVE  TailInv'
  <2> DEFINE segs == added(k, tags)
  <2>1. /\ /\ AtCaret(composition) /\ Takes(Segmentors[next_segmentor], comp_input[j + 1])
           => AtCaret(segs)
        /\ "raw" \in tags /\ k = Len(comp_input) => IsRaw(segs)
        /\ (composition # <<>> => Fine(Last(composition))) => TailFine(segs)
    BY <1>1, <1>4, SegmentAdded
  <2>2. \/ /\ Takes(Segmentors[next_segmentor], comp_input[j + 1])
           /\ Continue(segs) \/ Stop(segs)
        \/ "raw" \in tags /\ k = Len(comp_input) /\ Stop(segs)
    BY <1>4
  <2> HIDE DEF segs, j
  <2>3. AtCaret(composition) => AtCaret(segs) \/ (IsRaw(segs) /\ Stop(segs))
    BY <2>1, <2>2
  <2> QED
    BY <1>1, <2>1, <2>2, <2>3, SegmentedTail
<1>5. CASE AsciiSegmentor
  <2>1. CASE j < Len(comp_input) /\ Stop(added(Len(comp_input), {"raw"}))
    <3>1. {"raw"} \in SUBSET Tags /\ "raw" \in {"raw"}
      BY DEF Tags
    <3> HIDE DEF j, added
    <3> QED
      BY <1>2, <1>4, <2>1, <3>1
  <2> QED
    BY <1>3, <1>5, <2>1 DEF AsciiSegmentor
<1>6. CASE AbcSegmentor
  <2>1. CASE j < SpellingEnd(j) /\ Continue(added(SpellingEnd(j), {"abc"}))
    <3>1. SpellingEnd(j) \in j .. Len(comp_input)
      <4> HIDE DEF j
      <4> QED
        BY <1>2, SpellingEndBound
    <3>2. SpellingEnd(j) \in Nat /\ {"abc"} \in SUBSET Tags
      <4> HIDE DEF j
      <4> QED
        BY <1>2, <3>1 DEF Tags
    <3>3. Takes(Segmentors[next_segmentor], comp_input[j + 1])
      BY <1>2, <1>6, <2>1, SpellingTaken DEF AbcSegmentor, Calling, Takes
    <3> HIDE DEF j, added
    <3> QED
      BY <1>4, <2>1, <3>2, <3>3
  <2> QED
    BY <1>3, <1>6, <2>1 DEF AbcSegmentor
<1>7. CASE PunctSegmentor
  <2>1. CASE j < Len(comp_input) /\ comp_input[j + 1] \in Puncts /\ Stop(added(j + 1, {"punct"}))
    <3>1. j + 1 \in Nat /\ j < j + 1 /\ {"punct"} \in SUBSET Tags
      <4> HIDE DEF j
      <4> QED
        BY <1>2 DEF Tags
    <3>2. Takes(Segmentors[next_segmentor], comp_input[j + 1])
      BY <1>7, <2>1 DEF PunctSegmentor, Calling, Takes
    <3> HIDE DEF j, added
    <3> QED
      BY <1>4, <2>1, <3>1, <3>2
  <2> QED
    BY <1>3, <1>7, <2>1 DEF PunctSegmentor
<1> QED
  BY <1>5, <1>6, <1>7

\* The character that nobody has taken makes a raw segment, or a longer one.
LEMMA FallbackTail ==
  ASSUME Working, TailInv, FallbackSegmentor
  PROVE  TailInv'
<1> DEFINE k    == GetCurrentStartPosition(composition)
           segs == Trim(composition)
<1>1. /\ pc = "segmentors" /\ next_segmentor \in DOMAIN Segmentors
      /\ \/ Stop(composition)
         \/ /\ GetCurrentSegmentLength(composition) = 0
            /\ \/ segs # <<>> /\ Stop(ExtendRaw(segs, k))
               \/ Stop(AddRaw(segs, k))
  BY DEF FallbackSegmentor, Calling
<1>2. /\ Chain(composition) /\ Offered(composition) /\ k \in Nat /\ k + 1 \in Nat
      /\ Chain(segs) /\ Offered(segs)
      /\ GetCurrentEndPosition(segs) = GetCurrentEndPosition(composition)
  BY <1>1, RoundPosition, TrimChain, OfferedTrim
<1>3. ASSUME NEW new, Stop(new), new # <<>>, "raw" \in Last(new).tags,
             ~IsEmptySegment(Last(new)), Fine(Last(new))
      PROVE  TailInv'
  BY <1>1, <1>3, SegmentedTail DEF IsRaw, TailFine
<1>4. CASE GetCurrentSegmentLength(composition) = 0 /\ segs # <<>> /\ Stop(ExtendRaw(segs, k))
  <2>1. /\ Last(segs) \in SegmentType /\ Last(segs).end = k
        /\ Last(segs).start \in Nat /\ Last(segs).start <= k
    BY <1>2, <1>4, ChainLast, TrimmedEnd DEF Proper
  <2> DEFINE e   == k + 1
             raw == Raw(Last(segs), e)
  <2>2. e \in Nat /\ Last(segs).start <= e /\ Last(segs).start # e
    <3> HIDE DEF k, segs
    <3> QED
      BY <1>2, <2>1
  <2>3. ExtendRaw(segs, k) = SetBack(segs, raw)
    BY DEF ExtendRaw, Raw
  <2> HIDE DEF segs, e
  <2>4. /\ Proper(raw) /\ raw.status = kVoid /\ raw.start = Last(segs).start
        /\ raw.end = e /\ raw.tags = {"raw"}
    BY <2>1, <2>2, RawSegment
  <2> HIDE DEF raw
  <2>5. SetBack(segs, raw) # <<>> /\ Last(SetBack(segs, raw)) = raw
    BY <1>2, <1>4, <2>4, SetBackChain
  <2>6. ~IsEmptySegment(raw) /\ Fine(raw)
    BY <2>2, <2>4, VoidFine DEF IsEmptySegment
  <2> QED
    BY <1>3, <1>4, <2>3, <2>4, <2>5, <2>6
<1>5. CASE GetCurrentSegmentLength(composition) = 0 /\ Stop(AddRaw(segs, k))
  <2> DEFINE longer == Forward(segs)
             e      == k + 1
             seg    == SegmentWithTags(k, e, {"raw"})
  <2>1. /\ GetCurrentStartPosition(longer) = k
        /\ longer # <<>> => Last(longer).status = kVoid
    BY <1>2, <1>5, ForwardTrimmed
  <2>2. Chain(longer) /\ GetCurrentEndPosition(longer) = GetCurrentEndPosition(composition)
    BY <1>2, ForwardChain, OfferedForward
  <2>3. GetCurrentEndPosition(composition) = k
    BY <1>1, <1>2, <1>5, RoundPosition DEF GetCurrentSegmentLength
  <2>4. AddRaw(segs, k) = AddSegment(longer, seg)
    BY DEF AddRaw
  <2> HIDE DEF longer, k
  <2>5. e \in Nat /\ k <= e /\ k # e
    BY <1>2
  <2> HIDE DEF e
  <2>6. seg.status = kVoid /\ seg.tags = {"raw"}
    BY DEF SegmentWithTags, Segment
  <2>7. Proper(seg) /\ seg.start = k /\ seg.end = e
    BY <1>2, <2>5, NewSegment DEF Tags
  <2> HIDE DEF seg
  <2> DEFINE new == AddSegment(longer, seg)
  <2>8. /\ new # <<>> /\ ~IsEmptySegment(Last(new))
        /\ GetCurrentEndPosition(longer) <= seg.end => seg.tags \subseteq Last(new).tags
        /\ Fine(Last(new)) \/ (longer # <<>> /\ (Fine(Last(longer)) => Fine(Last(new))))
    BY <2>1, <2>2, <2>5, <2>6, <2>7, AddedTail
  <2> HIDE DEF new
  <2>9. "raw" \in Last(new).tags
    BY <2>2, <2>3, <2>5, <2>6, <2>7, <2>8
  <2>10. Fine(Last(new))
    BY <2>1, <2>8, VoidFine
  <2> QED
    BY <1>3, <1>5, <2>4, <2>8, <2>9, <2>10 DEF new
<1>6. CASE Stop(composition)
  BY <1>1, <1>6, SegmentedTail
<1> QED
  BY <1>1, <1>4, <1>5, <1>6

-----------------------------------------------------------------------------
(* The rounds, and what is made of the last segment when they are over.     *)

LEMMA BeginRoundTail ==
  ASSUME TailInv, BeginRound
  PROVE  TailInv'
<1>1. /\ UNCHANGED <<input, caret_pos, composition, comp_input, then>>
      /\ pc = "rounds" /\ pc' = "segmentors"
      /\ start_pos' = GetCurrentStartPosition(composition)
  BY DEF BeginRound, contextVars
<1>2. RoundTail'
  BY <1>1 DEF TailInv, RoundTail, AtCaret, BeginsAt, Behind, IsRaw, Awaited,
     GetCurrentStartPosition, GetCurrentEndPosition
<1>3. RestTail'
  BY <1>1 DEF RestTail, AtEnd, Translating
<1>4. PagingInv'
  BY <1>1 DEF TailInv, PagingInv, TailFine, Coming, Awaited, Fine, HasSelectedCandidate,
     IsEmptySegment, Behind
<1> QED
  BY <1>2, <1>3, <1>4 DEF TailInv

\* The segmentor that takes the first character has made a segment.
LEMMA CameAtEnd ==
  ASSUME Working, EndRound, Coming
  PROVE  FALSE
<1>1. /\ start_pos = 0 /\ next_segmentor > Len(Segmentors)
      /\ next_segmentor \in Nat /\ GetCurrentEndPosition(composition) = 0
  BY RoundPosition DEF EndRound, Working, CompositionInv, Coming, GetCurrentEndPosition
<1>2. \A n \in 1 .. next_segmentor - 1 : ~Takes(Segmentors[n], comp_input[1])
  BY <1>1 DEF EndRound, Working, ProgressInv, RoundInv
<1>3. PICK n \in DOMAIN Segmentors : Takes(Segmentors[n], comp_input[1])
  BY DEF Coming, Awaited
<1>4. n \in 1 .. next_segmentor - 1
  BY <1>1, <1>3, SegmentorsAssumption
<1> QED
  BY <1>2, <1>3, <1>4

\* The next round begins with an empty segment.
LEMMA ForwardFine ==
  ASSUME NEW segs, Chain(segs), TailFine(segs)
  PROVE  TailFine(Forward(segs))
<1>1. CASE IsEmptySegment(Last(segs))
  BY <1>1 DEF Forward
<1>2. CASE ~IsEmptySegment(Last(segs))
  <2>1. segs # <<>> /\ Fine(Last(segs))
    BY DEF TailFine
  <2> DEFINE new == Forward(segs)
  <2>2. /\ new # <<>> /\ Len(new) > 1 /\ new[Len(new) - 1] = Last(segs)
        /\ Last(new).status = kVoid
    BY <1>2, <2>1, ForwardLast
  <2> HIDE DEF new
  <2>3. Fine(Last(new))
    BY <2>2, VoidFine
  <2>4. TailFine(new)
    BY <2>1, <2>2, <2>3 DEF TailFine
  <2> QED
    BY <2>4 DEF new
<1> QED
  BY <1>1, <1>2

LEMMA EndRoundTail ==
  ASSUME Working, TailInv, EndRound
  PROVE  TailInv'
<1>1. /\ UNCHANGED <<input, caret_pos, comp_input, then>> /\ pc = "segmentors"
      /\ \/ pc' = "trim" /\ UNCHANGED composition
         \/ /\ pc' = "rounds" /\ start_pos < caret_pos
            /\ composition' \in { composition, Forward(composition) }
  BY DEF EndRound
<1>2. RestTail'
  BY <1>1 DEF RestTail, AtEnd, Translating
<1>3. ASSUME then = "paging" PROVE TailFine(composition')
  <2>1. TailFine(composition) /\ Chain(composition)
    BY <1>1, <1>3, CameAtEnd DEF TailInv, PagingInv, Working, CompositionInv
  <2>2. TailFine(Forward(composition))
    BY <2>1, ForwardFine
  <2> QED
    BY <1>1, <2>1, <2>2
<1>4. PagingInv'
  BY <1>1, <1>3 DEF PagingInv, TailFine, Fine, HasSelectedCandidate, IsEmptySegment, Behind
<1>5. CASE pc' = "trim" /\ UNCHANGED composition
  <2>1. RoundTail'
    BY <1>1, <1>5 DEF TailInv, RoundTail, AtCaret, BeginsAt, Behind, IsRaw, Awaited,
       IsEmptySegment, GetCurrentStartPosition, GetCurrentEndPosition
  <2> QED
    BY <1>2, <1>4, <2>1 DEF TailInv
<1>6. CASE pc' = "rounds" /\ start_pos < caret_pos
  <2>1. ~(caret_pos < Len(comp_input))
    BY <1>1, <1>6 DEF TailInv, RoundTail, Working, CompositionInv
  <2>2. RoundTail'
    BY <1>1, <2>1 DEF RoundTail
  <2> QED
    BY <1>2, <1>4, <2>2 DEF TailInv
<1> QED
  BY <1>1, <1>5, <1>6

\* After the rounds, what lies past the caret is a segment of its own or raw.
LEMMA RoundsEnd ==
  ASSUME Working, TailInv, FinishSegmentation
  PROVE  /\ GetCurrentEndPosition(composition) > caret_pos =>
              AtCaret(composition) \/ IsRaw(composition)
         /\ CanTrim(composition) => GetCurrentEndPosition(composition) <= caret_pos
         /\ then = "paging" => TailFine(composition)
<1> DEFINE end == GetCurrentEndPosition(composition)
<1>1. /\ end \in Nat /\ caret_pos \in Nat /\ Len(comp_input) \in Nat /\ end <= Len(comp_input)
      /\ pc = "trim" \/ (pc = "rounds" /\ end >= Len(comp_input))
  BY EndPosition DEF Working, CompositionInv, FinishSegmentation, HasFinishedSegmentation
<1>2. end > caret_pos => AtCaret(composition) \/ IsRaw(composition)
  <2>1. end > caret_pos => caret_pos < Len(comp_input)
    BY <1>1
  <2> QED
    BY <1>1, <2>1 DEF TailInv, RoundTail
<1>3. ASSUME CanTrim(composition) PROVE end <= caret_pos
  <2>1. composition # <<>> /\ end = GetCurrentStartPosition(composition) /\ ~IsRaw(composition)
    BY <1>3 DEF CanTrim, IsEmptySegment, IsRaw, GetCurrentStartPosition, GetCurrentEndPosition
  <2>2. AtCaret(composition) => end = caret_pos
    BY <2>1 DEF AtCaret, BeginsAt
  <2> QED
    BY <1>1, <1>2, <2>1, <2>2
<1>4. ASSUME then = "paging" PROVE TailFine(composition)
  <2>1. Coming /\ pc = "rounds" => FALSE
    <3>1. Coming => end = 0 /\ comp_input # <<>>
      BY DEF Coming, GetCurrentEndPosition
    <3>2. comp_input # <<>> => Len(comp_input) > 0
      BY DEF Working, CompositionInv
    <3> QED
      BY <1>1, <3>1, <3>2
  <2> QED
    BY <1>1, <1>4, <2>1 DEF TailInv, PagingInv
<1> QED
  BY <1>2, <1>3, <1>4

\* A segment that is not selected is not followed by an empty one.
LEMMA TrimmedTail ==
  ASSUME Working, Open(composition), CanTrim(composition), NEW new,
         new = ForwardIfSelected(Trim(composition))
  PROVE  /\ GetCurrentEndPosition(new) = GetCurrentEndPosition(composition)
         /\ new # <<>> /\ IsEmptySegment(Last(new)) => Behind(new)
         /\ TailFine(composition) => new # <<>> /\ Fine(Last(new))
<1> DEFINE segs == Trim(composition)
<1>1. /\ Chain(composition) /\ Offered(composition) /\ Len(composition) \in Nat
      /\ composition # <<>> /\ Answered(composition)
  BY CompositionChain DEF Working, ProgressInv, Open, CanTrim
<1>2. /\ Chain(segs) /\ Len(segs) = Len(composition) - 1
      /\ segs # <<>> => ~IsEmptySegment(Last(segs))
      /\ Agree(composition, segs, Len(composition) - 1)
      /\ GetCurrentEndPosition(segs) = GetCurrentEndPosition(composition)
      /\ GetCurrentEndPosition(Forward(segs)) = GetCurrentEndPosition(segs)
  BY <1>1, OpenTrim, OfferedTrim, OfferedForward
<1>3. new = IF segs # <<>> /\ Last(segs).status >= kSelected THEN Forward(segs) ELSE segs
  BY DEF ForwardIfSelected
<1>4. ASSUME TailFine(composition)
      PROVE  /\ segs # <<>>
             /\ Fine(Last(segs)) \/ Last(segs).status >= kSelected
  <2>1. /\ Len(composition) > 1
        /\ \/ Fine(composition[Len(composition) - 1])
           \/ composition[Len(composition) - 1].status >= kSelected
    BY <1>4 DEF TailFine, CanTrim, Behind
  <2> HIDE DEF segs
  <2>2. Len(segs) \in 1 .. Len(composition) - 1 /\ segs # <<>>
    BY <1>1, <1>2, <2>1
  <2>3. Last(segs) = composition[Len(composition) - 1]
    BY <1>2, <2>2, ChainLast DEF Agree
  <2> QED
    BY <2>1, <2>2, <2>3
<1> HIDE DEF segs
<1>5. CASE segs # <<>> /\ Last(segs).status >= kSelected
  <2>1. /\ Forward(segs) # <<>> /\ Len(Forward(segs)) > 1
        /\ Forward(segs)[Len(Forward(segs)) - 1] = Last(segs)
        /\ Last(Forward(segs)).status = kVoid
    BY <1>2, <1>5, ForwardLast
  <2>2. Fine(Last(Forward(segs)))
    BY <2>1, VoidFine
  <2> QED
    BY <1>2, <1>3, <1>5, <2>1, <2>2 DEF Behind
<1>6. CASE ~(segs # <<>> /\ Last(segs).status >= kSelected)
  BY <1>2, <1>3, <1>4, <1>6
<1> QED
  BY <1>5, <1>6

LEMMA FinishSegmentationTail ==
  ASSUME Working, Open(composition), TailInv, FinishSegmentation
  PROVE  TailInv'
<1>1. /\ UNCHANGED <<input, caret_pos, comp_input, then>> /\ pc' = "translators"
      /\ Chain(composition)
  BY DEF FinishSegmentation, Working, CompositionInv
<1>2. composition' = ForwardIfSelected(Trim(composition))
  <2>1. composition # <<>> => "placeholder" \notin Last(composition).tags
    BY <1>1, ChainLast DEF Proper, SegmentType, Tags
  <2> QED
    BY <2>1 DEF FinishSegmentation
<1>3. /\ GetCurrentEndPosition(composition) > caret_pos =>
           AtCaret(composition) \/ IsRaw(composition)
      /\ CanTrim(composition) => GetCurrentEndPosition(composition) <= caret_pos
      /\ then = "paging" => TailFine(composition)
  BY RoundsEnd
<1>4. /\ GetCurrentEndPosition(composition) \in Nat /\ caret_pos \in Nat
  BY <1>1, EndPosition DEF Working, CompositionInv
<1>5. /\ composition' # <<>> /\ IsEmptySegment(Last(composition')) => Behind(composition')
      /\ GetCurrentEndPosition(composition') > caret_pos =>
           composition' = composition /\ (AtCaret(composition) \/ IsRaw(composition))
      /\ then = "paging" => composition' # <<>> /\ Fine(Last(composition'))
  <2>1. CASE CanTrim(composition)
    BY <1>2, <1>3, <1>4, <2>1, TrimmedTail
  <2>2. CASE ~CanTrim(composition)
    <3>1. composition' = composition
      BY <1>1, <1>2, <2>2, ChainLast DEF Trim, ForwardIfSelected, Open, Unselected, Proper,
         SegmentType, Status, kVoid, kSelected, kConfirmed
    <3> QED
      BY <1>3, <2>2, <3>1 DEF CanTrim, TailFine
  <2> QED
    BY <2>1, <2>2
<1>6. RestTail'
  BY <1>1, <1>5 DEF RestTail, AtCaret, BeginsAt, Behind, IsRaw, Awaited, IsEmptySegment,
     GetCurrentStartPosition, GetCurrentEndPosition
<1>7. PagingInv' /\ RoundTail'
  BY <1>1, <1>5 DEF PagingInv, RoundTail, Fine, HasSelectedCandidate
<1> QED
  BY <1>6, <1>7 DEF TailInv

\* The first of some candidates is highlighted.
LEMMA TranslatedFine ==
  ASSUME CompositionInv, NEW i \in 1 .. Len(composition),
         NEW ends \in BoundedSeq((composition[i].start + 1) .. composition[i].end, MaxCandidates)
  PROVE  LET new == Translated(composition[i], ends)
         IN  /\ new.start = composition[i].start /\ new.end = composition[i].end
             /\ new.tags = composition[i].tags /\ Fine(new)
<1> DEFINE seg  == composition[i]
           menu == [ query |-> SubSeq(comp_input, seg.start + 1, seg.end), ends |-> ends ]
           new  == Translated(seg, ends)
<1>1. seg \in SegmentType /\ seg.start \in Nat /\ seg.end \in Nat
  BY ChainAt DEF CompositionInv, Proper
<1>2. PICK m \in 0 .. MaxCandidates : ends \in [1 .. m -> (seg.start + 1) .. seg.end]
  BY Zenon DEF BoundedSeq, SeqOf
<1> HIDE DEF seg
<1>3. ends = <<>> \/ 0 < Len(ends)
  <2>1. m \in Nat
    BY <1>2, BoundAssumption
  <2>2. ends \in [1 .. m -> Nat]
    BY <1>1, <1>2, <2>1
  <2>3. ends \in Seq(Nat)
    BY <2>1, <2>2
  <2> QED
    BY <2>3
<1>4. menu.ends = ends
  OBVIOUS
<1>5. new = [ seg EXCEPT !.status = kGuess, !.selected_index = 0, !.menu = menu ]
  BY DEF Translated
<1> HIDE DEF menu, new
<1>6. /\ new.start = seg.start /\ new.end = seg.end /\ new.tags = seg.tags
      /\ new.menu = menu /\ new.selected_index = 0
  BY <1>1, <1>5 DEF SegmentType
<1>7. Fine(new)
  BY <1>3, <1>4, <1>6 DEF Fine, HasSelectedCandidate
<1> QED
  BY <1>6, <1>7 DEF new, seg

\* A segment that is translated stays where it is, with its first candidate highlighted.
LEMMA TranslateTail ==
  ASSUME Working, CompositionInv', TailInv, TranslateSegment
  PROVE  TailInv'
<1> DEFINE i   == Min(Untranslated)
           seg == composition[i]
<1>1. /\ composition \in Seq(SegmentType) /\ Len(composition) \in Nat /\ Chain(composition)
      /\ DOMAIN composition = 1 .. Len(composition)
  BY CompositionChain DEF Working
<1>2. i \in 1 .. Len(composition) /\ seg.status < kGuess
  <2>1. /\ Untranslated # {} /\ Untranslated \in SUBSET Nat
        /\ Untranslated \subseteq 1 .. Len(composition)
    BY <1>1 DEF TranslateSegment, Untranslated
  <2>2. i \in Untranslated
    BY <2>1, MinNat
  <2> HIDE DEF i
  <2> QED
    BY <2>1, <2>2 DEF Untranslated
<1>3. PICK ends \in BoundedSeq((seg.start + 1) .. seg.end, MaxCandidates) :
        composition' = [ composition EXCEPT ![i] = Translated(seg, ends) ]
  BY DEF TranslateSegment
<1> DEFINE new == Translated(seg, ends)
<1> HIDE DEF i
<1>4. /\ new.start = seg.start /\ new.end = seg.end /\ new.tags = seg.tags /\ Fine(new)
  BY <1>1, <1>2, <1>3, TranslatedFine DEF Working
<1>5. /\ Len(composition') = Len(composition)
      /\ composition'[i] = new
      /\ \A n \in 1 .. Len(composition) : n # i => composition'[n] = composition[n]
  BY <1>1, <1>2, <1>3
<1> HIDE DEF new
<1>6. Chain(composition') /\ composition # <<>> /\ composition' # <<>>
  <2>1. Len(composition) # 0 /\ Chain(composition')
    BY <1>1, <1>2 DEF CompositionInv, Chain
  <2> QED
    BY <1>5, <2>1
<1>7. /\ Last(composition) = composition[Len(composition)]
      /\ Last(composition') = composition'[Len(composition)]
      /\ Len(composition) \in 1 .. Len(composition)
  BY <1>1, <1>5, <1>6, ChainLast
<1>8. /\ \A field \in {"start", "end", "tags"} :
           Last(composition')[field] = Last(composition)[field]
      /\ Fine(Last(composition)) => Fine(Last(composition'))
  <2>1. CASE i = Len(composition)
    BY <1>4, <1>5, <1>7, <2>1 DEF seg
  <2>2. CASE i # Len(composition)
    BY <1>5, <1>7, <2>2
  <2> QED
    BY <2>1, <2>2
<1>9. Behind(composition) => Behind(composition')
  <2>1. ASSUME Len(composition) > 1, composition[Len(composition) - 1].status >= kSelected
        PROVE  composition'[Len(composition) - 1] = composition[Len(composition) - 1]
    <3>1. Len(composition) - 1 \in 1 .. Len(composition)
      BY <1>1, <2>1
    <3>2. seg.status \in Status
      BY <1>1, <1>2, ChainAt DEF Proper, SegmentType
    <3>3. i # Len(composition) - 1
      BY <1>2, <2>1, <3>2 DEF seg, Status, kVoid, kGuess, kSelected, kConfirmed
    <3> QED
      BY <1>5, <3>1, <3>3
  <2> QED
    BY <1>5, <2>1 DEF Behind
<1>10. /\ UNCHANGED <<input, caret_pos, comp_input, pc, then>> /\ pc = "translators"
  BY DEF TranslateSegment, engineVars
<1>11. RestTail'
  <2>1. /\ IsEmptySegment(Last(composition)) => Behind(composition)
        /\ GetCurrentEndPosition(composition) > caret_pos =>
             AtCaret(composition) \/ IsRaw(composition)
    BY <1>6, <1>10 DEF TailInv, RestTail, AtEnd, Translating
  <2>2. /\ GetCurrentEndPosition(composition') = GetCurrentEndPosition(composition)
        /\ GetCurrentStartPosition(composition') = GetCurrentStartPosition(composition)
        /\ IsEmptySegment(Last(composition')) <=> IsEmptySegment(Last(composition))
        /\ Last(composition').tags = Last(composition).tags
    BY <1>6, <1>8 DEF GetCurrentEndPosition, GetCurrentStartPosition, IsEmptySegment
  <2>3. /\ IsEmptySegment(Last(composition')) => Behind(composition')
        /\ GetCurrentEndPosition(composition') > caret_pos =>
             AtCaret(composition') \/ IsRaw(composition')
    BY <1>6, <1>9, <2>1, <2>2 DEF AtCaret, BeginsAt, IsRaw
  <2> QED
    BY <1>10, <2>3 DEF RestTail, AtCaret, BeginsAt, Behind, IsRaw, Awaited, IsEmptySegment,
       GetCurrentStartPosition, GetCurrentEndPosition
<1>12. PagingInv' /\ RoundTail'
  BY <1>6, <1>8, <1>10 DEF TailInv, PagingInv, RoundTail, Fine, HasSelectedCandidate
<1> QED
  BY <1>11, <1>12 DEF TailInv

\* The translators are done: the call returns with all segments translated.
LEMMA FinishTranslationTail ==
  ASSUME Working, TailInv, FinishTranslation
  PROVE  TailInv'
<1>1. /\ UNCHANGED <<input, caret_pos, composition, comp_input, then>>
      /\ pc = "translators" /\ pc' \in {"idle", "resume"}
  BY DEF FinishTranslation, Return, contextVars
<1>2. ASSUME composition # <<>>
      PROVE  Last(composition).status >= kGuess /\ Last(composition).menu # NoMenu
  <2>1. /\ Chain(composition) /\ Offered(composition)
        /\ DOMAIN composition = 1 .. Len(composition)
    BY DEF Working, ProgressInv, CompositionInv, Chain
  <2>2. /\ Last(composition) = composition[Len(composition)]
        /\ Len(composition) \in 1 .. Len(composition)
        /\ Last(composition).status \in Status
    BY <1>2, <2>1, ChainLast DEF Proper, SegmentType
  <2>3. ~(Last(composition).status < kGuess)
    BY <2>1, <2>2 DEF FinishTranslation, Untranslated
  <2> QED
    BY <2>1, <2>2, <2>3 DEF Offered, Status, kVoid, kGuess, kConfirmed
<1>3. RestTail'
  BY <1>1 DEF TailInv, RestTail, AtEnd, Translating, AtCaret, BeginsAt, Behind, IsRaw, Awaited,
     IsEmptySegment, GetCurrentStartPosition, GetCurrentEndPosition
<1>4. PagingInv' /\ RoundTail'
  BY <1>1, <1>2 DEF TailInv, PagingInv, RoundTail, Fine, HasSelectedCandidate
<1> QED
  BY <1>3, <1>4 DEF TailInv

LEMMA EngineTail ==
  ASSUME Working, Open(composition), CompositionInv', TailInv, Engine
  PROVE  TailInv'
BY BeginRoundTail, SegmentorsTail, FallbackTail, EndRoundTail, FinishSegmentationTail,
   TranslateTail, FinishTranslationTail DEF Engine

-----------------------------------------------------------------------------
(* The calls.  None but a key of Selector that highlights a candidate comes *)
(* back to tag the last segment.                                            *)

\* What a call does next is what its caller asks of it.
LEMMA ComposeThen ==
  ASSUME NEW k, \/ \E segs : Edit(segs, k) \/ Stay(k) \/ Clear(k)
                \/ \E segs, text, caret : Compose(text, caret, segs, k)
  PROVE  then' = k
BY DEF Edit, Stay, Clear, Return, Compose

LEMMA CallThen ==
  ASSUME NEW k,
         \/ BeginEditing(k) \/ Commit(k) \/ ConfirmCurrentSelection(k)
         \/ ReopenPreviousSegment(k) \/ ReopenPreviousSelection(k) \/ ClearPreviousSegment(k)
         \/ \E x : \/ PushInput(x, k) \/ PopInput(x, k) \/ DeleteInput(x, k) \/ Select(x, k)
                   \/ Highlight(x, k) \/ Delete(x, k) \/ set_input(x, k) \/ set_caret_pos(x, k)
         \/ \E name, value : set_option(name, value, k)
  PROVE  then' = k
<1>1. ASSUME NEW segs, OnSelect(segs, k) PROVE then' = k
  BY <1>1, ComposeThen DEF OnSelect
<1>2. CASE \/ BeginEditing(k) \/ Commit(k)
           \/ ReopenPreviousSegment(k) \/ ReopenPreviousSelection(k) \/ ClearPreviousSegment(k)
  BY <1>2, ComposeThen DEF BeginEditing, Commit, ReopenPreviousSegment,
     ReopenPreviousSelection, ClearPreviousSegment, set_input
<1>3. CASE ConfirmCurrentSelection(k) \/ \E x : Select(x, k)
  BY <1>1, <1>3 DEF ConfirmCurrentSelection, Select
<1>4. CASE \E x : \/ PushInput(x, k) \/ PopInput(x, k) \/ DeleteInput(x, k)
                  \/ Highlight(x, k) \/ set_input(x, k) \/ set_caret_pos(x, k)
  BY <1>4, ComposeThen DEF PushInput, PopInput, DeleteInput, Highlight, set_input, set_caret_pos
<1>5. CASE \E x : Delete(x, k)
  BY <1>5, ComposeThen DEF Delete
<1>6. CASE \E name, value : set_option(name, value, k)
  BY <1>6, ComposeThen DEF set_option, RefreshNonConfirmedComposition
<1> QED
  BY <1>2, <1>3, <1>4, <1>5, <1>6

LEMMA ResumeThen ==
  ASSUME Resume
  PROVE  then' = "return"
<1>1. CASE ResumePaging
  BY <1>1, ComposeThen DEF ResumePaging
<1>2. CASE ResumeBeginEditing \/ ResumeReopenPreviousSegment \/ ResumeCommitUnlessMenu
  BY <1>2, CallThen, ComposeThen DEF ResumeBeginEditing, ResumeReopenPreviousSegment,
     ResumeCommitUnlessMenu
<1>3. CASE ResumeConfirmUniquePunct \/ ResumeAutoCommitPunct
  BY <1>3, CallThen, ComposeThen DEF ResumeConfirmUniquePunct, ResumeAutoCommitPunct
<1> QED
  BY <1>1, <1>2, <1>3 DEF Resume

LEMMA APIThen ==
  ASSUME API
  PROVE  then' = "return"
<1>1. ASSUME NEW x, \/ RimeSetInput(x) \/ RimeSetCaretPos(x) \/ RimeSelectCandidate(x)
                    \/ RimeHighlightCandidate(x) \/ RimeDeleteCandidate(x)
      PROVE  then' = "return"
  BY <1>1, CallThen DEF RimeSetInput, RimeSetCaretPos, RimeSelectCandidate,
     RimeHighlightCandidate, RimeDeleteCandidate
<1>2. ASSUME NEW x, RimeChangePage(x) PROVE then' = "return"
  BY <1>2, ComposeThen DEF RimeChangePage
<1>3. CASE RimeCommitComposition \/ RimeClearComposition \/ RimeSetOption
  BY <1>3, CallThen, ComposeThen DEF RimeCommitComposition, RimeClearComposition, RimeSetOption
<1> QED
  BY <1>1, <1>2, <1>3 DEF API

LEMMA KeyThen ==
  ASSUME Key
  PROVE  then' # "paging" \/ \E index \in 0 .. MaxCandidates - 1 : MoveHighlight(index)
<1>1. ASSUME NEW ch, SpellerKey(ch) \/ AddToInput(ch) \/ DirectCommit(ch)
      PROVE  then' # "paging"
  <2>1. then' = "BeginEditing" \/ then' = "return"
    BY <1>1, CallThen DEF SpellerKey, AddToInput, DirectCommit
  <2> QED
    BY <2>1
<1>2. ASSUME NEW ch \in Puncts, AlternatePunct(ch) \/ PunctuatorKey(ch)
      PROVE  then' # "paging"
  <2>1. CASE AlternatePunct(ch)
    <3>1. then' = "return"
      BY <2>1, ComposeThen DEF AlternatePunct
    <3> QED
      BY <3>1
  <2>2. CASE PunctuatorKey(ch)
    <3>1. PunctKind[ch] \in {"list", "unique", "commit"}
      BY PunctAssumption
    <3>2. PICK k \in {"ConfirmUniquePunct", "AutoCommitPunct", "return"} : PushInput(ch, k)
      BY <2>2, <3>1 DEF PunctuatorKey
    <3>3. then' = k
      BY <3>2, CallThen
    <3> QED
      BY <3>2, <3>3
  <2> QED
    BY <1>2, <2>1, <2>2
<1>3. ASSUME NEW index, SelectCandidateAt(index)
      PROVE  then' = "return"
  BY <1>3, CallThen DEF SelectCandidateAt
<1>4. ASSUME NEW p, MoveTo(p) PROVE then' = "return"
  BY <1>4, CallThen, ComposeThen DEF MoveTo
<1>5. CASE LeftByChar \/ RightByChar \/ Home \/ End \/ \E p \in 0 .. Len(input) : JumpBySyllable(p)
  <2>1. \E p : MoveTo(p)
    BY <1>5 DEF LeftByChar, RightByChar, Home, End, JumpBySyllable
  <2>2. then' = "return"
    BY <1>4, <2>1
  <2> QED
    BY <2>2
<1>6. CASE \/ Confirm \/ ToggleSelection \/ CommitComment \/ CommitScriptText
           \/ CommitRawInput \/ CommitComposition
  <2>1. then' = "return" \/ then' = "CommitUnlessMenu"
    BY <1>6, CallThen, ComposeThen DEF Confirm, ToggleSelection, CommitComment,
       CommitScriptText, CommitRawInput, CommitComposition
  <2> QED
    BY <2>1
<1>7. CASE \/ RevertLastEdit \/ BackToPreviousInput
           \/ \E len \in 1 .. Len(input) : BackToPreviousSyllable(len)
  <2>1. then' = "return" \/ then' = "ReopenPreviousSegment"
    BY <1>7, CallThen DEF RevertLastEdit, BackToPreviousInput, BackToPreviousSyllable
  <2> QED
    BY <2>1
<1>8. CASE DeleteCandidate \/ DeleteChar \/ CancelComposition
  <2>1. then' = "return"
    BY <1>8, CallThen, ComposeThen DEF DeleteCandidate, DeleteChar, CancelComposition
  <2> QED
    BY <2>1
<1>9. CASE PageInPlace \/ HighlightFirst
  <2>1. then' = "return"
    BY <1>9, CallThen, ComposeThen DEF PageInPlace, HighlightFirst
  <2> QED
    BY <2>1
<1> QED
  BY <1>1, <1>2, <1>3, <1>5, <1>6, <1>7, <1>8, <1>9 DEF Key

\* Before the caret nothing changes: the segments up to there stay.
LEMMA ActiveDiffPos ==
  ASSUME CompositionInv, TextInv
  PROVE  LET active_input == SubSeq(input, 1, caret_pos)
         IN  /\ DiffPos(comp_input, active_input) = caret_pos
             /\ DiffPos(active_input, input) >= caret_pos
             /\ DiffPos(active_input, input) \in Nat
             /\ caret_pos \in Nat
<1> DEFINE active_input == SubSeq(input, 1, caret_pos)
           m == Len(comp_input)
<1>1. /\ input \in Seq(Chars) /\ caret_pos \in 0 .. Len(input) /\ caret_pos \in Nat
      /\ comp_input \in Seq(Chars) /\ m \in Nat /\ Len(input) \in Nat
      /\ m <= Len(input) /\ caret_pos <= m /\ comp_input = SubSeq(input, 1, m)
  BY DEF CompositionInv, TextInv
<1>2. /\ active_input \in Seq(Chars) /\ Len(active_input) = caret_pos
      /\ \A j \in 1 .. caret_pos : active_input[j] = input[j]
  BY <1>1, CutText
<1>3. m \in 0 .. Len(input)
  BY <1>1
<1> HIDE DEF active_input, m
<1>4. \A j \in 1 .. m : comp_input[j] = input[j]
  <2>1. \A j \in 1 .. m : SubSeq(input, 1, m)[j] = input[j]
    BY <1>1, <1>3, CutText
  <2> QED
    BY <1>1, <2>1
<1>5. DiffPos(comp_input, active_input) >= caret_pos
  <2>1. \A j \in 1 .. caret_pos : comp_input[j] = active_input[j]
    BY <1>1, <1>2, <1>4
  <2>2. caret_pos \in 0 .. Len(comp_input) /\ caret_pos <= Len(active_input)
    BY <1>1, <1>2 DEF m
  <2> QED
    BY <1>1, <1>2, <2>1, <2>2, AgreedDiffPos
<1>6. DiffPos(active_input, input) >= caret_pos
  <2>1. caret_pos \in 0 .. Len(active_input) /\ caret_pos <= Len(input)
    BY <1>1, <1>2
  <2> QED
    BY <1>1, <1>2, <2>1, AgreedDiffPos
<1>7. /\ DiffPos(comp_input, active_input) \in Nat
      /\ DiffPos(comp_input, active_input) <= caret_pos
      /\ DiffPos(active_input, input) \in Nat
  <2>1. /\ DiffPos(comp_input, active_input) \in 0 .. Len(comp_input)
        /\ DiffPos(comp_input, active_input) <= Len(active_input)
        /\ DiffPos(active_input, input) \in 0 .. Len(active_input)
    BY <1>1, <1>2, DiffPosBound
  <2> QED
    BY <1>1, <1>2, <2>1 DEF m
<1>8. DiffPos(comp_input, active_input) = caret_pos
  BY <1>1, <1>5, <1>7
<1> QED
  BY <1>1, <1>6, <1>7, <1>8 DEF active_input

\* With the highlighted segment dropped, the one before the caret is the user's choice.
LEMMA DroppedTail ==
  ASSUME NEW segs, Chain(segs), Behind(segs),
         NEW new, new = Forward(SubSeq(segs, 1, Len(segs) - 1))
  PROVE  /\ Chain(new) /\ TailFine(new)
         /\ GetCurrentEndPosition(new) = GetCurrentStartPosition(segs)
<1> DEFINE prefix == SubSeq(segs, 1, Len(segs) - 1)
           n == Len(segs)
<1>1. /\ n \in Nat /\ n > 1 /\ segs # <<>> /\ Last(segs) = segs[n]
      /\ segs[n - 1].status >= kSelected
  BY ChainLast DEF Behind, Chain
<1>2. n - 1 \in 0 .. n /\ n - 1 \in 1 .. n /\ n \in 1 .. n /\ n - 1 < n
  BY <1>1
<1>3. /\ Chain(prefix) /\ Len(prefix) = n - 1
      /\ \A i \in 1 .. n - 1 : prefix[i] = segs[i]
  BY <1>2, ChainPrefix
<1>4. segs[n].start = segs[n - 1].end /\ segs[n - 1].start # segs[n - 1].end
  BY <1>1, <1>2, ChainAt
<1> HIDE DEF prefix, n
<1>5. prefix # <<>> /\ Last(prefix) = segs[n - 1]
  <2>1. Len(prefix) >= 1 /\ n - 1 \in 1 .. n - 1
    BY <1>1, <1>3
  <2>2. prefix # <<>>
    BY <2>1
  <2> QED
    BY <1>3, <2>1, <2>2, ChainLast
<1>6. ~IsEmptySegment(Last(prefix))
  BY <1>4, <1>5 DEF IsEmptySegment
<1>7. /\ new # <<>> /\ Len(new) > 1 /\ new[Len(new) - 1] = Last(prefix)
      /\ IsEmptySegment(Last(new)) /\ Last(new).status = kVoid
      /\ Last(new).start = Last(prefix).end
  BY <1>3, <1>5, <1>6, ForwardLast DEF prefix, n
<1>8. Chain(new)
  BY <1>3, ForwardChain DEF prefix, n
<1>9. Fine(Last(new)) /\ Behind(new)
  BY <1>1, <1>5, <1>7, VoidFine DEF Behind
<1> QED
  BY <1>1, <1>4, <1>5, <1>7, <1>8, <1>9
     DEF TailFine, GetCurrentStartPosition, GetCurrentEndPosition, IsEmptySegment

\* Nothing is selected before a segment at the start.
LEMMA FirstSegment ==
  ASSUME NEW segs, Chain(segs), segs # <<>>, Last(segs).start = 0
  PROVE  SubSeq(segs, 1, Len(segs) - 1) = <<>>
<1> DEFINE n == Len(segs)
<1>1. n \in Nat /\ n >= 1 /\ Last(segs) = segs[n] /\ segs \in Seq(SegmentType)
  BY ChainLast DEF Chain
<1>2. n = 1
  <2>1. ASSUME n > 1 PROVE FALSE
    <3>1. n - 1 \in 1 .. n /\ n \in 1 .. n /\ n - 1 < n
      BY <1>1, <2>1
    <3>2. segs[n].start = segs[n - 1].end
      BY <2>1, <3>1, ChainAt
    <3>3. /\ segs[n - 1].start \in Nat /\ segs[n - 1].end \in Nat
          /\ segs[n - 1].start <= segs[n - 1].end /\ segs[n - 1].start # segs[n - 1].end
      BY <3>1, ChainAt
    <3> QED
      BY <1>1, <3>2, <3>3
  <2> HIDE DEF n
  <2> QED
    BY <1>1, <2>1
<1> HIDE DEF n
<1>3. n - 1 = 0
  BY <1>2
<1>4. SubSeq(segs, 1, 0) = <<>>
  BY <1>1
<1> QED
  BY <1>3, <1>4 DEF n

\* Selector highlights a candidate of the last segment.
LEMMA HighlightedSegment ==
  ASSUME AtRest, NEW index \in Nat, MoveHighlight(index)
  PROVE  LET seg  == [ Last(composition) EXCEPT !.selected_index = HighlightIndex(index) ]
             segs == SetBack(composition, seg)
         IN  /\ Chain(segs) /\ segs # <<>> /\ Last(segs) = seg /\ Fine(seg)
             /\ seg.start = Last(composition).start /\ seg.end = Last(composition).end
             /\ Behind(composition) => Behind(segs)
<1> DEFINE old  == Last(composition)
           n    == HighlightIndex(index)
           seg  == [ old EXCEPT !.selected_index = n ]
           segs == SetBack(composition, seg)
<1>1. /\ CompositionInv /\ Chain(composition) /\ composition # <<>> /\ old.menu # NoMenu
      /\ old.status < kSelected
  BY DEF AtRest, Ready, CompositionInv, Open, Unselected, MoveHighlight, Selecting
<1>2. old \in SegmentType /\ old.menu.ends \in Seq(Nat) /\ Proper(old)
  BY <1>1, ChainLast DEF Proper, SegmentType, Menu
<1>3. /\ n \in Nat
      /\ old.menu.ends = <<>> \/ n < Len(old.menu.ends)
  <2> DEFINE len == Len(old.menu.ends)
  <2>1. len \in Nat /\ (len = 0 => old.menu.ends = <<>>)
    BY <1>2
  <2>2. n = IF len = 0 THEN 0 ELSE IF index < len THEN index ELSE len - 1
    BY DEF HighlightIndex
  <2> HIDE DEF len, n
  <2>3. n \in Nat /\ (len = 0 \/ n < len)
    BY <2>1, <2>2
  <2> QED
    BY <2>1, <2>3 DEF len
<1> HIDE DEF n
<1>4. /\ seg \in SegmentType /\ seg.selected_index = n
      /\ \A field \in {"start", "end", "menu", "status", "tags"} : seg[field] = old[field]
  BY <1>2, <1>3 DEF SegmentType
<1> HIDE DEF old, seg
<1>5. Leaves(segs) /\ SameTail(segs)
  BY <1>1, <1>4, AdjustedLeaves DEF old
<1>6. Proper(seg) /\ Fine(seg)
  BY <1>2, <1>3, <1>4 DEF Proper, Fine, HasSelectedCandidate
<1>7. Chain(segs) /\ segs # <<>> /\ Last(segs) = seg
  BY <1>1, <1>4, <1>6, SetBackChain DEF old
<1>8. Behind(composition) => Behind(segs)
  BY <1>1, <1>4, <1>5, <1>7 DEF SameTail
<1> QED
  BY <1>4, <1>6, <1>7, <1>8 DEF old, seg, n

\* The key of Selector is composed with the segment in its place, or with the segment
\* that is to take its place still to come.
LEMMA HighlightTail ==
  ASSUME AtRest, RestTail, NEW index \in Nat, MoveHighlight(index)
  PROVE  PagingInv'
<1> DEFINE seg  == [ Last(composition) EXCEPT !.selected_index = HighlightIndex(index) ]
           segs == SetBack(composition, seg)
           active_input == SubSeq(input, 1, caret_pos)
           active == Reset(segs, comp_input, active_input)
<1>1. /\ CompositionInv /\ TextInv /\ composition # <<>> /\ Last(composition).menu # NoMenu
      /\ AtEnd /\ ~IsRaw(composition)
  BY DEF AtRest, Ready, ProgressInv, MoveHighlight, Selecting, AtEnd, Idle, IsRaw
<1>2. /\ Chain(segs) /\ segs # <<>> /\ Last(segs) = seg /\ Fine(seg)
      /\ seg.start = Last(composition).start /\ seg.end = Last(composition).end
      /\ Behind(composition) => Behind(segs)
  BY HighlightedSegment
<1>3. /\ DiffPos(comp_input, active_input) = caret_pos
      /\ DiffPos(active_input, input) >= caret_pos
      /\ DiffPos(active_input, input) \in Nat /\ caret_pos \in Nat
  BY <1>1, ActiveDiffPos
<1>4. /\ pc' = "rounds" /\ caret_pos' = caret_pos
      /\ LET past_caret == caret_pos < Len(input) /\ caret_pos = GetConfirmedPosition(active)
         IN  /\ composition' = IF past_caret THEN Reset(active, active_input, input)
                                             ELSE active
             /\ comp_input' = IF past_caret THEN input ELSE active_input
  BY Zenon DEF MoveHighlight, Highlight, Compose
<1> HIDE DEF seg, segs, active_input
<1>5. /\ IsEmptySegment(Last(composition)) => Behind(composition)
      /\ GetCurrentEndPosition(composition) > caret_pos => AtCaret(composition)
  BY <1>1 DEF RestTail
<1>6. ASSUME Chain(active), GetCurrentEndPosition(active) <= caret_pos
      PROVE  composition' = active
  <2>1. GetCurrentEndPosition(active) <= DiffPos(active_input, input)
    BY <1>3, <1>6, EndPosition
  <2>2. Reset(active, active_input, input) = active
    BY <1>3, <1>6, <2>1, ResetSame
  <2> QED
    BY <1>4, <2>2
<1>7. ASSUME TailFine(composition') PROVE PagingInv'
  BY <1>4, <1>7 DEF PagingInv, TailFine, Fine, HasSelectedCandidate, IsEmptySegment, Behind
<1>8. CASE seg.end <= caret_pos
  <2>1. active = segs
    BY <1>2, <1>3, <1>8, ResetSame DEF GetCurrentEndPosition
  <2>2. composition' = segs
    BY <1>2, <1>6, <1>8, <2>1 DEF GetCurrentEndPosition
  <2>3. TailFine(segs)
    BY <1>2, <1>5 DEF TailFine, IsEmptySegment, Behind
  <2> QED
    BY <1>7, <2>2, <2>3
<1>9. CASE seg.end > caret_pos
  <2>1. /\ seg.start = caret_pos /\ (caret_pos = 0 \/ Behind(segs))
        /\ Awaited
    BY <1>1, <1>2, <1>5, <1>9
       DEF AtCaret, BeginsAt, GetCurrentStartPosition, GetCurrentEndPosition
  <2>2. active = Forward(SubSeq(segs, 1, Len(segs) - 1))
    <3>1. Last(segs).start <= caret_pos
      BY <1>2, <1>3, <2>1
    <3> QED
      BY <1>2, <1>3, <1>9, <3>1, ResetLast
  <2>3. CASE Behind(segs)
    <3>1. Chain(active) /\ TailFine(active)
          /\ GetCurrentEndPosition(active) = GetCurrentStartPosition(segs)
      BY <1>2, <2>2, <2>3, DroppedTail
    <3>2. GetCurrentEndPosition(active) <= caret_pos
      BY <1>2, <1>3, <2>1, <3>1 DEF GetCurrentStartPosition
    <3> QED
      BY <1>6, <1>7, <3>1, <3>2
  <2>4. CASE caret_pos = 0
    <3>1. active = <<>>
      BY <1>2, <2>1, <2>2, <2>4, FirstSegment DEF Forward
    <3>2. GetConfirmedPosition(<<>>) = 0 /\ Chain(<<>>) /\ GetCurrentEndPosition(<<>>) = 0
      BY DEF GetConfirmedPosition, Chain, GetCurrentEndPosition
    <3>3. /\ comp_input # <<>> /\ input # <<>> /\ Len(input) > 0
          /\ comp_input[1] = input[1]
      <4>1. /\ seg.end <= Len(comp_input) /\ seg.end \in Nat
        BY <1>1, <1>2, ChainLast, EndPosition DEF CompositionInv, GetCurrentEndPosition
      <4> DEFINE m == Len(comp_input)
      <4>2. /\ m \in Nat /\ Len(input) \in Nat /\ m > 0 /\ m <= Len(input)
            /\ input \in Seq(Chars) /\ comp_input = SubSeq(input, 1, m)
            /\ comp_input \in Seq(Chars)
        BY <1>1, <1>9, <2>4, <4>1 DEF CompositionInv, TextInv
      <4>3. comp_input # <<>>
        BY <4>2
      <4> HIDE DEF m
      <4>4. Len(input) > 0 /\ 1 \in 1 .. m
        BY <4>2
      <4>5. SubSeq(input, 1, m)[1] = input[1]
        BY <4>2, <4>4
      <4> QED
        BY <4>2, <4>3, <4>4, <4>5
    <3>4. composition' = <<>> /\ comp_input' = input
      <4>1. composition' = active
        BY <1>6, <2>4, <3>1, <3>2
      <4>2. caret_pos < Len(input) /\ caret_pos = GetConfirmedPosition(active)
        BY <2>4, <3>1, <3>2, <3>3
      <4> QED
        BY <1>4, <3>1, <4>1, <4>2
    <3>5. Awaited'
      BY <1>4, <2>1, <2>4, <3>3, <3>4 DEF Awaited
    <3>6. Coming'
      BY <1>4, <2>4, <3>3, <3>4, <3>5 DEF Coming
    <3> QED
      BY <1>4, <3>6 DEF PagingInv
  <2> QED
    BY <2>1, <2>3, <2>4
<1> QED
  <2>1. seg.end \in Nat
    BY <1>2, ChainLast
  <2> QED
    BY <1>3, <1>8, <1>9, <2>1

LEMMA CallsPaging ==
  ASSUME AtRest, RestTail, Resume \/ Key \/ API
  PROVE  PagingInv'
<1>1. ASSUME then' # "paging" PROVE PagingInv'
  BY <1>1 DEF PagingInv
<1>2. ASSUME NEW index \in 0 .. MaxCandidates - 1, MoveHighlight(index) PROVE PagingInv'
  <2>1. index \in Nat
    BY BoundAssumption
  <2> QED
    BY <1>2, <2>1, HighlightTail
<1>3. CASE Resume \/ API
  <2>1. then' = "return"
    BY <1>3, ResumeThen, APIThen
  <2> QED
    BY <1>1, <2>1
<1> QED
  BY <1>1, <1>2, <1>3, KeyThen

-----------------------------------------------------------------------------
LEMMA InitTail == Init => TailInv
BY DEF Init, TailInv, RoundTail, RestTail, PagingInv

LEMMA NextTail ==
  IInv /\ ProgressInv /\ Open(composition) /\ TailInv /\ [Next]_vars => TailInv'
<1> SUFFICES ASSUME IInv, ProgressInv, Open(composition), TailInv, [Next]_vars
             PROVE  TailInv'
  OBVIOUS
<1>1. CompositionInv /\ CompositionInv' /\ Working
  BY NextIInv DEF IInv, Working
<1>2. CASE Engine
  BY <1>1, <1>2, EngineTail
<1>3. CASE Resume \/ Key \/ API
  <2>1. AtRest
    BY <1>1, <1>3, CallsAtRest DEF AtRest, Ready
  <2>2. Calls
    BY <1>3, <2>1, ResumeStands, KeyStands, APIStands
  <2>3. RoundTail' /\ RestTail'
    BY <1>1, <2>1, <2>2, CallsTail DEF TailInv
  <2>4. PagingInv'
    BY <1>3, <2>1, CallsPaging DEF TailInv
  <2> QED
    BY <2>3, <2>4 DEF TailInv
<1>4. CASE UNCHANGED vars
  <2>1. RoundTail' /\ RestTail'
    BY <1>4 DEF vars, TailInv, RoundTail, RestTail, AtEnd, Translating, AtCaret, BeginsAt,
       Behind, IsRaw, Awaited, IsEmptySegment, GetCurrentStartPosition, GetCurrentEndPosition
  <2>2. PagingInv'
    BY <1>4 DEF vars, TailInv, PagingInv, TailFine, Coming, Awaited, Fine,
       HasSelectedCandidate, IsEmptySegment, Behind
  <2> QED
    BY <2>1, <2>2 DEF TailInv
<1> QED
  BY <1>2, <1>3, <1>4 DEF Next

LEMMA TailFindsSegment == TailInv => PagingFindsSegment
BY DEF TailInv, PagingInv, PagingFindsSegment, Fine

\* When a key of Selector has highlighted a candidate and the engine has composed,
\* comp.back() (selector.cc) exists and is a segment with a menu, in which a candidate
\* is highlighted if there is any: whatever the schema, its segmentors and the place
\* of the caret, the rounds of the engine (engine.cc) leave the segment that the user
\* looks at, or make another in its place.
THEOREM HighlightedSegmentIsBack == Spec => []PagingFindsSegment
<1> DEFINE Inv == IInv /\ ProgressInv /\ Open(composition) /\ TailInv
<1>1. Init => Inv
  BY InitIInv, InitProgress, InitOpen, InitTail
<1>2. Inv /\ [Next]_vars => Inv'
  BY NextIInv, NextProgress, NextOpen, NextTail
<1>3. Inv => PagingFindsSegment
  BY TailFindsSegment
<1> HIDE DEF Inv
<1> QED
  BY <1>1, <1>2, <1>3, PTL DEF Spec
=============================================================================
