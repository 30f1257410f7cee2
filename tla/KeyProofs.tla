------------------------------ MODULE KeyProofs ------------------------------
(***************************************************************************)
(* For any schema and any keys: the calls of the engine for keys that are  *)
(* fed to it are not nested without end, what is kept for a composition    *)
(* goes with it, and no chord outlives its keys.                           *)
(***************************************************************************)
EXTENDS KeyDispatch, SequenceTheorems, TLAPS

ContextType ==
  [ input : Seq(STRING), phony : BOOLEAN, selected : BOOLEAN, paging : BOOLEAN,
    ascii_mode : BOOLEAN, temporary : BOOLEAN, chording : BOOLEAN, raw : Seq(STRING),
    editing : BOOLEAN, sending : BOOLEAN ]

\* The placeholder is there for want of an input, ChordComposer knows of an input,
\* and AsciiComposer listens to updates during a composition only.
Sound(c) ==
  /\ c \in ContextType
  /\ c.phony => c.input = <<>>
  /\ c.selected => c.phony
  /\ c.input # <<>> => c.chording
  /\ c.temporary => IsComposing(c)

\* ChordComposer edits the input between two calls only while it sends a chord.
Calm(c) == c.editing => c.sending

\* What an edit of the context leaves alone.
Kept(c, d) == d.sending = c.sending /\ d.editing = c.editing

\* What is left of the typed characters when the input becomes empty.
RawGoes(c, d) == c.input # <<>> /\ d.input = <<>> => d.raw = <<>>

Follows(c, d) == Sound(d) /\ Kept(c, d) /\ RawGoes(c, d) /\ (d.ascii_mode => c.ascii_mode)

-----------------------------------------------------------------------------
(* The operations on a context                                             *)

LEMMA TrackFacts ==
  ASSUME NEW c \in ContextType
  PROVE  LET d == TrackComposition(c)
         IN  /\ d \in ContextType /\ Kept(c, d)
             /\ d.input = c.input /\ d.phony = c.phony /\ d.selected = c.selected /\ d.raw \in {c.raw, <<>>}
             /\ d.ascii_mode = c.ascii_mode /\ d.temporary = c.temporary
             /\ IsComposing(c) => d.chording
             /\ ~IsComposing(c) /\ c.chording /\ Calm(c) => d.raw = <<>>
BY DEF TrackComposition, ContextType, Kept, Calm, IsComposing

LEMMA UpdateFacts ==
  ASSUME NEW c \in ContextType, c.phony => c.input = <<>>, c.selected => c.phony
  PROVE  LET d == Update(c)
         IN  /\ Sound(d) /\ Kept(c, d)
             /\ d.input = c.input /\ d.phony = c.phony /\ d.selected = c.selected /\ d.raw \in {c.raw, <<>>}
             /\ d.ascii_mode => c.ascii_mode
             /\ ~IsComposing(c) /\ c.chording /\ Calm(c) => d.raw = <<>>
<1> DEFINE t == TrackComposition(c)
<1>1. /\ t \in ContextType /\ Kept(c, t)
      /\ t.input = c.input /\ t.phony = c.phony /\ t.selected = c.selected /\ t.raw \in {c.raw, <<>>}
      /\ t.ascii_mode = c.ascii_mode /\ t.temporary = c.temporary
      /\ IsComposing(c) => t.chording
      /\ ~IsComposing(c) /\ c.chording /\ Calm(c) => t.raw = <<>>
  BY TrackFacts
<1>2. Update(c) = LeaveTemporaryAscii(t)
  BY DEF Update
<1> HIDE DEF t
<1> DEFINE d == LeaveTemporaryAscii(t)
<1>3. /\ d \in ContextType /\ Kept(t, d)
      /\ d.input = t.input /\ d.phony = t.phony /\ d.selected = t.selected /\ d.raw = t.raw
      /\ d.chording = t.chording
      /\ d.ascii_mode => t.ascii_mode
      /\ d.temporary => IsComposing(t)
  BY <1>1 DEF LeaveTemporaryAscii, ContextType, Kept, IsComposing
<1>4. IsComposing(t) <=> IsComposing(c)
  BY <1>1 DEF IsComposing
<1>5. IsComposing(d) <=> IsComposing(t)
  BY <1>3 DEF IsComposing
<1>6. d.input # <<>> => d.chording
  BY <1>1, <1>3, <1>4 DEF IsComposing
<1> HIDE DEF d
<1>7. Sound(d)
  BY <1>1, <1>3, <1>5, <1>6 DEF Sound
<1>8. Kept(c, d)
  BY <1>1, <1>3 DEF Kept
<1> QED
  BY <1>1, <1>2, <1>3, <1>7, <1>8 DEF d

LEMMA WithInputFacts ==
  ASSUME NEW c \in ContextType, NEW text \in Seq(STRING), c.input # <<>> => c.chording, Calm(c)
  PROVE  Follows(c, WithInput(c, text)) /\ WithInput(c, text).input = text
<1> DEFINE e == [ c EXCEPT !.input = text, !.phony = FALSE, !.selected = FALSE,
                             !.paging = FALSE ]
<1>1. /\ e \in ContextType /\ Kept(c, e) /\ e.input = text /\ ~e.phony /\ ~e.selected
      /\ e.ascii_mode = c.ascii_mode /\ e.chording = c.chording /\ Calm(e)
  BY DEF ContextType, Kept, Calm
<1>2. WithInput(c, text) = Update(e)
  BY DEF WithInput
<1> HIDE DEF e
<1> QED
  BY <1>1, <1>2, UpdateFacts DEF Follows, Kept, RawGoes, IsComposing

\* What holds of a context between two calls, and is asked by most operations.
Ready(c) == Sound(c) /\ Calm(c)

LEMMA ClearFacts ==
  ASSUME NEW c, Ready(c)
  PROVE  Follows(c, Clear(c)) /\ Clear(c).input = <<>>
<1>1. c \in ContextType /\ (c.input # <<>> => c.chording) /\ Calm(c)
  BY DEF Ready, Sound
<1> DEFINE nothing == <<>>
<1>2. nothing \in Seq(STRING)
  OBVIOUS
<1> HIDE DEF nothing
<1>3. Follows(c, WithInput(c, nothing)) /\ WithInput(c, nothing).input = nothing
  BY <1>1, <1>2, WithInputFacts
<1> QED
  BY <1>3 DEF Clear, nothing

LEMMA PushInputFacts ==
  ASSUME NEW c, Ready(c), NEW ch \in STRING
  PROVE  Follows(c, PushInput(c, ch))
<1>1. Append(c.input, ch) \in Seq(STRING)
  BY DEF Ready, Sound, ContextType
<1>2. c \in ContextType /\ (c.input # <<>> => c.chording) /\ Calm(c)
  BY DEF Ready, Sound
<1>3. Follows(c, WithInput(c, Append(c.input, ch)))
  BY <1>1, <1>2, WithInputFacts
<1> QED
  BY <1>3 DEF PushInput

LEMMA CommitCompositionFacts ==
  ASSUME NEW c, Ready(c)
  PROVE  Follows(c, CommitComposition(c))
BY ClearFacts DEF CommitComposition, Ready, Follows, Kept, RawGoes

LEMMA ConfirmFacts ==
  ASSUME NEW c, Ready(c), NEW d \in ConfirmCurrentSelection(c)
  PROVE  Follows(c, d)
<1>1. CASE d = Clear(c)
  BY <1>1, ClearFacts
<1>2. CASE d = c
  BY <1>2 DEF Ready, Follows, Kept, RawGoes
<1>3. CASE d = [ c EXCEPT !.selected = c.phony ]
  <2>1. /\ d \in ContextType /\ Kept(c, d) /\ d.input = c.input /\ d.phony = c.phony
        /\ d.raw = c.raw /\ d.ascii_mode = c.ascii_mode /\ d.temporary = c.temporary
        /\ d.chording = c.chording
    BY <1>3 DEF Ready, Sound, ContextType, Kept
  <2>2. IsComposing(d) <=> IsComposing(c)
    BY <2>1 DEF IsComposing
  <2>3. Sound(d)
    BY <1>3, <2>1, <2>2 DEF Ready, Sound
  <2> QED
    BY <2>1, <2>3 DEF Follows, RawGoes
<1> QED
  BY <1>1, <1>2, <1>3 DEF ConfirmCurrentSelection

LEMMA RefreshFacts ==
  ASSUME NEW c, Sound(c)
  PROVE  LET d == Refresh(c)
         IN  /\ Sound(d) /\ Kept(c, d)
             /\ d.input = c.input /\ d.raw \in {c.raw, <<>>}
             /\ d.ascii_mode => c.ascii_mode
<1> DEFINE e == [ c EXCEPT !.phony = FALSE, !.paging = FALSE ]
<1>1. /\ e \in ContextType /\ Kept(c, e) /\ e.input = c.input /\ ~e.phony
      /\ e.raw = c.raw /\ e.ascii_mode = c.ascii_mode /\ e.selected = c.selected
  BY DEF Sound, ContextType, Kept
<1>2. Refresh(c) = IF IsComposing(c) /\ ~c.selected THEN Update(e) ELSE c
  BY DEF Refresh
<1> HIDE DEF e
<1> QED
  BY <1>1, <1>2, UpdateFacts DEF Sound, Kept

\* A switched mode is all that a context need not have had before.
Switched(c, d) == Sound(d) /\ Kept(c, d) /\ RawGoes(c, d)

LEMMA SetAsciiModeFacts ==
  ASSUME NEW c, NEW d, NEW mode \in BOOLEAN, Ready(c), Sound(d), Kept(c, d), RawGoes(c, d)
  PROVE  Switched(c, SetAsciiMode(d, mode))
<1> DEFINE e == [ d EXCEPT !.ascii_mode = mode ]
<1>1. Sound(e) /\ Kept(c, e) /\ e.input = d.input /\ e.raw = d.raw
  BY DEF Sound, ContextType, Kept, IsComposing
<1>2. SetAsciiMode(d, mode) = Refresh(e)
  BY DEF SetAsciiMode
<1> HIDE DEF e
<1> QED
  BY <1>1, <1>2, RefreshFacts DEF Switched, Kept, RawGoes

LEMMA SwitchFacts ==
  ASSUME NEW c, Ready(c), NEW mode \in BOOLEAN, NEW style,
         NEW d \in SwitchAsciiMode(c, mode, style)
  PROVE  Switched(c, d)
<1> DEFINE off == [ c EXCEPT !.temporary = FALSE ]
           bare == [ off EXCEPT !.phony = c.selected ]
<1>1. /\ Ready(off) /\ Kept(c, off) /\ off.input = c.input /\ off.raw = c.raw
      /\ Ready(bare) /\ Kept(c, bare) /\ bare.input = c.input /\ bare.raw = c.raw
  BY DEF Ready, Sound, Calm, ContextType, Kept, IsComposing
<1>2. /\ RawGoes(c, c) /\ Kept(c, c)
      /\ Ready(c) => Sound(c)
  BY DEF RawGoes, Kept, Ready
<1>3. \A f \in ConfirmCurrentSelection(off) : Sound(f) /\ Kept(c, f) /\ RawGoes(c, f)
  BY <1>1, ConfirmFacts DEF Follows, Kept, RawGoes
<1>4. LET f == CommitComposition(bare) IN Sound(f) /\ Kept(c, f) /\ RawGoes(c, f)
  BY <1>1, CommitCompositionFacts DEF Follows, Kept, RawGoes
<1>5. LET f == Clear(off) IN Sound(f) /\ Kept(c, f) /\ RawGoes(c, f)
  BY <1>1, ClearFacts DEF Follows, Kept, RawGoes
<1>6. IsComposing(c) =>
        LET f == [ off EXCEPT !.temporary = mode ] IN Sound(f) /\ Kept(c, f) /\ RawGoes(c, f)
  BY DEF Ready, Sound, ContextType, Kept, RawGoes, IsComposing
<1> DEFINE before == IF ~IsComposing(c) THEN {c}
                ELSE CASE style = "inline_ascii" -> { [ off EXCEPT !.temporary = mode ] }
                       [] style = "commit_text"  -> ConfirmCurrentSelection(off)
                       [] style = "commit_code"  -> { CommitComposition(bare) }
                       [] OTHER                  -> { Clear(off) }
<1>7. PICK f \in before : d = SetAsciiMode(f, mode)
  BY DEF SwitchAsciiMode
<1> HIDE DEF off, bare
<1>8. Sound(f) /\ Kept(c, f) /\ RawGoes(c, f)
  BY <1>2, <1>3, <1>4, <1>5, <1>6
<1> QED
  BY <1>7, <1>8, SetAsciiModeFacts

-----------------------------------------------------------------------------
(* The invariant                                                           *)

Frames ==
  [ key : KeyEvents, at : Nat, by : {"none", "chord_composer", "key_binder"},
    feed : Seq(KeyEvents) ]

KeysTypeInv ==
  /\ calls \in Seq(Frames)
  /\ pressed \subseteq ChordKeys /\ recognized \subseteq ChordKeys
  /\ held \subseteq STRING /\ caps \in BOOLEAN
  /\ redirecting \in BOOLEAN /\ interrupted \in BOOLEAN

\* The flags of the two processors say that they are feeding keys, and every call
\* but the last one is there for the keys that it feeds.
FeedInv ==
  /\ FeedsAreNotNested
  /\ context.sending <=> \E i \in DOMAIN calls : calls[i].by = "chord_composer"
  /\ redirecting <=> \E i \in DOMAIN calls : calls[i].by = "key_binder"
  /\ \A i \in DOMAIN calls :
       i < Len(calls) \/ calls[i].feed # <<>> => calls[i].by # "none"

\* The key that has been released when ChordComposer has yet to know.
ChordComposerFrom(n) == \E i \in DOMAIN Processors : i >= n /\ Processors[i] = "chord_composer"
Released ==
  { k \in ChordKeys : /\ calls # <<>>
                      /\ calls[1].key.release /\ calls[1].key.code = k
                      /\ calls[1].by = "none" /\ ChordComposerFrom(calls[1].at) }

HeldInv ==
  /\ pressed # {} => ChordComposerFrom(1)
  /\ context.ascii_mode /\ pressed # {} => interrupted
  /\ ~interrupted => pressed \subseteq held \cup Released
  /\ calls # <<>> /\ ~calls[1].key.release => calls[1].key.code \in held

KeysInv == Ready(context) /\ KeysTypeInv /\ FeedInv /\ HeldInv

-----------------------------------------------------------------------------
(* The calls                                                               *)

LEMMA TopFacts ==
  ASSUME KeysTypeInv, calls # <<>>
  PROVE  /\ Len(calls) \in Nat \ {0} /\ DOMAIN calls = 1 .. Len(calls)
         /\ Top \in Frames /\ Top.key \in KeyEvents
         /\ Top.key.code \in STRING /\ Top.key.release \in BOOLEAN /\ Top.at \in Nat
         /\ Len(calls) > 1 \/ Top = calls[1]
<1>1. /\ Len(calls) \in Nat \ {0} /\ DOMAIN calls = 1 .. Len(calls)
      /\ \A i \in 1 .. Len(calls) : calls[i] \in Frames
  BY DEF KeysTypeInv
<1>2. Top \in Frames
  BY <1>1 DEF Top
<1> QED
  BY <1>1, <1>2 DEF Top, Frames, KeyEvents

\* Going on, or returning.
Proceeds == Noop \/ Rejected \/ Accepted

LEMMA ProceedsFacts ==
  ASSUME KeysTypeInv, calls # <<>>, Proceeds
  PROVE  /\ calls' \in Seq(Frames)
         /\ Len(calls') \in { Len(calls), Len(calls) - 1 }
         /\ \A i \in DOMAIN calls' : /\ i \in DOMAIN calls
                                     /\ calls'[i].by = calls[i].by
                                     /\ calls'[i].key = calls[i].key
                                     /\ calls'[i].feed = calls[i].feed
                                     /\ i < Len(calls) => calls'[i] = calls[i]
         /\ \A i \in DOMAIN calls : i < Len(calls) => i \in DOMAIN calls'
         /\ Noop => Len(calls') = Len(calls) /\ calls'[Len(calls)].at = Top.at + 1
<1>1. /\ Len(calls) \in Nat \ {0} /\ DOMAIN calls = 1 .. Len(calls)
      /\ calls \in Seq(Frames) /\ Top \in Frames /\ Top.at \in Nat /\ Top = calls[Len(calls)]
  BY TopFacts DEF KeysTypeInv, Top
<1> DEFINE n == Len(calls)
<1>2. ASSUME NEW at \in Nat, calls' = [ calls EXCEPT ![n].at = at ]
      PROVE  /\ calls' \in Seq(Frames) /\ Len(calls') = n /\ calls'[n].at = at
             /\ \A i \in 1 .. n : /\ calls'[i].by = calls[i].by /\ calls'[i].key = calls[i].key
                                  /\ calls'[i].feed = calls[i].feed
                                  /\ i < n => calls'[i] = calls[i]
  <2> DEFINE f == [ calls[n] EXCEPT !.at = at ]
  <2>1. /\ f \in Frames /\ f.at = at /\ f.by = calls[n].by /\ f.key = calls[n].key
        /\ f.feed = calls[n].feed
    BY <1>1 DEF Frames
  <2>2. calls' = [ calls EXCEPT ![n] = f ]
    BY <1>2
  <2> HIDE DEF f
  <2> QED
    BY <1>1, <2>1, <2>2
<1>3. CASE Noop
  <2>1. calls' = [ calls EXCEPT ![n].at = Top.at + 1 ] /\ Top.at + 1 \in Nat
    BY <1>1, <1>3 DEF Noop
  <2> QED
    BY <1>1, <1>2, <2>1
<1>4. CASE Rejected
  <2>1. calls' = [ calls EXCEPT ![n].at = Len(Processors) + 1 ] /\ Len(Processors) + 1 \in Nat
    BY <1>4, KeysAssumption DEF Rejected
  <2>2. Noop => Top.at + 1 \in Nat /\ calls' = [ calls EXCEPT ![n].at = Top.at + 1 ]
    BY <1>1 DEF Noop
  <2> QED
    BY <1>1, <1>2, <2>1, <2>2
<1>5. CASE Accepted
  <2>1. calls # <<>> /\ calls' = Front(calls)
    BY <1>5 DEF Accepted
  <2>2. /\ calls' \in Seq(Frames) /\ Len(calls') = n - 1
        /\ \A i \in 1 .. n - 1 : calls'[i] = calls[i]
    BY <1>1, <2>1, SubSeqProperties DEF Front
  <2>3. Noop => Len(calls') = n
    BY <1>1 DEF Noop
  <2>4. n \in Nat \ {0}
    BY <1>1
  <2> HIDE DEF n
  <2>5. DOMAIN calls' = 1 .. n - 1 /\ Len(calls') # n
    BY <2>2, <2>4
  <2>6. \A i \in 1 .. n - 1 : i \in 1 .. n /\ i < n
    BY <2>4
  <2>7. \A i \in 1 .. n : i < n => i \in 1 .. n - 1
    BY <2>4
  <2> QED
    BY <1>1, <2>2, <2>3, <2>5, <2>6, <2>7 DEF n
<1> QED
  BY <1>3, <1>4, <1>5 DEF Proceeds

\* The key of a call is not lost on its way to ChordComposer.
LEMMA ReleaseKept ==
  ASSUME KeysTypeInv, NEW p, Calling(p), p # "chord_composer", Proceeds,
         Noop \/ ~Top.key.release \/ Top.key.code \notin pressed
  PROVE  Released \cap pressed \subseteq Released'
<1> SUFFICES ASSUME NEW k \in Released \cap pressed
             PROVE  k \in Released'
  OBVIOUS
<1>1. /\ calls # <<>> /\ Top.by = "none" /\ Processors[Top.at] = p
      /\ k \in ChordKeys /\ calls[1].key.release /\ calls[1].key.code = k
      /\ calls[1].by = "none" /\ ChordComposerFrom(calls[1].at)
  BY DEF Calling, Released
<1>2. /\ Len(calls) \in Nat \ {0} /\ DOMAIN calls = 1 .. Len(calls) /\ Top.at \in Nat
      /\ Len(calls) > 1 \/ Top = calls[1]
  BY <1>1, TopFacts
<1>3. /\ calls' \in Seq(Frames)
      /\ \A i \in DOMAIN calls' : calls'[i].by = calls[i].by /\ calls'[i].key = calls[i].key
                                  /\ (i < Len(calls) => calls'[i] = calls[i])
      /\ \A i \in DOMAIN calls : i < Len(calls) => i \in DOMAIN calls'
      /\ Noop => Len(calls') = Len(calls) /\ calls'[Len(calls)].at = Top.at + 1
  BY <1>1, ProceedsFacts
<1>4. CASE Len(calls) > 1
  <2>1. 1 \in DOMAIN calls' /\ calls'[1] = calls[1]
    BY <1>2, <1>3, <1>4
  <2>2. calls' # <<>>
    BY <2>1, <1>3
  <2> QED
    BY <1>1, <2>1, <2>2 DEF Released, ChordComposerFrom
<1>5. CASE Len(calls) = 1
  <2>1. Top = calls[1] /\ Noop
    BY <1>1, <1>2, <1>5
  <2>2. /\ 1 \in DOMAIN calls' /\ calls' # <<>> /\ calls'[1].at = Top.at + 1
        /\ calls'[1].by = "none" /\ calls'[1].key = calls[1].key
    BY <1>1, <1>2, <1>3, <1>5, <2>1
  <2>3. PICK i \in DOMAIN Processors : i >= Top.at /\ Processors[i] = "chord_composer"
    BY <1>1, <2>1 DEF ChordComposerFrom
  <2>4. i >= Top.at + 1
    BY <1>1, <1>2, <2>3, KeysAssumption
  <2>5. ChordComposerFrom(calls'[1].at)
    BY <2>2, <2>3, <2>4 DEF ChordComposerFrom
  <2> QED
    BY <1>1, <2>2, <2>5 DEF Released, ChordComposerFrom
<1> QED
  BY <1>2, <1>4, <1>5

-----------------------------------------------------------------------------
(* The steps.  Most calls of processors pass the key on or take it, and    *)
(* leave the chord and the feeding of keys alone.                          *)

Passes ==
  /\ calls # <<>> /\ Top.by = "none" /\ Proceeds
  /\ Switched(context, context')
  /\ pressed # {} /\ context'.ascii_mode => context.ascii_mode \/ interrupted'
  /\ pressed # {} /\ ~interrupted' => ~interrupted /\ Released \cap pressed \subseteq Released'
  /\ interrupted' \in BOOLEAN
  /\ UNCHANGED <<pressed, redirecting, held, caps>>
  /\ recognized' \subseteq ChordKeys

\* The feeding of keys is what it was when a call without feed returns or goes on.
LEMMA FeedKept ==
  ASSUME KeysTypeInv, FeedInv, calls # <<>>, Top.by = "none", Proceeds,
         context'.sending = context.sending, redirecting' = redirecting
  PROVE  FeedInv'
<1>1. Len(calls) \in Nat \ {0} /\ DOMAIN calls = 1 .. Len(calls) /\ calls[Len(calls)].by = "none"
  BY TopFacts DEF Top
<1>2. /\ calls' \in Seq(Frames)
      /\ Len(calls') \in { Len(calls), Len(calls) - 1 }
      /\ \A i \in DOMAIN calls' : i \in DOMAIN calls /\ calls'[i].by = calls[i].by
                                  /\ calls'[i].feed = calls[i].feed
      /\ \A i \in DOMAIN calls : i < Len(calls) => i \in DOMAIN calls'
  BY ProceedsFacts
<1>3. \A i \in DOMAIN calls : calls[i].by # "none" => i \in DOMAIN calls'
  <2> SUFFICES ASSUME NEW i \in DOMAIN calls, calls[i].by # "none"
               PROVE  i < Len(calls)
    BY <1>2
  <2>1. i # Len(calls)
    BY <1>1
  <2> QED
    BY <1>1, <2>1
<1>4. FeedsAreNotNested'
  BY <1>2 DEF FeedInv, FeedsAreNotNested
<1>5. \A b \in {"chord_composer", "key_binder"} :
        (\E i \in DOMAIN calls' : calls'[i].by = b) <=> (\E i \in DOMAIN calls : calls[i].by = b)
  BY <1>2, <1>3
<1>6. \A i \in DOMAIN calls' :
        i < Len(calls') \/ calls'[i].feed # <<>> => calls'[i].by # "none"
  <2> SUFFICES ASSUME NEW i \in DOMAIN calls', i < Len(calls') \/ calls'[i].feed # <<>>
               PROVE  calls'[i].by # "none"
    OBVIOUS
  <2> DEFINE n == Len(calls)
             m == Len(calls')
  <2>1. n \in Nat \ {0} /\ m \in {n, n - 1} /\ i \in 1 .. n
    BY <1>1, <1>2
  <2> HIDE DEF n, m
  <2>2. i < m => i < n
    BY <2>1
  <2>3. i < Len(calls') => i < Len(calls)
    BY <2>2 DEF n, m
  <2> QED
    BY <1>2, <2>3 DEF FeedInv
<1> QED
  BY <1>4, <1>5, <1>6 DEF FeedInv

LEMMA PassesKeeps ==
  ASSUME KeysInv, Passes
  PROVE  KeysInv' /\ RawGoes(context, context')
<1>1. /\ calls # <<>> /\ Top.by = "none" /\ Proceeds
      /\ Sound(context') /\ Kept(context, context') /\ RawGoes(context, context')
      /\ UNCHANGED <<pressed, redirecting, held, caps>>
  BY DEF Passes, Switched
<1>2. Ready(context)'
  BY <1>1 DEF KeysInv, Ready, Calm, Kept
<1>3. /\ calls' \in Seq(Frames)
      /\ \A i \in DOMAIN calls' : i \in DOMAIN calls /\ calls'[i].key = calls[i].key
  BY <1>1, ProceedsFacts DEF KeysInv
<1>4. KeysTypeInv'
  BY <1>1, <1>3 DEF KeysInv, KeysTypeInv, Passes
<1>5. FeedInv'
  BY <1>1, FeedKept DEF KeysInv, Kept
<1>6. HeldInv'
  <2>1. calls' # <<>> => calls'[1].key = calls[1].key
    BY <1>3
  <2>2. pressed # {} /\ context'.ascii_mode => interrupted'
    BY DEF KeysInv, HeldInv, Passes
  <2>3. pressed # {} /\ ~interrupted' => pressed \subseteq held \cup Released'
    BY DEF KeysInv, HeldInv, Passes
  <2> QED
    BY <1>1, <2>1, <2>2, <2>3 DEF KeysInv, HeldInv, ChordComposerFrom
<1> QED
  BY <1>1, <1>2, <1>4, <1>5, <1>6 DEF KeysInv

\* A processor that edits the context and takes keys that go down only.
LEMMA EditPasses ==
  ASSUME KeysInv, NEW p, Calling(p), p # "chord_composer", Proceeds,
         Noop \/ ~Top.key.release \/ Top.key.code \notin pressed,
         Switched(context, context'), context'.ascii_mode => context.ascii_mode,
         UNCHANGED <<chordVars, redirecting, keyboardVars, interrupted>>
  PROVE  Passes
<1>1. Released \cap pressed \subseteq Released'
  BY ReleaseKept DEF KeysInv
<1> QED
  BY <1>1 DEF Passes, Calling, chordVars, keyboardVars, KeysInv, KeysTypeInv

LEMMA SameSwitched ==
  ASSUME NEW c, Ready(c)
  PROVE  Switched(c, c) /\ Follows(c, c)
BY DEF Ready, Switched, Follows, Kept, RawGoes

LEMMA FollowsSwitched ==
  ASSUME NEW c, NEW d, Follows(c, d)
  PROVE  Switched(c, d) /\ (d.ascii_mode => c.ascii_mode)
BY DEF Switched, Follows

LEMMA RecognizerPasses ==
  ASSUME KeysInv, Recognizer
  PROVE  Passes
<1>1. /\ Calling("recognizer") /\ Ready(context)
      /\ UNCHANGED <<chordVars, redirecting, keyboardVars, interrupted>>
  BY DEF Recognizer, KeysInv, binderVars
<1>2. Top.key.code \in STRING
  BY <1>1, TopFacts DEF KeysInv, Calling
<1>3. \/ Noop /\ context' = context
      \/ ~Top.key.release /\ context' = PushInput(context, Top.key.code) /\ Accepted
  BY DEF Recognizer
<1>4. Follows(context, context') /\ Proceeds /\ (Noop \/ ~Top.key.release)
  BY <1>1, <1>2, <1>3, PushInputFacts, SameSwitched DEF Proceeds
<1> QED
  BY <1>1, <1>4, EditPasses, FollowsSwitched

LEMMA SpellerPasses ==
  ASSUME KeysInv, Speller
  PROVE  Passes
<1>1. /\ Calling("speller") /\ Ready(context)
      /\ UNCHANGED <<chordVars, redirecting, keyboardVars, interrupted>>
  BY DEF Speller, KeysInv, binderVars
<1>2. Top.key.code \in STRING
  BY <1>1, TopFacts DEF KeysInv, Calling
<1>3. \/ Noop /\ context' = context
      \/ ~Top.key.release /\ context' = PushInput(context, Top.key.code) /\ Accepted
  BY DEF Speller
<1>4. Follows(context, context') /\ Proceeds /\ (Noop \/ ~Top.key.release)
  BY <1>1, <1>2, <1>3, PushInputFacts, SameSwitched DEF Proceeds
<1> QED
  BY <1>1, <1>4, EditPasses, FollowsSwitched

LEMMA SelectorPasses ==
  ASSUME KeysInv, Selector
  PROVE  Passes
<1>1. /\ Calling("selector") /\ Ready(context)
      /\ UNCHANGED <<chordVars, redirecting, keyboardVars, interrupted>>
  BY DEF Selector, KeysInv, binderVars
<1>2. \/ Noop /\ context' = context
      \/ Top.key = Key("Page_Down") /\ context' = [ context EXCEPT !.paging = TRUE ] /\ Accepted
  BY DEF Selector
<1>3. Top.key = Key("Page_Down") => ~Top.key.release
  BY DEF Key
<1>4. Follows(context, [ context EXCEPT !.paging = TRUE ])
  BY <1>1 DEF Ready, Sound, ContextType, IsComposing, Follows, Kept, RawGoes
<1>5. Follows(context, context') /\ Proceeds /\ (Noop \/ ~Top.key.release)
  BY <1>1, <1>2, <1>3, <1>4, SameSwitched DEF Proceeds
<1> QED
  BY <1>1, <1>5, EditPasses, FollowsSwitched

LEMMA EditorActsFacts ==
  ASSUME NEW c, Ready(c), NEW code, NEW d \in EditorActs(c, code)
  PROVE  Follows(c, d)
<1>1. c \in ContextType /\ (c.input # <<>> => c.chording) /\ Calm(c) /\ c.input \in Seq(STRING)
  BY DEF Ready, Sound, ContextType
<1>2. c.input # <<>> => Front(c.input) \in Seq(STRING)
  BY <1>1, SubSeqProperties DEF Front
<1>3. c.input # <<>> => Follows(c, WithInput(c, Front(c.input)))
  BY <1>1, <1>2, WithInputFacts
<1> QED
  BY <1>3, ClearFacts, CommitCompositionFacts, ConfirmFacts, SameSwitched DEF EditorActs

LEMMA ExpressEditorPasses ==
  ASSUME KeysInv, ExpressEditor
  PROVE  Passes
<1>1. /\ Calling("express_editor") /\ Ready(context)
      /\ UNCHANGED <<chordVars, redirecting, keyboardVars, interrupted>>
  BY DEF ExpressEditor, KeysInv, binderVars
<1>2. \/ Noop /\ context' = context
      \/ /\ Top.key = Key(Top.key.code) /\ context' \in EditorActs(context, Top.key.code)
         /\ Accepted
      \/ ~Top.key.release /\ context' = CommitComposition(context) /\ Rejected
  BY DEF ExpressEditor
<1>3. Top.key = Key(Top.key.code) => ~Top.key.release
  BY DEF Key
<1>4. Follows(context, context') /\ Proceeds /\ (Noop \/ ~Top.key.release)
  BY <1>1, <1>2, <1>3, EditorActsFacts, CommitCompositionFacts, SameSwitched DEF Proceeds
<1> QED
  BY <1>1, <1>4, EditPasses, FollowsSwitched

\* A mode that is switched while a chord is held is noted.
LEMMA NoteSwitchPasses ==
  ASSUME KeysInv, calls # <<>>, Top.by = "none", Proceeds,
         Switched(context, context'), NoteSwitch, recognized' = recognized,
         Released \cap pressed \subseteq Released',
         UNCHANGED <<pressed, redirecting, held, caps>>
  PROVE  Passes
<1>1. interrupted' = (interrupted \/ (pressed # {} /\ context'.ascii_mode # context.ascii_mode))
  BY DEF NoteSwitch
<1>2. interrupted' \in BOOLEAN
  BY <1>1
<1>3. pressed # {} /\ context'.ascii_mode => context.ascii_mode \/ interrupted'
  BY <1>1
<1>4. ~interrupted' => ~interrupted
  BY <1>1
<1> QED
  BY <1>2, <1>3, <1>4 DEF Passes, KeysInv, KeysTypeInv

LEMMA ToggleFacts ==
  ASSUME KeysInv, NEW code, ToggleAsciiModeWithKey(code)
  PROVE  /\ Switched(context, context')
         /\ NoteSwitch \/ (context' = context /\ interrupted' = interrupted)
<1>1. Ready(context) /\ context.ascii_mode \in BOOLEAN
  BY DEF KeysInv, Ready, Sound, ContextType
<1> DEFINE style == SwitchKey[code]
           mode  == CASE style = "set_ascii_mode"   -> TRUE
                      [] style = "unset_ascii_mode" -> FALSE
                      [] OTHER                      -> ~context.ascii_mode
<1>2. mode \in BOOLEAN
  OBVIOUS
<1>3. \/ UNCHANGED <<context, interrupted>>
      \/ context' \in SwitchAsciiMode(context, mode, style) /\ NoteSwitch
  BY DEF ToggleAsciiModeWithKey
<1> HIDE DEF mode, style
<1>4. context' \in SwitchAsciiMode(context, mode, style) => Switched(context, context')
  BY <1>1, <1>2, SwitchFacts
<1> QED
  BY <1>1, <1>3, <1>4, SameSwitched

\* What AsciiComposer does to the context, the chord and the call.
AsciiOutcome ==
  /\ Proceeds
  /\ Switched(context, context')
  /\ \/ NoteSwitch
     \/ /\ context'.ascii_mode => context.ascii_mode
        /\ interrupted' = (interrupted \/ (Top.key.release /\ Top.key.code \in pressed))
     \/ /\ context'.ascii_mode => context.ascii_mode
        /\ interrupted' = interrupted
  /\ \/ Noop \/ ~Top.key.release \/ Top.key.code \notin pressed
     \/ pressed # {} => interrupted'

LEMMA CapsLockOutcome ==
  ASSUME KeysInv, calls # <<>>, NEW key, key = Top.key, ProcessCapsLock(key)
  PROVE  AsciiOutcome
<1>1. Ready(context) /\ pressed \subseteq ChordKeys
  BY DEF KeysInv, KeysTypeInv
<1>2. "Caps_Lock" \notin pressed
  BY <1>1, ChordsAssumption
<1>3. CASE key.code = "Caps_Lock" /\ UNCHANGED <<context, interrupted>> /\ Rejected
  BY <1>1, <1>2, <1>3, SameSwitched DEF AsciiOutcome, Proceeds
<1>4. CASE /\ key.code = "Caps_Lock"
           /\ context' \in SwitchAsciiMode(context, "caps" \notin key.mods, CapsStyle)
           /\ NoteSwitch
           /\ Rejected \/ Accepted
  <2>1. ("caps" \notin key.mods) \in BOOLEAN
    OBVIOUS
  <2>2. Switched(context, context')
    BY <1>1, <1>4, <2>1, SwitchFacts
  <2> QED
    BY <1>2, <1>4, <2>2 DEF AsciiOutcome, Proceeds
<1>5. CASE /\ key.code # "Caps_Lock" /\ context' = context
           /\ Rejected \/ Accepted
           /\ interrupted' = (interrupted \/ (key.release /\ key.code \in pressed))
  BY <1>1, <1>5, SameSwitched DEF AsciiOutcome, Proceeds
<1> QED
  BY <1>3, <1>4, <1>5 DEF ProcessCapsLock

LEMMA AsciiComposerOutcome ==
  ASSUME KeysInv, AsciiComposer
  PROVE  AsciiOutcome
<1> DEFINE key == Top.key
<1>1. /\ calls # <<>> /\ Ready(context) /\ pressed \subseteq ChordKeys /\ key.code \in STRING
      /\ interrupted \in BOOLEAN
      /\ context.ascii_mode /\ pressed # {} => interrupted
  BY TopFacts DEF AsciiComposer, Calling, KeysInv, KeysTypeInv, HeldInv
<1>2. CASE Noop /\ UNCHANGED <<context, interrupted>>
  BY <1>1, <1>2, SameSwitched DEF AsciiOutcome, Proceeds
<1>3. CASE ProcessCapsLock(key)
  BY <1>1, <1>3, CapsLockOutcome
<1>4. CASE key.code = "Eisu_toggle" /\ Rejected /\ UNCHANGED <<context, interrupted>>
  <2>1. key.code \notin pressed
    BY <1>1, <1>4, ChordsAssumption
  <2> QED
    BY <1>1, <1>4, <2>1, SameSwitched DEF AsciiOutcome, Proceeds
<1>5. CASE ~key.release /\ ToggleAsciiModeWithKey(key.code) /\ Accepted
  BY <1>1, <1>5, ToggleFacts, SameSwitched DEF AsciiOutcome, Proceeds
<1>6. CASE ToggleAsciiModeWithKey(key.code) /\ Noop
  BY <1>1, <1>6, ToggleFacts, SameSwitched DEF AsciiOutcome, Proceeds
<1>7. CASE context.ascii_mode /\ Rejected /\ UNCHANGED <<context, interrupted>>
  BY <1>1, <1>7, SameSwitched DEF AsciiOutcome, Proceeds
<1>8. CASE ~key.release /\ context' = PushInput(context, key.code) /\ Accepted /\ UNCHANGED interrupted
  <2>1. Switched(context, context') /\ (context'.ascii_mode => context.ascii_mode)
    BY <1>1, <1>8, PushInputFacts, FollowsSwitched
  <2> QED
    BY <1>8, <2>1 DEF AsciiOutcome, Proceeds
<1>9. \/ Noop /\ UNCHANGED <<context, interrupted>>
      \/ ProcessCapsLock(key)
      \/ key.code = "Eisu_toggle" /\ Rejected /\ UNCHANGED <<context, interrupted>>
      \/ ~key.release /\ ToggleAsciiModeWithKey(key.code) /\ Accepted
      \/ ToggleAsciiModeWithKey(key.code) /\ Noop
      \/ context.ascii_mode /\ Rejected /\ UNCHANGED <<context, interrupted>>
      \/ ~key.release /\ context' = PushInput(context, key.code) /\ Accepted /\ UNCHANGED interrupted
  BY ZenonT(60) DEF AsciiComposer, ProcessModifier
<1> QED
  BY <1>2, <1>3, <1>4, <1>5, <1>6, <1>7, <1>8, <1>9

LEMMA AsciiComposerPasses ==
  ASSUME KeysInv, AsciiComposer
  PROVE  Passes
<1>1. /\ Calling("ascii_composer") /\ calls # <<>> /\ Top.by = "none" /\ KeysTypeInv
      /\ UNCHANGED <<chordVars, redirecting, keyboardVars>>
  BY DEF AsciiComposer, Calling, KeysInv, binderVars
<1>2. AsciiOutcome
  BY AsciiComposerOutcome
<1>3. CASE pressed # {} => interrupted'
  <2>1. interrupted' \in BOOLEAN
    BY <1>2 DEF AsciiOutcome, NoteSwitch, KeysInv, KeysTypeInv
  <2> QED
    BY <1>1, <1>2, <1>3, <2>1 DEF AsciiOutcome, Passes, chordVars, keyboardVars, KeysInv, KeysTypeInv
<1>4. CASE Noop \/ ~Top.key.release \/ Top.key.code \notin pressed
  <2>1. Released \cap pressed \subseteq Released'
    BY <1>1, <1>2, <1>4, ReleaseKept DEF AsciiOutcome
  <2>2. CASE NoteSwitch
    BY <1>1, <1>2, <2>1, <2>2, NoteSwitchPasses DEF AsciiOutcome, chordVars, keyboardVars
  <2>3. CASE ~NoteSwitch
    <3> DEFINE lifted == Top.key.release /\ Top.key.code \in pressed
    <3>0. /\ context'.ascii_mode => context.ascii_mode
          /\ interrupted' = (interrupted \/ lifted) \/ interrupted' = interrupted
          /\ interrupted \in BOOLEAN
      BY <1>2, <2>3 DEF AsciiOutcome, KeysInv, KeysTypeInv
    <3> HIDE DEF lifted
    <3>1. /\ context'.ascii_mode => context.ascii_mode
          /\ interrupted' \in BOOLEAN /\ (~interrupted' => ~interrupted)
      <4>1. CASE interrupted' = interrupted
        BY <3>0, <4>1
      <4>2. CASE interrupted' = (interrupted \/ lifted)
        <5>1. interrupted' \in BOOLEAN /\ (~interrupted' => ~interrupted)
          BY <4>2
        <5> QED
          BY <3>0, <5>1
      <4> QED
        BY <3>0, <4>1, <4>2
    <3> QED
      BY <1>1, <1>2, <2>1, <3>1 DEF AsciiOutcome, Passes, chordVars, keyboardVars, KeysInv, KeysTypeInv
  <2> QED
    BY <2>2, <2>3
<1> QED
  BY <1>2, <1>3, <1>4 DEF AsciiOutcome

LEMMA UnhandledPasses ==
  ASSUME KeysInv, Unhandled
  PROVE  Passes
<1>1. /\ calls # <<>> /\ Top.by = "none" /\ Top.at = Len(Processors) + 1
      /\ calls' = Front(calls) /\ Ready(context) /\ KeysTypeInv
      /\ UNCHANGED <<chordVars, redirecting, keyboardVars, interrupted>>
  BY DEF Unhandled, KeysInv, binderVars
<1>2. Proceeds
  BY <1>1 DEF Proceeds, Accepted
<1> DEFINE spent == [ context EXCEPT !.raw = <<>> ]
<1>3. Switched(context, spent) /\ (spent.ascii_mode => context.ascii_mode)
  <2> DEFINE nothing == <<>>
  <2>1. nothing \in Seq(STRING)
    OBVIOUS
  <2> HIDE DEF nothing
  <2>2. LET d == [ context EXCEPT !.raw = nothing ]
        IN  /\ Sound(d) /\ Kept(context, d) /\ d.input = context.input
            /\ d.ascii_mode = context.ascii_mode
    BY <1>1, <2>1 DEF Ready, Sound, ContextType, Kept, IsComposing
  <2> QED
    BY <2>2 DEF Switched, RawGoes, nothing
<1>4. Switched(context, context') /\ (context'.ascii_mode => context.ascii_mode)
  BY <1>1, <1>3, SameSwitched DEF Unhandled
<1>5. Released \subseteq Released'
  <2> SUFFICES ASSUME NEW k \in Released
               PROVE  k \in Released'
    OBVIOUS
  <2>1. /\ k \in ChordKeys /\ calls[1].key.release /\ calls[1].key.code = k
        /\ calls[1].by = "none" /\ ChordComposerFrom(calls[1].at)
    BY DEF Released
  <2>2. Len(calls) > 1
    <3>1. ~ChordComposerFrom(Top.at)
      BY <1>1, KeysAssumption DEF ChordComposerFrom
    <3> QED
      BY <1>1, <2>1, <3>1, TopFacts
  <2>3. /\ calls' \in Seq(Frames) /\ 1 \in DOMAIN calls' /\ calls'[1] = calls[1]
    <3>1. /\ calls' \in Seq(Frames)
          /\ \A i \in DOMAIN calls' : i < Len(calls) => calls'[i] = calls[i]
          /\ \A i \in DOMAIN calls : i < Len(calls) => i \in DOMAIN calls'
      BY <1>1, <1>2, ProceedsFacts
    <3>2. 1 \in DOMAIN calls /\ 1 < Len(calls)
      BY <1>1, <2>2, TopFacts
    <3> QED
      BY <3>1, <3>2
  <2>4. calls' # <<>>
    BY <2>3
  <2> QED
    BY <2>1, <2>3, <2>4 DEF Released, ChordComposerFrom
<1> QED
  BY <1>1, <1>2, <1>4, <1>5 DEF Passes, chordVars, keyboardVars, KeysInv, KeysTypeInv

-----------------------------------------------------------------------------
(* The feeding of keys                                                     *)

\* A processor begins to feed keys.
LEMMA FeedsFacts ==
  ASSUME KeysTypeInv, calls # <<>>, NEW b \in {"chord_composer", "key_binder"},
         NEW keys \in Seq(KeyEvents), Feeds(b, keys)
  PROVE  /\ calls' \in Seq(Frames) /\ DOMAIN calls' = DOMAIN calls /\ Len(calls') = Len(calls)
         /\ calls' # <<>>
         /\ calls'[Len(calls)].by = b
         /\ \A i \in DOMAIN calls : /\ calls'[i].key = calls[i].key
                                    /\ i # Len(calls) => calls'[i] = calls[i]
<1> DEFINE n == Len(calls)
           f == [ calls[n] EXCEPT !.by = b, !.feed = keys ]
<1>1. /\ n \in Nat \ {0} /\ DOMAIN calls = 1 .. n
      /\ calls \in Seq(Frames) /\ calls[n] \in Frames
  BY TopFacts DEF KeysTypeInv, Top
<1>2. f \in Frames /\ f.by = b /\ f.key = calls[n].key
  BY <1>1 DEF Frames
<1>3. calls' = [ calls EXCEPT ![n] = f ]
  BY DEF Feeds
<1> HIDE DEF f
<1> QED
  BY <1>1, <1>2, <1>3

LEMMA FeedsKeepsFeedInv ==
  ASSUME KeysTypeInv, FeedInv, calls # <<>>, Top.by = "none",
         NEW b \in {"chord_composer", "key_binder"},
         NEW keys \in Seq(KeyEvents), Feeds(b, keys),
         b = "chord_composer" => ~context.sending,
         b = "key_binder" => ~redirecting,
         context'.sending = (context.sending \/ b = "chord_composer"),
         redirecting' = (redirecting \/ b = "key_binder")
  PROVE  FeedInv'
<1> DEFINE n == Len(calls)
<1>1. /\ n \in Nat \ {0} /\ DOMAIN calls = 1 .. n /\ calls[n].by = "none" /\ n \in DOMAIN calls
  BY TopFacts DEF Top
<1>2. /\ DOMAIN calls' = DOMAIN calls /\ Len(calls') = n /\ calls'[n].by = b
      /\ \A i \in DOMAIN calls : i # n => calls'[i] = calls[i]
  BY FeedsFacts
<1> HIDE DEF n
<1>3. \A i \in DOMAIN calls : calls[i].by # b
  BY DEF FeedInv
<1>4. FeedsAreNotNested'
  BY <1>1, <1>2, <1>3 DEF FeedInv, FeedsAreNotNested
<1>5. \A a \in {"chord_composer", "key_binder"} :
        (\E i \in DOMAIN calls' : calls'[i].by = a)
          <=> (a = b \/ \E i \in DOMAIN calls : calls[i].by = a)
  BY <1>1, <1>2
<1>6. \A i \in DOMAIN calls' :
        i < Len(calls') \/ calls'[i].feed # <<>> => calls'[i].by # "none"
  BY <1>1, <1>2 DEF FeedInv, n
<1> QED
  BY <1>4, <1>5, <1>6 DEF FeedInv

LEMMA KeyBinderKeeps ==
  ASSUME KeysInv, KeyBinder
  PROVE  KeysInv' /\ RawGoes(context, context')
<1> DEFINE key == Top.key
<1>1. /\ Calling("key_binder") /\ calls # <<>> /\ Top.by = "none" /\ Ready(context)
      /\ KeysTypeInv /\ key \in KeyEvents
      /\ UNCHANGED <<chordVars, keyboardVars>>
  BY TopFacts DEF KeyBinder, Calling, KeysInv
<1>2. CASE /\ Noop /\ UNCHANGED <<redirecting, interrupted>>
           /\ context' = context \/ context' = PushInput(context, ".")
  <2>1. Switched(context, context') /\ (context'.ascii_mode => context.ascii_mode)
    <3>1. "." \in STRING
      BY KeysAssumption
    <3>2. Follows(context, PushInput(context, ".")) /\ Follows(context, context)
      BY <1>1, <3>1, PushInputFacts, SameSwitched
    <3> QED
      BY <1>2, <3>2, FollowsSwitched
  <2>2. Passes
    BY <1>1, <1>2, <2>1, EditPasses DEF Proceeds
  <2> QED
    BY <2>2, PassesKeeps
<1>3. ASSUME NEW i \in Applicable(key), PerformKeyBinding(Bindings[key][i]), ~redirecting
      PROVE  KeysInv' /\ RawGoes(context, context')
  <2> DEFINE binding == Bindings[key][i]
  <2>1. key \in DOMAIN Bindings /\ i \in DOMAIN Bindings[key]
    BY <1>3 DEF Applicable
  <2>2. ~key.release
    BY <2>1, ChordsAssumption
  <2>3. binding.target \in Seq(KeyEvents)
    <3> DEFINE KeyBindings == [ whence : STRING, toggle : BOOLEAN, target : Seq(KeyEvents) ]
    <3>1. Bindings[key] \in Seq(KeyBindings)
      BY <2>1, KeysAssumption
    <3>2. \A b \in KeyBindings : b.target \in Seq(KeyEvents)
      OBVIOUS
    <3> HIDE DEF KeyBindings
    <3> QED
      BY <2>1, <3>1, <3>2
  <2>4. CASE binding.toggle
    <3>1. /\ context' = SetAsciiMode(context, ~context.ascii_mode)
          /\ Accepted /\ NoteSwitch /\ UNCHANGED redirecting
      BY <1>3, <2>4 DEF PerformKeyBinding
    <3>2. Switched(context, context')
      BY <1>1, <3>1, SetAsciiModeFacts, SameSwitched DEF Switched, Ready
    <3>3. Released \cap pressed \subseteq Released'
      BY <1>1, <2>2, <3>1, ReleaseKept DEF Proceeds
    <3>4. Passes
      BY <1>1, <3>1, <3>2, <3>3, NoteSwitchPasses DEF Proceeds, chordVars, keyboardVars
    <3> QED
      BY <3>4, PassesKeeps
  <2>5. CASE ~binding.toggle
    <3> DEFINE keys == binding.target
               b    == "key_binder"
    <3>1. /\ redirecting' = TRUE /\ Feeds(b, keys)
          /\ UNCHANGED <<context, interrupted>>
      BY <1>3, <2>5 DEF PerformKeyBinding
    <3>2. keys \in Seq(KeyEvents) /\ b \in {"chord_composer", "key_binder"} /\ b = "key_binder"
      BY <2>3
    <3> HIDE DEF binding, keys, b
    <3>3. /\ calls' \in Seq(Frames) /\ calls' # <<>> /\ DOMAIN calls' = DOMAIN calls
          /\ \A j \in DOMAIN calls : /\ calls'[j].key = calls[j].key
                                     /\ j # Len(calls) => calls'[j] = calls[j]
      BY <1>1, <3>1, <3>2, FeedsFacts, Zenon
    <3>4. FeedInv'
      <4>1. /\ b = "chord_composer" => ~context.sending
            /\ b = "key_binder" => ~redirecting
            /\ context'.sending = (context.sending \/ b = "chord_composer")
            /\ redirecting' = (redirecting \/ b = "key_binder")
        BY <1>1, <1>3, <3>1, <3>2 DEF Ready, Sound, ContextType
      <4>2. FeedInv
        BY DEF KeysInv
      <4> QED
        BY <1>1, <3>1, <3>2, <4>1, <4>2, FeedsKeepsFeedInv
    <3>5. 1 \in DOMAIN calls /\ (Len(calls) = 1 => Top = calls[1])
      <4>1. Len(calls) \in Nat \ {0} /\ DOMAIN calls = 1 .. Len(calls)
        BY <1>1, TopFacts
      <4> QED
        BY <4>1 DEF Top
    <3>6. Released \subseteq Released'
      <4> SUFFICES ASSUME NEW k \in Released
                   PROVE  k \in Released'
        OBVIOUS
      <4>1. calls[1].key.release /\ calls[1].by = "none" /\ Len(calls) # 1
        BY <2>2, <3>5 DEF Released
      <4>2. calls'[1] = calls[1]
        BY <3>3, <3>5, <4>1
      <4> QED
        BY <3>3, <4>2 DEF Released, ChordComposerFrom
    <3>7. HeldInv'
      BY <1>1, <3>1, <3>3, <3>5, <3>6
      DEF KeysInv, HeldInv, ChordComposerFrom, chordVars, keyboardVars
    <3> QED
      BY <1>1, <3>1, <3>3, <3>4, <3>7 DEF KeysInv, KeysTypeInv, Ready, Calm, Sound, RawGoes,
         IsComposing, chordVars, keyboardVars
  <2> QED
    BY <2>4, <2>5
<1> QED
  BY <1>2, <1>3 DEF KeyBinder, binderVars, IsRedirected

LEMMA FeedNextKeeps ==
  ASSUME KeysInv, FeedNext
  PROVE  KeysInv' /\ RawGoes(context, context')
<1> DEFINE n == Len(calls)
           f == [ calls[n] EXCEPT !.feed = Tail(@) ]
           g == Frame(Head(Top.feed))
<1>1. /\ calls # <<>> /\ Top.feed # <<>> /\ Top = calls[n]
      /\ UNCHANGED <<context, chordVars, redirecting, keyboardVars, interrupted>>
  BY DEF FeedNext, Top, binderVars
<1>2. /\ n \in Nat \ {0} /\ DOMAIN calls = 1 .. n /\ calls \in Seq(Frames) /\ Top \in Frames
      /\ Top.feed \in Seq(KeyEvents)
  BY <1>1, TopFacts DEF KeysInv, KeysTypeInv, Frames
<1>3. Head(Top.feed) \in KeyEvents /\ Tail(Top.feed) \in Seq(KeyEvents)
  BY <1>1, <1>2, HeadTailProperties
<1>4. /\ f \in Frames /\ f.by = calls[n].by /\ f.key = calls[n].key /\ f.at = calls[n].at
      /\ f.feed = Tail(Top.feed)
  BY <1>1, <1>2, <1>3 DEF Frames
<1>5. g \in Frames /\ g.by = "none" /\ g.feed = <<>>
  <2>1. << >> \in Seq(KeyEvents)
    OBVIOUS
  <2> QED
    BY <1>3, <2>1 DEF Frame, Frames
<1>6. calls' = Append([ calls EXCEPT ![n] = f ], g)
  BY <1>1 DEF FeedNext
<1> HIDE DEF f, g
<1>7. /\ calls' \in Seq(Frames) /\ Len(calls') = n + 1 /\ DOMAIN calls' = 1 .. n + 1
      /\ calls'[n + 1] = g /\ calls'[n] = f
      /\ \A i \in 1 .. n : i # n => calls'[i] = calls[i]
  <2> DEFINE m == [ calls EXCEPT ![n] = f ]
  <2>1. /\ m \in Seq(Frames) /\ Len(m) = n /\ m[n] = f
        /\ \A i \in 1 .. n : i # n => m[i] = calls[i]
    <3>1. calls \in Seq(Frames) /\ n \in DOMAIN calls /\ f \in Frames /\ DOMAIN calls = 1 .. n
      BY <1>2, <1>4
    <3>2. m \in Seq(Frames) /\ Len(m) = Len(calls)
      BY <3>1
    <3> QED
      BY <3>1, <3>2
  <2>2. calls' = Append(m, g)
    BY <1>6
  <2> HIDE DEF m, n
  <2>3. n \in Nat \ {0} /\ n \in 1 .. n
    BY <1>2
  <2>4. /\ calls' \in Seq(Frames) /\ Len(calls') = n + 1 /\ calls'[n + 1] = g
        /\ \A i \in 1 .. n : calls'[i] = m[i]
    BY <1>5, <2>1, <2>2, AppendProperties
  <2>5. DOMAIN calls' = 1 .. n + 1
    BY <2>4
  <2> QED
    BY <2>1, <2>3, <2>4, <2>5
<1>8. \A i \in 1 .. n : calls'[i].by = calls[i].by /\ calls'[i].key = calls[i].key
                        /\ calls'[i].at = calls[i].at
  BY <1>4, <1>7
<1>9. FeedInv'
  <2>1. calls[n].by # "none"
    BY <1>1, <1>2 DEF KeysInv, FeedInv
  <2>2. \A i \in 1 .. n : calls[i].by # "none"
    BY <1>2, <2>1 DEF KeysInv, FeedInv
  <2>3. \A i \in 1 .. n + 1 : i = n + 1 \/ i \in 1 .. n
    BY <1>2
  <2>4. FeedsAreNotNested'
    <3>1. \A i \in DOMAIN calls' : calls'[i].by # "none" => i \in DOMAIN calls
      BY <1>2, <1>5, <1>7, <2>3
    <3> QED
      BY <1>2, <1>8, <3>1 DEF KeysInv, FeedInv, FeedsAreNotNested
  <2>5. \A b \in {"chord_composer", "key_binder"} :
          (\E i \in DOMAIN calls' : calls'[i].by = b) <=> (\E i \in DOMAIN calls : calls[i].by = b)
    <3>1. \A i \in 1 .. n : i \in 1 .. n + 1
      BY <1>2
    <3> QED
      BY <1>2, <1>5, <1>7, <1>8, <2>3, <3>1
  <2>6. \A i \in DOMAIN calls' :
          i < Len(calls') \/ calls'[i].feed # <<>> => calls'[i].by # "none"
    <3>1. \A i \in 1 .. n + 1 : i < n + 1 => i \in 1 .. n
      BY <1>2
    <3> QED
      BY <1>5, <1>7, <1>8, <2>2, <2>3, <3>1
  <2> QED
    BY <1>1, <2>4, <2>5, <2>6 DEF KeysInv, FeedInv
<1>10. 1 \in 1 .. n /\ calls' # <<>>
  <2>1. 1 \in 1 .. n /\ 1 \in 1 .. n + 1
    BY <1>2
  <2>2. 1 \in DOMAIN calls'
    BY <1>7, <2>1
  <2> QED
    BY <2>1, <2>2
<1>11. Released' = Released
  BY <1>1, <1>8, <1>10 DEF Released, ChordComposerFrom
<1>12. HeldInv'
  BY <1>1, <1>8, <1>10, <1>11 DEF KeysInv, HeldInv, ChordComposerFrom, chordVars, keyboardVars
<1> QED
  BY <1>1, <1>7, <1>9, <1>12
  DEF KeysInv, KeysTypeInv, Ready, Calm, Sound, RawGoes, IsComposing, chordVars, keyboardVars

\* A call that fed keys returns.
LEMMA ReturnFacts ==
  ASSUME KeysTypeInv, FeedInv, calls # <<>>, Top.by # "none", Accepted
  PROVE  /\ calls' \in Seq(Frames)
         /\ \A i \in DOMAIN calls' : i \in DOMAIN calls /\ calls'[i] = calls[i]
         /\ FeedsAreNotNested'
         /\ \A b \in {"chord_composer", "key_binder"} :
              (\E i \in DOMAIN calls' : calls'[i].by = b)
                <=> (b # Top.by /\ \E i \in DOMAIN calls : calls[i].by = b)
         /\ \A i \in DOMAIN calls' :
              i < Len(calls') \/ calls'[i].feed # <<>> => calls'[i].by # "none"
<1> DEFINE n == Len(calls)
<1>1. /\ n \in Nat \ {0} /\ DOMAIN calls = 1 .. n /\ calls \in Seq(Frames)
      /\ Top = calls[n]
  BY TopFacts DEF KeysTypeInv, Top
<1>2. calls' = SubSeq(calls, 1, n - 1)
  BY DEF Accepted, Front
<1>3. \A i \in 1 .. n - 1 : calls[i] \in Frames
  BY <1>1
<1>4. /\ calls' \in Seq(Frames) /\ Len(calls') = n - 1
      /\ \A i \in 1 .. n - 1 : calls'[i] = calls[i]
  BY <1>1, <1>2, <1>3, SubSeqProperties
<1> HIDE DEF n
<1>5. DOMAIN calls' = 1 .. n - 1
  BY <1>1, <1>4
<1>6. \A i \in 1 .. n : i = n \/ i \in 1 .. n - 1
  BY <1>1
<1>7. \A i \in 1 .. n - 1 : i \in 1 .. n /\ i # n /\ i < n
  BY <1>1
<1>8. FeedsAreNotNested'
  BY <1>1, <1>4, <1>5, <1>7 DEF FeedInv, FeedsAreNotNested
<1>9. \A i \in DOMAIN calls : i # n => calls[i].by # calls[n].by
  BY <1>1 DEF FeedInv, FeedsAreNotNested
<1>10. \A b \in {"chord_composer", "key_binder"} :
         (\E i \in DOMAIN calls' : calls'[i].by = b)
           <=> (b # Top.by /\ \E i \in DOMAIN calls : calls[i].by = b)
  BY <1>1, <1>4, <1>5, <1>6, <1>7, <1>9
<1>11. \A i \in DOMAIN calls' : calls'[i].by # "none"
  BY <1>1, <1>4, <1>5, <1>7 DEF FeedInv, n
<1> QED
  BY <1>1, <1>4, <1>5, <1>7, <1>8, <1>10, <1>11

LEMMA FeedDoneKeeps ==
  ASSUME KeysInv, FeedDone
  PROVE  KeysInv' /\ RawGoes(context, context')
<1>1. /\ calls # <<>> /\ Top.by # "none" /\ Accepted /\ KeysTypeInv /\ FeedInv
      /\ UNCHANGED <<pressed, keyboardVars, interrupted>>
  BY DEF FeedDone, KeysInv
<1>2. /\ calls' \in Seq(Frames)
      /\ \A i \in DOMAIN calls' : i \in DOMAIN calls /\ calls'[i] = calls[i]
      /\ FeedsAreNotNested'
      /\ \A b \in {"chord_composer", "key_binder"} :
           (\E i \in DOMAIN calls' : calls'[i].by = b)
             <=> (b # Top.by /\ \E i \in DOMAIN calls : calls[i].by = b)
      /\ \A i \in DOMAIN calls' :
           i < Len(calls') \/ calls'[i].feed # <<>> => calls'[i].by # "none"
  BY <1>1, ReturnFacts
<1>3. Len(calls) \in Nat \ {0} /\ DOMAIN calls = 1 .. Len(calls) /\ Top = calls[Len(calls)]
  BY <1>1, TopFacts DEF Top
<1>4. calls[1].by = "none" => Len(calls) # 1
  BY <1>1, <1>3
<1>5. Released \subseteq Released'
  <2>1. 1 < Len(calls) => 1 \in DOMAIN calls' /\ calls' # <<>>
    <3>1. calls' = SubSeq(calls, 1, Len(calls) - 1)
      BY <1>1 DEF Accepted, Front
    <3>2. \A i \in 1 .. Len(calls) - 1 : calls[i] \in Frames
      BY <1>1, <1>3 DEF KeysTypeInv
    <3>3. Len(calls') = IF 1 <= Len(calls) - 1 THEN Len(calls) - 1 - 1 + 1 ELSE 0
      BY <1>3, <3>1, <3>2, SubSeqProperties
    <3>4. calls' \in Seq(Frames)
      BY <1>2
    <3> DEFINE n == Len(calls)
    <3>5. n \in Nat \ {0} /\ (1 < n => 1 <= n - 1 /\ n - 1 - 1 + 1 = n - 1 /\ 1 \in 1 .. n - 1)
      BY <1>3
    <3> HIDE DEF n
    <3>6. 1 < n => Len(calls') = n - 1
      BY <3>3, <3>5 DEF n
    <3>7. 1 < n => 1 \in DOMAIN calls'
      BY <3>4, <3>5, <3>6
    <3> QED
      BY <3>4, <3>7 DEF n
  <2>2. calls[1].by = "none" => 1 < Len(calls)
    BY <1>3, <1>4
  <2> QED
    BY <1>2, <2>1, <2>2 DEF Released, ChordComposerFrom
<1>6. HeldInv'
  <2>1. context'.ascii_mode = context.ascii_mode
    BY DEF FeedDone, KeysInv, Ready, Sound, ContextType
  <2>2. calls' # <<>> => calls # <<>> /\ calls'[1] = calls[1]
    BY <1>1, <1>2
  <2> QED
    BY <1>1, <1>5, <2>1, <2>2 DEF KeysInv, HeldInv, ChordComposerFrom, keyboardVars
<1>7. CASE Top.by = "chord_composer"
  <2>1. /\ context' = [ context EXCEPT !.sending = FALSE, !.editing = FALSE ]
        /\ recognized' = {} /\ UNCHANGED redirecting
    BY <1>7 DEF FeedDone
  <2>2. Ready(context)' /\ RawGoes(context, context') /\ ~context'.sending
    BY <2>1 DEF KeysInv, Ready, Calm, Sound, ContextType, IsComposing, RawGoes
  <2>3. FeedInv'
    BY <1>1, <1>2, <1>7, <2>1, <2>2 DEF FeedInv
  <2> QED
    BY <1>1, <1>2, <1>6, <2>1, <2>2, <2>3 DEF KeysInv, KeysTypeInv, keyboardVars
<1>8. CASE Top.by = "key_binder"
  <2>1. redirecting' = FALSE /\ UNCHANGED <<context, recognized>>
    BY <1>8 DEF FeedDone
  <2>2. Ready(context)' /\ RawGoes(context, context')
    BY <2>1 DEF KeysInv, Ready, Calm, Sound, IsComposing, RawGoes
  <2>3. FeedInv'
    BY <1>1, <1>2, <1>8, <2>1 DEF FeedInv
  <2> QED
    BY <1>1, <1>2, <1>6, <2>1, <2>2, <2>3 DEF KeysInv, KeysTypeInv, keyboardVars
<1> QED
  BY <1>7, <1>8 DEF FeedDone

-----------------------------------------------------------------------------
(* ChordComposer                                                           *)

\* The operations on a context whose input ChordComposer edits keep its input.
KeepsInput(c, d) ==
  /\ Sound(d) /\ d.sending = c.sending /\ d.input = c.input
  /\ d.ascii_mode => c.ascii_mode

LEMMA ClearChordFacts ==
  ASSUME NEW c, Sound(c)
  PROVE  KeepsInput(c, ClearChord(c)) /\ Kept(c, ClearChord(c))
<1> DEFINE nothing == <<>>
           e == [ c EXCEPT !.input = nothing, !.phony = FALSE, !.selected = FALSE,
                           !.paging = FALSE ]
<1>1. nothing \in Seq(STRING)
  OBVIOUS
<1>2. ClearChord(c) = IF c.phony THEN Update(e) ELSE c
  BY DEF ClearChord, Clear, WithInput
<1>3. c.phony => c.input = nothing
  BY DEF Sound
<1> HIDE DEF nothing
<1>4. /\ e \in ContextType /\ e.input = nothing /\ ~e.phony /\ ~e.selected /\ Kept(c, e)
      /\ e.ascii_mode = c.ascii_mode
  BY <1>1 DEF Sound, ContextType, Kept
<1> HIDE DEF e
<1> QED
  BY <1>2, <1>3, <1>4, UpdateFacts DEF KeepsInput, Sound, Kept

LEMMA UpdateChordFacts ==
  ASSUME NEW c, Sound(c), NEW chord
  PROVE  KeepsInput(c, UpdateChord(c, chord)) /\ Kept(c, UpdateChord(c, chord))
<1> DEFINE e == [ c EXCEPT !.phony = (c.input = <<>>) ]
<1>1. KeepsInput(c, e) /\ Kept(c, e)
  BY DEF Sound, ContextType, KeepsInput, Kept, IsComposing
<1>2. UpdateChord(c, chord) \in {ClearChord(c), e}
  BY DEF UpdateChord
<1> HIDE DEF e
<1> QED
  BY <1>1, <1>2, ClearChordFacts

LEMMA EditingFacts ==
  ASSUME NEW c, Sound(c), NEW editing \in BOOLEAN
  PROVE  LET d == [ c EXCEPT !.editing = editing ] IN KeepsInput(c, d) /\ d.editing = editing
BY DEF Sound, ContextType, KeepsInput, IsComposing

LEMMA RawFacts ==
  ASSUME NEW c, Sound(c), NEW raw \in Seq(STRING)
  PROVE  LET d == [ c EXCEPT !.raw = raw ]
         IN  KeepsInput(c, d) /\ Kept(c, d) /\ d.raw = raw
BY DEF Sound, ContextType, KeepsInput, Kept, IsComposing

LEMMA BufferRawFacts ==
  ASSUME NEW c, Sound(c), NEW key, key.code \in STRING
  PROVE  KeepsInput(c, BufferRaw(c, key)) /\ Kept(c, BufferRaw(c, key))
<1>1. c.raw \in Seq(STRING)
  BY DEF Sound, ContextType
<1> DEFINE none == <<>>
           more == Append(c.raw, key.code)
<1>2. none \in Seq(STRING) /\ more \in Seq(STRING)
  BY <1>1
<1>3. BufferRaw(c, key) \in { c, [ c EXCEPT !.raw = none ], [ c EXCEPT !.raw = more ] }
  BY DEF BufferRaw
<1> HIDE DEF none, more
<1>4. KeepsInput(c, c) /\ Kept(c, c)
  BY DEF KeepsInput, Kept
<1> QED
  BY <1>2, <1>3, <1>4, RawFacts

LEMMA CommitRawInputFacts ==
  ASSUME NEW c, Ready(c), c.raw # <<>>
  PROVE  LET d == CommitRawInput(c)
         IN  Sound(d) /\ Kept(c, d) /\ d.raw = <<>> /\ (d.ascii_mode => c.ascii_mode)
<1> DEFINE w == WithInput(c, c.raw)
           none == <<>>
           e == [ w EXCEPT !.raw = none, !.phony = FALSE ]
<1>1. c \in ContextType /\ c.raw \in Seq(STRING) /\ (c.input # <<>> => c.chording) /\ Calm(c)
  BY DEF Ready, Sound, ContextType
<1>2. Follows(c, w) /\ w.input = c.raw
  BY <1>1, WithInputFacts
<1>3. none \in Seq(STRING)
  OBVIOUS
<1>4. CommitRawInput(c) = CommitComposition(e)
  BY DEF CommitRawInput
<1>5. w.input # <<>>
  BY <1>2
<1> HIDE DEF w, none
<1>6. /\ Ready(e) /\ Kept(c, e) /\ e.input # <<>>
      /\ e.ascii_mode => c.ascii_mode
  BY <1>1, <1>2, <1>3, <1>5
  DEF Follows, Ready, Sound, Calm, Kept, ContextType, IsComposing
<1> HIDE DEF e
<1>7. CommitComposition(e) = Clear(e)
  BY <1>6 DEF CommitComposition, IsComposing
<1>8. Follows(e, Clear(e)) /\ Clear(e).input = <<>>
  BY <1>6, ClearFacts
<1> QED
  BY <1>4, <1>6, <1>7, <1>8 DEF Follows, Kept, RawGoes

LEMMA FunctionKeyFacts ==
  ASSUME NEW key, NEW c, Ready(c), ProcessFunctionKey(key, c)
  PROVE  /\ Sound(context') /\ Kept(c, context')
         /\ context'.input = c.input \/ context'.raw = <<>>
         /\ context'.ascii_mode => c.ascii_mode
         /\ Noop \/ Accepted
<1> DEFINE none == <<>>
<1>1. none \in Seq(STRING)
  OBVIOUS
<1>2. LET d == [ c EXCEPT !.raw = none ] IN KeepsInput(c, d) /\ Kept(c, d)
  BY <1>1, RawFacts DEF Ready
<1>3. \/ c.raw # <<>> /\ context' = CommitRawInput(c) /\ Accepted
      \/ context' = [ c EXCEPT !.raw = none ] /\ Noop
      \/ context' = c /\ Noop
  BY DEF ProcessFunctionKey
<1> HIDE DEF none
<1> QED
  BY <1>2, <1>3, CommitRawInputFacts DEF Ready, KeepsInput, Kept

\* Which keys are pressed after a key.
PressedAfter(key) ==
  \A k \in pressed' : \/ k \in pressed /\ (key.release => k # key.code)
                      \/ ~key.release /\ k = key.code

LEMMA ChordingKeyFacts ==
  ASSUME NEW key, NEW c, Ready(c), ~c.sending, key.code \in ChordKeys,
         pressed \subseteq ChordKeys, recognized \subseteq ChordKeys,
         ProcessChordingKey(key, c)
  PROVE  /\ Sound(context') /\ Calm(context') /\ context'.input = c.input
         /\ context'.ascii_mode => c.ascii_mode
         /\ pressed' \subseteq ChordKeys /\ recognized' \subseteq ChordKeys /\ PressedAfter(key)
         /\ \/ (Accepted \/ Rejected) /\ ~context'.sending
            \/ /\ context'.sending
               /\ \E keys \in Seq(KeyEvents) : Feeds("chord_composer", keys)
<1> DEFINE edited == [ c EXCEPT !.editing = TRUE ]
           k == key.code
           chord == recognized \cup {k}
<1>1. Sound(c) /\ ~c.editing /\ c.sending \in BOOLEAN /\ c.editing \in BOOLEAN
  BY DEF Ready, Calm, Sound, ContextType
<1>2. KeepsInput(c, edited)
  BY <1>1, EditingFacts
<1>3. Sound(edited)
  BY <1>2 DEF KeepsInput
<1> HIDE DEF edited
<1>4. CASE ~key.release
  <2> DEFINE d == IF k \in pressed \cup recognized THEN edited ELSE UpdateChord(edited, chord)
  <2>1. /\ pressed' = pressed \cup {k}
        /\ recognized' = IF k \in pressed THEN recognized ELSE chord
        /\ context' = [ d EXCEPT !.editing = FALSE ]
        /\ Accepted
    BY <1>4 DEF ProcessChordingKey, edited
  <2>2. KeepsInput(c, d)
    BY <1>2, <1>3, UpdateChordFacts DEF KeepsInput
  <2> HIDE DEF d
  <2>3. KeepsInput(d, context') /\ ~context'.editing
    BY <2>1, <2>2, EditingFacts DEF KeepsInput
  <2> QED
    BY <1>4, <2>1, <2>2, <2>3 DEF KeepsInput, Calm, PressedAfter
<1>5. CASE key.release
  <2>1. pressed' = pressed \ {k}
    BY <1>5 DEF ProcessChordingKey
  <2>2. pressed' \subseteq ChordKeys /\ PressedAfter(key)
    BY <1>5, <2>1 DEF PressedAfter
  <2>3. CASE context' = c /\ UNCHANGED recognized /\ (Accepted \/ Rejected)
    BY <1>1, <2>2, <2>3 DEF Calm
  <2> DEFINE cleared == ClearChord(edited)
             keys    == Output[recognized]
  <2>4. KeepsInput(c, cleared) /\ Kept(edited, cleared)
    BY <1>2, <1>3, ClearChordFacts DEF KeepsInput
  <2>5. cleared.editing = TRUE
    BY <1>1, <2>4 DEF edited, Kept, Sound, ContextType
  <2> HIDE DEF cleared
  <2>6. CASE /\ context' = [ cleared EXCEPT !.editing = FALSE ]
             /\ recognized' = {} /\ Accepted
    <3>1. KeepsInput(cleared, context') /\ ~context'.editing
      BY <2>4, <2>6, EditingFacts DEF KeepsInput
    <3> QED
      BY <2>2, <2>4, <2>6, <3>1 DEF KeepsInput, Calm
  <2>7. CASE /\ recognized # {} /\ context' = [ cleared EXCEPT !.sending = TRUE ]
             /\ Feeds("chord_composer", keys) /\ UNCHANGED recognized
    <3>1. keys \in Seq(KeyEvents)
      BY <2>7, KeysAssumption
    <3>2. Sound(context') /\ context'.sending /\ context'.input = cleared.input
          /\ context'.ascii_mode = cleared.ascii_mode
      BY <2>4, <2>7 DEF KeepsInput, Sound, ContextType, IsComposing
    <3> QED
      BY <2>2, <2>4, <2>7, <3>1, <3>2 DEF KeepsInput, Calm
  <2>8. \/ context' = c /\ UNCHANGED recognized /\ (Accepted \/ Rejected)
        \/ /\ context' = [ cleared EXCEPT !.editing = FALSE ]
           /\ recognized' = {} /\ Accepted
        \/ /\ recognized # {} /\ context' = [ cleared EXCEPT !.sending = TRUE ]
           /\ Feeds("chord_composer", keys) /\ UNCHANGED recognized
    BY <1>5 DEF ProcessChordingKey, edited, cleared
  <2> QED
    BY <2>3, <2>6, <2>7, <2>8
<1> QED
  BY <1>4, <1>5

\* What a call of ChordComposer that is not passed on makes of the keys held.
LEMMA ChordHeld ==
  ASSUME KeysInv, Calling("chord_composer"), ~context.sending, ~context.ascii_mode,
         context'.ascii_mode => context.ascii_mode, PressedAfter(Top.key),
         interrupted' = ((interrupted \/ redirecting) /\ pressed' # {}),
         \A i \in DOMAIN calls' : i \in DOMAIN calls /\ calls'[i].key = calls[i].key,
         calls' \in Seq(Frames), UNCHANGED <<held, caps>>
  PROVE  HeldInv' /\ interrupted' \in BOOLEAN
<1>1. /\ calls # <<>> /\ Top.by = "none" /\ Top.at \in DOMAIN Processors
      /\ Processors[Top.at] = "chord_composer" /\ KeysTypeInv /\ FeedInv /\ HeldInv
  BY DEF Calling, KeysInv
<1>2. ChordComposerFrom(1)
  BY <1>1, KeysAssumption DEF ChordComposerFrom
<1>3. interrupted' \in BOOLEAN
  OBVIOUS
<1>4. pressed' # {} /\ ~interrupted' => ~interrupted /\ ~redirecting
  OBVIOUS
<1>5. ~redirecting => Top = calls[1]
  <2>1. /\ Len(calls) \in Nat \ {0} /\ DOMAIN calls = 1 .. Len(calls)
        /\ \A i \in DOMAIN calls : calls[i].by \in {"none", "chord_composer", "key_binder"}
    <3>1. Len(calls) \in Nat \ {0} /\ DOMAIN calls = 1 .. Len(calls) /\ calls \in Seq(Frames)
      BY <1>1, TopFacts DEF KeysTypeInv
    <3>2. \A i \in DOMAIN calls : calls[i] \in Frames
      BY <3>1
    <3> QED
      BY <3>1, <3>2 DEF Frames
  <2>2. ~redirecting => \A i \in DOMAIN calls : calls[i].by = "none"
    BY <1>1, <2>1 DEF FeedInv
  <2>3. ~redirecting => ~(1 < Len(calls))
    BY <1>1, <2>1, <2>2 DEF FeedInv
  <2> QED
    BY <1>1, <2>1, <2>3, TopFacts
<1>6. pressed' # {} /\ ~interrupted' => pressed' \subseteq held
  <2> SUFFICES ASSUME pressed' # {}, ~interrupted', NEW k \in pressed'
               PROVE  k \in held
    OBVIOUS
  <2>1. Top = calls[1] /\ ~interrupted
    BY <1>4, <1>5
  <2>2. CASE k \in pressed /\ (Top.key.release => k # Top.key.code)
    BY <1>1, <2>1, <2>2 DEF HeldInv, Released
  <2>3. CASE ~Top.key.release /\ k = Top.key.code
    BY <1>1, <2>1, <2>3 DEF HeldInv
  <2> QED
    BY <2>2, <2>3 DEF PressedAfter
<1>7. calls' # <<>> /\ ~calls'[1].key.release => calls'[1].key.code \in held
  <2>1. calls' # <<>> => 1 \in DOMAIN calls'
    OBVIOUS
  <2> QED
    BY <1>1, <2>1 DEF HeldInv
<1> QED
  BY <1>2, <1>3, <1>6, <1>7 DEF HeldInv, ChordComposerFrom

LEMMA ChordComposerKeeps ==
  ASSUME KeysInv, ChordComposer
  PROVE  KeysInv' /\ RawGoes(context, context')
<1> DEFINE key == Top.key
           c   == BufferRaw(context, key)
<1>1. /\ Calling("chord_composer") /\ calls # <<>> /\ Top.by = "none"
      /\ KeysTypeInv /\ FeedInv /\ HeldInv /\ Ready(context) /\ Sound(context)
      /\ interrupted' = ((interrupted \/ redirecting) /\ pressed' # {})
      /\ interrupted \in BOOLEAN /\ redirecting \in BOOLEAN /\ key.code \in STRING
      /\ UNCHANGED <<redirecting, held, caps>>
  BY TopFacts DEF ChordComposer, Calling, KeysInv, KeysTypeInv, Ready, binderVars, keyboardVars
<1>2. interrupted' \in BOOLEAN
  BY <1>1
<1>3. KeepsInput(context, c) /\ Kept(context, c)
  BY <1>1, BufferRawFacts
<1>4. CASE context.ascii_mode /\ Noop /\ UNCHANGED <<context, chordVars>>
  <2>1. pressed # {} => interrupted'
    BY <1>1, <1>4 DEF HeldInv, chordVars
  <2>2. Passes
    BY <1>1, <1>2, <1>4, <2>1, SameSwitched DEF Passes, Proceeds, chordVars, KeysTypeInv
  <2> QED
    BY <2>2, PassesKeeps
<1>5. CASE context.sending /\ ProcessFunctionKey(key, context) /\ UNCHANGED chordVars
  <2>1. Switched(context, context') /\ (context'.ascii_mode => context.ascii_mode) /\ Proceeds
    BY <1>1, <1>5, FunctionKeyFacts DEF Switched, RawGoes, Proceeds
  <2>2. pressed # {} /\ ~interrupted' => ~interrupted
    BY <1>1, <1>5 DEF chordVars
  <2>3. Released \subseteq Released'
    <3> SUFFICES ASSUME NEW k \in Released
                 PROVE  k \in Released'
      OBVIOUS
    <3>1. calls[1].by = "none"
      BY DEF Released
    <3>2. /\ Len(calls) \in Nat \ {0} /\ DOMAIN calls = 1 .. Len(calls)
          /\ Len(calls) > 1 \/ Top = calls[1]
      BY <1>1, TopFacts
    <3>3. PICK i \in DOMAIN calls : calls[i].by = "chord_composer"
      BY <1>1, <1>5 DEF FeedInv
    <3>4. i # 1
      BY <3>1, <3>3
    <3>5. Len(calls) > 1
      BY <3>2, <3>3, <3>4
    <3>6. 1 \in DOMAIN calls /\ 1 < Len(calls)
      BY <3>2, <3>5
    <3>7. calls' \in Seq(Frames) /\ 1 \in DOMAIN calls' /\ calls'[1] = calls[1]
      <4>1. /\ calls' \in Seq(Frames)
            /\ \A j \in DOMAIN calls' : j < Len(calls) => calls'[j] = calls[j]
            /\ \A j \in DOMAIN calls : j < Len(calls) => j \in DOMAIN calls'
        BY <1>1, <2>1, ProceedsFacts
      <4> QED
        BY <3>6, <4>1
    <3>8. calls' # <<>>
      BY <3>7
    <3> QED
      BY <3>7, <3>8 DEF Released, ChordComposerFrom
  <2>4. Passes
    BY <1>1, <1>2, <1>5, <2>1, <2>2, <2>3 DEF Passes, chordVars, KeysTypeInv
  <2> QED
    BY <2>4, PassesKeeps
<1>6. CASE /\ ~context.ascii_mode /\ ~context.sending /\ key.code \in ChordKeys
           /\ ProcessChordingKey(key, c)
  <2>1. Ready(c) /\ ~c.sending
    BY <1>1, <1>3, <1>6 DEF Ready, Calm, KeepsInput, Kept
  <2> HIDE DEF c
  <2>2. /\ Sound(context') /\ Calm(context') /\ context'.input = context.input
        /\ context'.ascii_mode => context.ascii_mode
        /\ pressed' \subseteq ChordKeys /\ recognized' \subseteq ChordKeys /\ PressedAfter(key)
        /\ \/ (Accepted \/ Rejected) /\ ~context'.sending
           \/ /\ context'.sending
              /\ \E keys \in Seq(KeyEvents) : Feeds("chord_composer", keys)
    BY <1>1, <1>3, <1>6, <2>1, ChordingKeyFacts DEF KeepsInput, KeysTypeInv
  <2>3. RawGoes(context, context')
    BY <2>2 DEF RawGoes
  <2>4. context.sending \in BOOLEAN /\ context'.sending \in BOOLEAN
    BY <1>1, <2>2 DEF Sound, ContextType
  <2>5. CASE (Accepted \/ Rejected) /\ ~context'.sending
    <3>1. Proceeds
      BY <2>5 DEF Proceeds
    <3>2. FeedInv'
      BY <1>1, <1>6, <2>4, <2>5, <3>1, FeedKept
    <3>3. /\ calls' \in Seq(Frames)
          /\ \A i \in DOMAIN calls' : i \in DOMAIN calls /\ calls'[i].key = calls[i].key
      BY <1>1, <3>1, ProceedsFacts
    <3>4. HeldInv'
      BY <1>1, <1>6, <2>2, <3>3, ChordHeld
    <3> QED
      BY <1>1, <1>2, <2>2, <2>3, <3>2, <3>3, <3>4 DEF KeysInv, KeysTypeInv, Ready
  <2>6. CASE context'.sending /\ \E keys \in Seq(KeyEvents) : Feeds("chord_composer", keys)
    <3>1. PICK keys \in Seq(KeyEvents) : Feeds("chord_composer", keys)
      BY <2>6
    <3> DEFINE b == "chord_composer"
    <3>2. b \in {"chord_composer", "key_binder"} /\ b = "chord_composer" /\ Feeds(b, keys)
      BY <3>1
    <3>3. /\ b = "chord_composer" => ~context.sending
          /\ b = "key_binder" => ~redirecting
          /\ context'.sending = (context.sending \/ b = "chord_composer")
          /\ redirecting' = (redirecting \/ b = "key_binder")
      BY <1>1, <1>6, <2>4, <2>6, <3>2
    <3> HIDE DEF b
    <3>4. FeedInv'
      BY <1>1, <3>2, <3>3, FeedsKeepsFeedInv
    <3>5. /\ calls' \in Seq(Frames) /\ DOMAIN calls' = DOMAIN calls
          /\ \A i \in DOMAIN calls : calls'[i].key = calls[i].key
      BY <1>1, <3>2, FeedsFacts, Zenon
    <3>6. HeldInv'
      BY <1>1, <1>6, <2>2, <3>5, ChordHeld
    <3> QED
      BY <1>1, <1>2, <2>2, <2>3, <3>4, <3>5, <3>6 DEF KeysInv, KeysTypeInv, Ready
  <2> QED
    BY <2>2, <2>5, <2>6
<1>7. CASE /\ ~context.ascii_mode /\ ~context.sending
           /\ ProcessFunctionKey(key, ClearChord(c)) /\ ForgetChord(key)
  <2> DEFINE d == ClearChord(c)
  <2>1. KeepsInput(context, d) /\ Kept(context, d)
    BY <1>3, ClearChordFacts DEF KeepsInput, Kept
  <2>2. Ready(d)
    BY <1>1, <2>1 DEF KeepsInput, Kept, Ready, Calm
  <2> HIDE DEF d
  <2>3. /\ Sound(context') /\ Kept(context, context')
        /\ context'.input = context.input \/ context'.raw = <<>>
        /\ context'.ascii_mode => context.ascii_mode
        /\ Proceeds
    BY <1>7, <2>1, <2>2, FunctionKeyFacts DEF KeepsInput, Kept, Proceeds, d
  <2>4. RawGoes(context, context') /\ Calm(context')
    BY <1>1, <2>3 DEF RawGoes, Ready, Calm, Kept
  <2>5. pressed' = {} /\ recognized' = {}
    BY <1>7 DEF ForgetChord
  <2>6. FeedInv'
    BY <1>1, <2>3, FeedKept DEF Kept
  <2>7. /\ calls' \in Seq(Frames)
        /\ \A i \in DOMAIN calls' : i \in DOMAIN calls /\ calls'[i].key = calls[i].key
    BY <1>1, <2>3, ProceedsFacts
  <2>8. HeldInv'
    BY <1>1, <1>7, <2>3, <2>5, <2>7, ChordHeld DEF PressedAfter
  <2> QED
    BY <1>1, <1>2, <2>3, <2>4, <2>5, <2>6, <2>7, <2>8 DEF KeysInv, KeysTypeInv, Ready
<1> QED
  BY <1>4, <1>5, <1>6, <1>7 DEF ChordComposer, IsSending

-----------------------------------------------------------------------------
(* The user, the clock and the frontend                                    *)

LEMMA IdleFacts ==
  ASSUME KeysInv, calls = <<>>
  PROVE  /\ ~context.sending /\ ~redirecting /\ Released = {}
         /\ ~interrupted => pressed \subseteq held
<1>1. context.sending \in BOOLEAN /\ redirecting \in BOOLEAN /\ DOMAIN calls = {}
  BY DEF KeysInv, Ready, Sound, ContextType, KeysTypeInv
<1>2. ~context.sending /\ ~redirecting
  BY <1>1 DEF KeysInv, FeedInv
<1>3. Released = {}
  BY DEF Released
<1> QED
  BY <1>2, <1>3 DEF KeysInv, HeldInv

\* The call of ProcessKey for a key of the keyboard.
LEMMA FirstCall ==
  ASSUME KeysInv, calls = <<>>, NEW key \in KeyEvents, calls' = << Frame(key) >>,
         UNCHANGED <<context, redirecting>>
  PROVE  /\ calls' \in Seq(Frames) /\ calls' # <<>>
         /\ calls'[1].key = key /\ calls'[1].by = "none" /\ calls'[1].at = 1
         /\ FeedInv'
<1> DEFINE f == Frame(key)
           none == <<>>
<1>1. none \in Seq(KeyEvents)
  OBVIOUS
<1>2. f \in Frames /\ f.key = key /\ f.by = "none" /\ f.at = 1 /\ f.feed = none
  BY <1>1 DEF Frame, Frames
<1> HIDE DEF f
<1>3. calls' = << f >>
  BY DEF f
<1>4. /\ calls' \in Seq(Frames) /\ Len(calls') = 1 /\ DOMAIN calls' = {1} /\ calls'[1] = f
      /\ calls' # <<>>
  BY <1>2, <1>3
<1>5. FeedInv'
  BY <1>2, <1>4, IdleFacts DEF FeedInv, FeedsAreNotNested, none
<1> QED
  BY <1>2, <1>4, <1>5

LEMMA EventFacts ==
  ASSUME KeysTypeInv, NEW code \in Codes, NEW release \in BOOLEAN
  PROVE  EventOf(code, release) \in KeyEvents /\ EventOf(code, release).code = code
         /\ EventOf(code, release).release = release
<1>1. \A k : ModifierOf(k) \in {"shift", "control", "none"}
  BY DEF ModifierOf
<1>2. Modifiers \in SUBSET {"shift", "control", "caps"}
  BY <1>1 DEF Modifiers
<1>3. code \in STRING
  BY KeysAssumption
<1> QED
  BY <1>2, <1>3 DEF EventOf, KeyEvents

LEMMA PressKeyKeeps ==
  ASSUME KeysInv, NEW code \in Codes, PressKey(code)
  PROVE  KeysInv' /\ RawGoes(context, context')
<1> DEFINE key == EventOf(code, FALSE)
<1>1. /\ calls = <<>> /\ held' = held \cup {code} /\ caps' \in BOOLEAN
      /\ UNCHANGED <<context, chordVars, redirecting, interrupted>>
  BY DEF PressKey, Idle, KeysInv, KeysTypeInv, binderVars
<1>2. key \in KeyEvents /\ key.code = code /\ ~key.release
  BY EventFacts DEF KeysInv
<1>3. calls' = << Frame(key) >>
  BY DEF PressKey
<1> HIDE DEF key
<1>4. /\ calls' \in Seq(Frames) /\ calls' # <<>> /\ calls'[1].key = key /\ FeedInv'
  BY <1>1, <1>2, <1>3, FirstCall
<1>5. HeldInv'
  BY <1>1, <1>2, <1>4, IdleFacts DEF KeysInv, HeldInv, ChordComposerFrom, chordVars
<1>6. held' \subseteq STRING
  BY <1>1, KeysAssumption DEF KeysInv, KeysTypeInv
<1> QED
  BY <1>1, <1>4, <1>5, <1>6
  DEF KeysInv, KeysTypeInv, chordVars, Ready, Calm, Sound, IsComposing, RawGoes

LEMMA LiftKeyKeeps ==
  ASSUME KeysInv, NEW code \in Codes, LiftKey(code)
  PROVE  KeysInv' /\ RawGoes(context, context')
<1> DEFINE key == EventOf(code, TRUE)
<1>1. /\ calls = <<>> /\ held' = held \ {code} /\ caps' = caps
      /\ UNCHANGED <<context, chordVars, redirecting, interrupted>>
  BY DEF LiftKey, Idle, binderVars
<1>2. key \in KeyEvents /\ key.code = code /\ key.release
  BY EventFacts DEF KeysInv
<1>3. calls' = << Frame(key) >>
  BY DEF LiftKey
<1> HIDE DEF key
<1>4. /\ calls' \in Seq(Frames) /\ calls' # <<>> /\ calls'[1].key = key /\ FeedInv'
      /\ calls'[1].by = "none" /\ calls'[1].at = 1
  BY <1>1, <1>2, <1>3, FirstCall
<1>5. ~interrupted' => pressed' \subseteq held' \cup Released'
  <2> SUFFICES ASSUME ~interrupted, NEW k \in pressed
               PROVE  k \in held' \cup Released'
    BY <1>1 DEF chordVars
  <2>1. k \in held /\ k \in ChordKeys /\ ChordComposerFrom(1)
    BY <1>1, IdleFacts DEF KeysInv, KeysTypeInv, HeldInv
  <2>2. k = code => k \in Released'
    BY <1>2, <1>4, <2>1 DEF Released, ChordComposerFrom
  <2> QED
    BY <1>1, <2>1, <2>2
<1>6. HeldInv'
  BY <1>1, <1>2, <1>4, <1>5 DEF KeysInv, HeldInv, ChordComposerFrom, chordVars
<1> QED
  BY <1>1, <1>4, <1>6
  DEF KeysInv, KeysTypeInv, chordVars, Ready, Calm, Sound, IsComposing, RawGoes

\* What the frontend does to the context between two keys.
LEMMA BetweenKeys ==
  ASSUME KeysInv, calls = <<>>, Switched(context, context'), interrupted' \in BOOLEAN,
         ~interrupted' => ~interrupted,
         pressed # {} /\ context'.ascii_mode => context.ascii_mode \/ interrupted',
         UNCHANGED <<chordVars, redirecting, calls, keyboardVars>>
  PROVE  KeysInv' /\ RawGoes(context, context')
<1>1. Ready(context)' /\ RawGoes(context, context') /\ context'.sending = context.sending
  BY DEF KeysInv, Ready, Calm, Kept, Switched
<1>2. FeedInv'
  BY <1>1 DEF KeysInv, FeedInv, FeedsAreNotNested
<1>3. HeldInv'
  BY DEF KeysInv, HeldInv, Released, ChordComposerFrom, chordVars, keyboardVars
<1> QED
  BY <1>1, <1>2, <1>3 DEF KeysInv, KeysTypeInv, chordVars, keyboardVars

LEMMA RimeSetAsciiModeKeeps ==
  ASSUME KeysInv, NEW mode \in BOOLEAN, RimeSetAsciiMode(mode)
  PROVE  KeysInv' /\ RawGoes(context, context')
<1>1. /\ calls = <<>> /\ context' = SetAsciiMode(context, mode) /\ Ready(context)
      /\ interrupted' = (interrupted \/ (pressed # {} /\ context'.ascii_mode # context.ascii_mode))
      /\ UNCHANGED <<chordVars, redirecting, calls, keyboardVars>>
  BY DEF RimeSetAsciiMode, Idle, NoteSwitch, KeysInv, binderVars
<1>2. Switched(context, context')
  BY <1>1, SetAsciiModeFacts, SameSwitched DEF Switched, Ready
<1>3. interrupted' \in BOOLEAN /\ (~interrupted' => ~interrupted)
  BY <1>1
<1>4. pressed # {} /\ context'.ascii_mode => context.ascii_mode \/ interrupted'
  BY <1>1
<1> QED
  BY <1>1, <1>2, <1>3, <1>4, BetweenKeys

LEMMA RimeClearCompositionKeeps ==
  ASSUME KeysInv, RimeClearComposition
  PROVE  KeysInv' /\ RawGoes(context, context')
<1>1. /\ calls = <<>> /\ context' = Clear(context) /\ Ready(context)
      /\ UNCHANGED <<chordVars, redirecting, calls, keyboardVars, interrupted>>
  BY DEF RimeClearComposition, Idle, KeysInv, binderVars
<1>2. Switched(context, context') /\ (context'.ascii_mode => context.ascii_mode)
  BY <1>1, ClearFacts, FollowsSwitched
<1>3. interrupted' \in BOOLEAN
  BY <1>1 DEF KeysInv, KeysTypeInv
<1> QED
  BY <1>1, <1>2, <1>3, BetweenKeys

\* Steps that change nothing that the invariant is about.
LEMMA QuietStep ==
  ASSUME KeysInv,
         UNCHANGED <<context, chordVars, redirecting, calls, keyboardVars, interrupted>>
  PROVE  KeysInv' /\ RawGoes(context, context')
<1>1. Ready(context)' /\ RawGoes(context, context')
  BY DEF KeysInv, Ready, Calm, Sound, IsComposing, RawGoes
<1>2. FeedInv'
  BY DEF KeysInv, FeedInv, FeedsAreNotNested
<1>3. HeldInv'
  BY DEF KeysInv, HeldInv, Released, ChordComposerFrom, chordVars, keyboardVars
<1> QED
  BY <1>1, <1>2, <1>3 DEF KeysInv, KeysTypeInv, chordVars, keyboardVars

-----------------------------------------------------------------------------
LEMMA KeysInitInv ==
  ASSUME KeysInit
  PROVE  KeysInv
<1> DEFINE none == <<>>
<1>1. none \in Seq(STRING) /\ none \in Seq(Frames) /\ DOMAIN none = {}
  OBVIOUS
<1>2. /\ calls = none
      /\ context = [ input |-> none, phony |-> FALSE, selected |-> FALSE, paging |-> FALSE,
                     ascii_mode |-> FALSE, temporary |-> FALSE, chording |-> FALSE, raw |-> none,
                     editing |-> FALSE, sending |-> FALSE ]
  BY DEF KeysInit, NewContext
<1>3. Ready(context) /\ ~context.sending /\ ~context.ascii_mode
  BY <1>1, <1>2 DEF Ready, Calm, Sound, ContextType
<1>4. FeedInv
  BY <1>1, <1>2, <1>3 DEF KeysInit, FeedInv, FeedsAreNotNested
<1>5. KeysTypeInv
  BY <1>1, <1>2 DEF KeysInit, KeysTypeInv
<1>6. HeldInv
  BY DEF KeysInit, HeldInv
<1> QED
  BY <1>3, <1>4, <1>5, <1>6 DEF KeysInv

LEMMA KeysNextInv ==
  ASSUME KeysInv, [KeysNext]_keyVars
  PROVE  KeysInv' /\ RawGoes(context, context')
<1>1. CASE UNCHANGED keyVars
  BY <1>1, QuietStep DEF keyVars, chordVars, keyboardVars
<1>2. CASE ProcessKey
  BY <1>2, AsciiComposerPasses, RecognizerPasses, SpellerPasses, SelectorPasses,
     ExpressEditorPasses, UnhandledPasses, PassesKeeps, ChordComposerKeeps, KeyBinderKeeps,
     FeedNextKeeps, FeedDoneKeeps, Zenon DEF ProcessKey
<1>3. CASE \E code \in Codes : PressKey(code) \/ LiftKey(code)
  BY <1>3, PressKeyKeeps, LiftKeyKeeps
<1>4. CASE ToggleExpires
  BY <1>4, QuietStep DEF ToggleExpires, binderVars
<1>5. CASE \E mode \in BOOLEAN : RimeSetAsciiMode(mode)
  BY <1>5, RimeSetAsciiModeKeeps
<1>6. CASE RimeClearComposition
  BY <1>6, RimeClearCompositionKeeps
<1> QED
  BY <1>1, <1>2, <1>3, <1>4, <1>5, <1>6 DEF KeysNext

\* Every state that keys, the clock and the frontend lead to meets the invariant.
THEOREM KeysInvariant == KeysSpec => []KeysInv
<1>1. KeysInit => KeysInv
  BY KeysInitInv
<1>2. KeysInv /\ [KeysNext]_keyVars => KeysInv'
  BY KeysNextInv
<1> QED
  BY <1>1, <1>2, PTL DEF KeysSpec

\* Neither ChordComposer nor KeyBinder is called by the keys that it feeds to the
\* engine to feed more: their flags keep Engine::ProcessKey from nesting without end
\* (key_binder.cc redirecting_, chord_composer.cc sending_chord_).
THEOREM NoNestedFeeds == KeysSpec => []FeedsAreNotNested
<1>1. KeysInv => FeedsAreNotNested
  BY DEF KeysInv, FeedInv
<1> QED
  BY <1>1, KeysInvariant, PTL

\* Between two keys, ChordComposer takes no key to be pressed that is not held
\* (pressed_keys), unless the mode was switched in the middle of a chord or a binding
\* pressed a key; and the ASCII mode that was switched on for a composition has been
\* left with it (AsciiComposer::OnContextUpdate).
THEOREM ProcessorsAreInStep == KeysSpec => []ProcessorsFollow
<1>1. KeysInv => PressedKeysAreHeld
  BY IdleFacts DEF PressedKeysAreHeld, Idle
<1>2. KeysInv => TemporaryAsciiEnds
  BY DEF KeysInv, Ready, Sound, TemporaryAsciiEnds
<1>3. KeysInv => ProcessorsFollow
  BY <1>1, <1>2 DEF ProcessorsFollow
<1> QED
  BY <1>3, KeysInvariant, PTL

\* Whatever ends a composition, the characters typed for it are forgotten
\* (ChordComposer::OnContextUpdate).
THEOREM RawInputIsForgotten == KeysSpec => RawInputEnds
<1>1. KeysInv /\ [KeysNext]_keyVars
        => [context.input # <<>> /\ context'.input = <<>> => context'.raw = <<>>]_context
  BY KeysNextInv DEF RawGoes
<1> QED
  BY <1>1, KeysInvariant, PTL DEF KeysSpec, RawInputEnds
=============================================================================
