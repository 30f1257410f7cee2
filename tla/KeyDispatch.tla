----------------------------- MODULE KeyDispatch -----------------------------
(***************************************************************************)
(* The way of a key through the processors of a session:                   *)
(* ConcreteEngine::ProcessKey (engine.cc) and the processors that keep     *)
(* state of their own or feed keys back to the engine, AsciiComposer,      *)
(* Recognizer, ChordComposer and KeyBinder (gear/*.cc).  What Speller,     *)
(* Selector and Editor do to a composition is the subject of module        *)
(* Editor; here it is cut down to what these processors ask about it.      *)
(*                                                                         *)
(* A processor may feed keys to the engine while it processes one.  So     *)
(* "calls" is a stack: each frame has its key, the processor that has it   *)
(* now, who is feeding keys in its behalf and those left to be fed.  One   *)
(* action is one call of a processor, with everything that the update and  *)
(* option notifiers bring about within it.                                 *)
(***************************************************************************)
EXTENDS Integers, Sequences, SequencesExt, FiniteSets

CONSTANTS
  Processors,    \* engine/processors, in the order of the schema
  Letters,       \* speller/alphabet
  Printables,    \* the keys that are characters, with codes 0x20 to 0x7e
  ChordKeys,     \* chord_composer/alphabet
  Output,        \* what a set of chord keys is sent as: sequences of keys
  FirstRelease,  \* chord_composer/finish_chord_on_first_key_release
  SwitchKey,     \* ascii_composer/switch_key: keys and styles
  GoodOldCaps,   \* ascii_composer/good_old_caps_lock
  Bindings,      \* key_binder/bindings of each key that has some
  Recognized,    \* the inputs that a pattern of recognizer matches to the end
  Codes,         \* the keys of the keyboard
  MaxInput,      \* bound on the length of the input to which the user adds keys
  MaxHeld,       \* bound on the keys held at a time
  MaxCalls       \* bound on the nesting of calls of ProcessKey

KeyEvents ==
  [ code : STRING, release : BOOLEAN, mods : SUBSET {"shift", "control", "caps"} ]

\* Chords are sent as keys, and bindings press keys or toggle ascii_mode.
ASSUME KeysAssumption ==
  /\ Processors \in Seq(STRING)
  /\ Letters \subseteq STRING /\ Printables \subseteq STRING /\ Codes \subseteq STRING
  /\ "." \in Printables
  /\ ChordKeys \subseteq STRING
  /\ \A chord \in SUBSET ChordKeys : chord # {} => Output[chord] \in Seq(KeyEvents)
  /\ \A key \in DOMAIN Bindings :
       Bindings[key] \in Seq([ whence : STRING, toggle : BOOLEAN, target : Seq(KeyEvents) ])

\* The keys of chords are no modifiers, and no release of a key is bound.
ASSUME ChordsAssumption ==
  /\ ChordKeys \cap {"Shift_L", "Control_L", "Caps_Lock", "Eisu_toggle"} = {}
  /\ \A key \in DOMAIN Bindings : ~key.release

VARIABLES
  context,       \* what the notifiers of the context act on (see ContextType)
  modifier,      \* AsciiComposer: the one of *_key_pressed_ that is set, or "none"
  fresh,         \* AsciiComposer: it is, and toggle_expired_ has not passed
  with_caps,     \* AsciiComposer::toggle_with_caps_
  pressed,       \* ChordingState::pressed_keys
  recognized,    \* ChordingState::recognized_chord
  last_key,      \* KeyBinder::last_key_ if it is a period or comma, or "none"
  redirecting,   \* KeyBinder::redirecting_
  calls,         \* the calls of ProcessKey under way
  held,          \* the keys that the user holds down
  caps,          \* whether Caps Lock is on
  interrupted    \* a chord was held when keys stopped to reach ChordComposer, or
                 \* when a binding pressed a key (history only)

asciiVars    == <<modifier, fresh, with_caps>>
chordVars    == <<pressed, recognized>>
binderVars   == <<last_key, redirecting>>
keyboardVars == <<held, caps>>
keyVars == <<context, modifier, fresh, with_caps, pressed, recognized,
             last_key, redirecting, calls, held, caps, interrupted>>

Key(code) == [ code |-> code, release |-> FALSE, mods |-> {} ]

-----------------------------------------------------------------------------
(* The context.  "phony" is the placeholder segment that shows a chord     *)
(* being typed, and it may have been "selected"; "temporary" says that AsciiComposer listens to updates;    *)
(* "chording", "raw", "editing" and "sending" are members of ChordComposer *)

NewContext ==
  [ input |-> <<>>, phony |-> FALSE, selected |-> FALSE, paging |-> FALSE,
    ascii_mode |-> FALSE, temporary |-> FALSE, chording |-> FALSE, raw |-> <<>>,
    editing |-> FALSE, sending |-> FALSE ]

IsComposing(c) == c.input # <<>> \/ c.phony
HasMenu(c)     == c.input # <<>>

\* Mutant of LeaveTemporaryAscii: the mode outlives the composition.
LeaveTemporaryAsciiNever(c) == c

\* AsciiComposer::OnContextUpdate
LeaveTemporaryAscii(c) ==
  IF c.temporary /\ ~IsComposing(c)
  THEN [ c EXCEPT !.temporary = FALSE, !.ascii_mode = FALSE ]
  ELSE c

\* Mutant of TrackComposition: what is left by keys of the chord is not forgotten.
TrackCompositionUnlessEditing(c) ==
  IF IsComposing(c) THEN [ c EXCEPT !.chording = TRUE ]
  ELSE IF ~c.chording THEN c
  ELSE [ c EXCEPT !.chording = FALSE, !.raw = IF ~c.editing THEN <<>> ELSE @ ]

\* ChordComposer::OnContextUpdate
TrackComposition(c) ==
  IF IsComposing(c) THEN [ c EXCEPT !.chording = TRUE ]
  ELSE IF ~c.chording THEN c
  ELSE [ c EXCEPT !.chording = FALSE,
                  !.raw = IF ~c.editing \/ c.sending THEN <<>> ELSE @ ]

\* The update notifier of the context.
Update(c) == LeaveTemporaryAscii(TrackComposition(c))

\* A new input is cut up anew: placeholder and page are gone.
WithInput(c, text) ==
  Update([ c EXCEPT !.input = text, !.phony = FALSE, !.selected = FALSE, !.paging = FALSE ])
PushInput(c, ch) == WithInput(c, Append(c.input, ch))
Clear(c)         == WithInput(c, <<>>)
CommitComposition(c) == IF IsComposing(c) THEN Clear(c) ELSE c

\* Context::RefreshNonConfirmedComposition: segments that are not confirmed are
\* dropped, and those of the input made again; a selected placeholder stays.
Refresh(c) ==
  IF IsComposing(c) /\ ~c.selected
  THEN Update([ c EXCEPT !.phony = FALSE, !.paging = FALSE ])
  ELSE c

\* Context::ConfirmCurrentSelection: the input is confirmed as a whole, and
\* committed, or in part; it fails for a placeholder, but has selected it.
ConfirmCurrentSelection(c) ==
  IF c.input = <<>> THEN { [ c EXCEPT !.selected = c.phony ] } ELSE {c, Clear(c)}

\* Context::set_option("ascii_mode") and ConcreteEngine::OnOptionUpdate
SetAsciiMode(c, mode) == Refresh([ c EXCEPT !.ascii_mode = mode ])

-----------------------------------------------------------------------------
(* ConcreteEngine::ProcessKey                                              *)

Top == calls[Len(calls)]
Frame(key) == [ key |-> key, at |-> 1, by |-> "none", feed |-> <<>> ]

Calling(processor) ==
  /\ calls # <<>>
  /\ Top.by = "none"
  /\ Top.at \in DOMAIN Processors
  /\ Processors[Top.at] = processor

\* Mutant of Noop: the loop does not go on to the next processor.
NoopAgain == UNCHANGED calls

\* The results of a processor: ask the next one, stop asking, done.
Noop     == calls' = [ calls EXCEPT ![Len(calls)].at = @ + 1 ]
Rejected == calls' = [ calls EXCEPT ![Len(calls)].at = Len(Processors) + 1 ]
Accepted == calls' = Front(calls)

\* The processor feeds keys first; the key is accepted when they are processed.
Feeds(processor, keys) ==
  calls' = [ calls EXCEPT ![Len(calls)].by = processor, ![Len(calls)].feed = keys ]

\* No processor has taken the key.  It is announced (ChordComposer::OnUnhandledKey),
\* and a chord whose key is left over commits it itself (ChordComposer::FinishChord).
Unhandled ==
  /\ calls # <<>>
  /\ Top.by = "none"
  /\ Top.at = Len(Processors) + 1
  /\ context' =
       IF \/ Top.key.code \in Printables /\ Top.key.mods \subseteq {"shift"}
          \/ Len(calls) > 1 /\ calls[Len(calls) - 1].by = "chord_composer"
       THEN [ context EXCEPT !.raw = <<>> ]
       ELSE context
  /\ calls' = Front(calls)
  /\ UNCHANGED <<asciiVars, chordVars, binderVars, keyboardVars, interrupted>>

FeedNext ==
  /\ calls # <<>>
  /\ Top.feed # <<>>
  /\ Len(calls) < MaxCalls
  /\ calls' = Append([ calls EXCEPT ![Len(calls)].feed = Tail(@) ], Frame(Head(Top.feed)))
  /\ UNCHANGED <<context, asciiVars, chordVars, binderVars, keyboardVars, interrupted>>

\* What ChordComposer and KeyBinder do when all keys are fed.
FeedDone ==
  /\ calls # <<>>
  /\ Top.by # "none"
  /\ Top.feed = <<>>
  /\ \/ /\ Top.by = "chord_composer"
        /\ context' = [ context EXCEPT !.sending = FALSE, !.editing = FALSE ]
        /\ recognized' = {}
        /\ UNCHANGED redirecting
     \/ /\ Top.by = "key_binder"
        /\ redirecting' = FALSE
        /\ UNCHANGED <<context, recognized>>
  /\ Accepted
  /\ UNCHANGED <<asciiVars, pressed, last_key, keyboardVars, interrupted>>

-----------------------------------------------------------------------------
(* AsciiComposer                                                           *)

ModifierOf(code) == CASE code = "Shift_L"   -> "shift"
                      [] code = "Control_L" -> "control"
                      [] OTHER              -> "none"

\* AsciiComposer::SwitchAsciiMode
SwitchAsciiMode(c, mode, style) ==
  LET off == [ c EXCEPT !.temporary = FALSE ]
  IN  { SetAsciiMode(d, mode) :
          d \in IF ~IsComposing(c) THEN {c}
                ELSE CASE style = "inline_ascii" -> { [ off EXCEPT !.temporary = mode ] }
                       [] style = "commit_text"  -> ConfirmCurrentSelection(off)
                       [] style = "commit_code"  -> { CommitComposition([ off EXCEPT !.phony = c.selected ]) }
                       [] OTHER                  -> { Clear(off) } }

\* Keys no longer reach ChordComposer, or reach it again, while a chord is held.
NoteSwitch ==
  interrupted' = (interrupted \/ (pressed # {} /\ context'.ascii_mode # context.ascii_mode))

\* AsciiComposer::ToggleAsciiModeWithKey
ToggleAsciiModeWithKey(code) ==
  LET style == SwitchKey[code]
      mode  == CASE style = "set_ascii_mode"   -> TRUE
                 [] style = "unset_ascii_mode" -> FALSE
                 [] OTHER                      -> ~context.ascii_mode
  IN  IF code \notin DOMAIN SwitchKey \/ mode = context.ascii_mode
      THEN UNCHANGED <<context, with_caps, interrupted>>
      ELSE /\ context' \in SwitchAsciiMode(context, mode, style)
           /\ with_caps' = (code = "Caps_Lock")
           /\ NoteSwitch

\* AsciiComposer::ProcessCapsLock, when the Caps Lock key is a switch key; it takes
\* the key (Handles) or leaves it to the rest of ProcessKeyEvent.
CapsStyle ==
  IF SwitchKey["Caps_Lock"] \in {"inline_ascii", "set_ascii_mode", "unset_ascii_mode"}
  THEN "clear" ELSE SwitchKey["Caps_Lock"]
CapsHandles(key) ==
  "Caps_Lock" \in DOMAIN SwitchKey /\ (key.code = "Caps_Lock" \/ "caps" \in key.mods)

ProcessCapsLock(key) ==
  \/ /\ key.code = "Caps_Lock" /\ ~key.release
     /\ modifier' = "none"
     /\ IF GoodOldCaps /\ ~with_caps /\ context.ascii_mode
        THEN Rejected /\ UNCHANGED <<context, with_caps, interrupted>>
        ELSE /\ context' \in SwitchAsciiMode(context, "caps" \notin key.mods, CapsStyle)
             /\ with_caps' = ("caps" \notin key.mods)
             /\ NoteSwitch
             /\ IF GoodOldCaps THEN Rejected ELSE Accepted
  \/ /\ key.code = "Caps_Lock" /\ key.release
     /\ Rejected
     /\ UNCHANGED <<context, modifier, with_caps, interrupted>>
  \/ /\ key.code # "Caps_Lock"
     /\ IF /\ ~GoodOldCaps /\ ~key.release
           /\ "control" \notin key.mods /\ key.code \in Letters
        THEN Accepted
        ELSE Rejected
     /\ interrupted' = (interrupted \/ (key.release /\ key.code \in pressed))
     /\ UNCHANGED <<context, modifier, with_caps>>

\* A modifier key by itself switches when it is released shortly after.
ProcessModifier(key) ==
  IF key.release
  THEN /\ IF modifier = ModifierOf(key.code) /\ fresh
          THEN ToggleAsciiModeWithKey(key.code)
          ELSE UNCHANGED <<context, with_caps, interrupted>>
       /\ modifier' = "none"
  ELSE /\ modifier' = IF modifier = "none" THEN ModifierOf(key.code) ELSE modifier
       /\ UNCHANGED <<context, with_caps, interrupted>>

AsciiComposer ==
  LET key == Top.key
  IN  /\ Calling("ascii_composer")
      /\ \/ /\ {"shift", "control"} \subseteq key.mods
            /\ modifier' = "none"
            /\ Noop
            /\ UNCHANGED <<context, with_caps, interrupted>>
         \/ /\ ~({"shift", "control"} \subseteq key.mods)
            /\ CapsHandles(key)
            /\ ProcessCapsLock(key)
         \/ /\ ~({"shift", "control"} \subseteq key.mods)
            /\ ~CapsHandles(key)
            /\ \/ /\ key.code = "Eisu_toggle"
                  /\ IF key.release
                     THEN Rejected /\ UNCHANGED <<context, modifier, with_caps, interrupted>>
                     ELSE modifier' = "none" /\ ToggleAsciiModeWithKey(key.code) /\ Accepted
               \/ /\ ModifierOf(key.code) # "none"
                  /\ ProcessModifier(key)
                  /\ Noop
               \/ /\ key.code # "Eisu_toggle" /\ ModifierOf(key.code) = "none"
                  /\ modifier' = "none"
                  /\ LET plain == /\ "control" \notin key.mods
                                  /\ ~("shift" \in key.mods /\ key.code = " ")
                                  /\ context.ascii_mode
                     IN  \/ /\ plain /\ ~IsComposing(context)
                            /\ Rejected
                            /\ UNCHANGED context
                         \/ /\ plain /\ IsComposing(context)
                            /\ ~key.release /\ key.code \in Printables
                            /\ context' = PushInput(context, key.code)
                            /\ Accepted
                         \/ /\ ~plain \/ (IsComposing(context) /\ (key.release \/ key.code \notin Printables))
                            /\ Noop
                            /\ UNCHANGED context
                  /\ UNCHANGED <<with_caps, interrupted>>
      /\ fresh' = (modifier' # "none" /\ (fresh \/ modifier = "none"))
      /\ UNCHANGED <<chordVars, binderVars, keyboardVars>>

-----------------------------------------------------------------------------
(* Recognizer                                                              *)

Recognizer ==
  LET key == Top.key
  IN  /\ Calling("recognizer")
      /\ \/ /\ ~key.release /\ "control" \notin key.mods
            /\ key.code \in Printables \ {" "}
            /\ Append(context.input, key.code) \in Recognized
            /\ context' = PushInput(context, key.code)
            /\ Accepted
         \/ /\ \/ key.release \/ "control" \in key.mods
               \/ key.code \notin Printables \ {" "}
               \/ Append(context.input, key.code) \notin Recognized
            /\ Noop
            /\ UNCHANGED context
      /\ UNCHANGED <<asciiVars, chordVars, binderVars, keyboardVars, interrupted>>

-----------------------------------------------------------------------------
(* ChordComposer                                                           *)

\* ChordComposer::ClearChord: the prompt goes, and with it a placeholder that is
\* all there is.
ClearChord(c) == IF c.phony THEN Clear(c) ELSE c

\* ChordComposer::UpdateChord
UpdateChord(c, chord) ==
  IF chord \in { {}, {" "} } THEN ClearChord(c)
  ELSE [ c EXCEPT !.phony = (c.input = <<>>) ]

\* ChordComposer::ProcessFunctionKey.  Return is bound to commit_raw_input.
CommitRawInput(c) ==
  CommitComposition([ WithInput(c, c.raw) EXCEPT !.raw = <<>>, !.phony = FALSE ])

ProcessFunctionKey(key, c) ==
  \/ /\ key = Key("Return") /\ c.raw # <<>>
     /\ context' = CommitRawInput(c)
     /\ Accepted
  \/ /\ ~(key = Key("Return") /\ c.raw # <<>>)
     /\ context' = IF ~key.release /\ key.code \in {"BackSpace", "Escape"}
                   THEN [ c EXCEPT !.raw = <<>> ] ELSE c
     /\ Noop

\* The characters typed from the beginning of a composition on.
BufferRaw(c, key) ==
  IF key.release \/ key.code \notin Printables THEN c
  ELSE IF key.mods \cap {"control", "caps"} # {} THEN [ c EXCEPT !.raw = <<>> ]
  ELSE IF ~IsComposing(c) \/ c.raw # <<>> THEN [ c EXCEPT !.raw = Append(@, key.code) ]
  ELSE c

FinishChordConditionIsMet(down) == FirstRelease \/ down = {}

\* ChordComposer::ProcessChordingKey of a chord key, the end of FinishChord apart
ProcessChordingKey(key, c) ==
  LET edited == [ c EXCEPT !.editing = TRUE ]
      k      == key.code
  IN  IF ~key.release
      THEN /\ pressed' = pressed \cup {k}
           /\ recognized' = IF k \in pressed THEN recognized ELSE recognized \cup {k}
           /\ context' = [ IF k \in pressed \cup recognized THEN edited
                           ELSE UpdateChord(edited, recognized \cup {k})
                           EXCEPT !.editing = FALSE ]
           /\ Accepted
      ELSE /\ pressed' = pressed \ {k}
           /\ IF k \in pressed /\ FinishChordConditionIsMet(pressed') /\ recognized # {}
              THEN LET cleared == ClearChord(edited)
                       keys    == Output[recognized]
                   IN  IF keys = <<>>
                       THEN /\ context' = [ cleared EXCEPT !.editing = FALSE ]
                            /\ recognized' = {}
                            /\ Accepted
                       ELSE /\ context' = [ cleared EXCEPT !.sending = TRUE ]
                            /\ Feeds("chord_composer", keys)
                            /\ UNCHANGED recognized
              ELSE /\ context' = c
                   /\ UNCHANGED recognized
                   /\ IF k \in pressed THEN Accepted ELSE Rejected

\* ProcessChordingKey of any other key, or of a key combination.
ForgetChord(key) == pressed' = {} /\ recognized' = {}

IsSending(c)      == c.sending

ChordComposer ==
  LET key == Top.key
      c   == BufferRaw(context, key)
      chording == key.mods = {} /\ key.code \in ChordKeys
  IN  /\ Calling("chord_composer")
      /\ \/ /\ context.ascii_mode
            /\ Noop
            /\ UNCHANGED <<context, chordVars>>
         \/ /\ ~context.ascii_mode /\ IsSending(context)
            /\ ProcessFunctionKey(key, context)
            /\ UNCHANGED chordVars
         \/ /\ ~context.ascii_mode /\ ~IsSending(context) /\ chording
            /\ ProcessChordingKey(key, c)
         \/ /\ ~context.ascii_mode /\ ~IsSending(context) /\ ~chording
            /\ ProcessFunctionKey(key, ClearChord(c))
            /\ ForgetChord(key)
      /\ interrupted' = ((interrupted \/ redirecting) /\ pressed' # {})
      /\ UNCHANGED <<asciiVars, binderVars, keyboardVars>>

-----------------------------------------------------------------------------
(* KeyBinder                                                               *)

\* KeyBinder::ReinterpretPagingKey: a period that turned the page was the end of a
\* syllable when a letter follows.  Whether the period is put into the input now:
PeriodIsInput(key) ==
  /\ ~key.release /\ key.mods = {}
  /\ last_key = "." /\ key.code \in Letters
  /\ context.input # <<>> /\ Last(context.input) # "."

RememberKey(key) ==
  last_key' = IF key.release THEN last_key
              ELSE IF /\ key.mods = {} /\ key.code \in {".", ","}
                      /\ ~(key.code = "." /\ last_key # "none")
              THEN key.code
              ELSE "none"

\* KeyBindingConditions
KeyBindingConditions(c) ==
  {"always"} \cup { w \in {"composing", "has_menu", "paging"} :
                      CASE w = "composing" -> IsComposing(c)
                        [] w = "has_menu"  -> HasMenu(c) /\ ~c.ascii_mode
                        [] w = "paging"    -> HasMenu(c) /\ c.paging }

\* The bindings of a key whose condition is met; KeyBinder::ProcessKeyEvent performs
\* the first one.
Applicable(key) ==
  { i \in IF key \in DOMAIN Bindings THEN DOMAIN Bindings[key] ELSE {} :
      Bindings[key][i].whence \in KeyBindingConditions(context) }

\* KeyBinder::PerformKeyBinding
PerformKeyBinding(binding) ==
  \/ /\ binding.toggle
     /\ context' = SetAsciiMode(context, ~context.ascii_mode)
     /\ Accepted
     /\ NoteSwitch
     /\ UNCHANGED redirecting
  \/ /\ ~binding.toggle
     /\ redirecting' = TRUE
     /\ Feeds("key_binder", binding.target)
     /\ UNCHANGED <<context, interrupted>>

\* Mutant of IsRedirected: a key that a binding presses is bound again.
IsRedirectedNever == FALSE
IsRedirected      == redirecting

KeyBinder ==
  LET key == Top.key
  IN  /\ Calling("key_binder")
      /\ \/ /\ IsRedirected
            /\ Noop
            /\ UNCHANGED <<context, binderVars, interrupted>>
         \/ /\ ~IsRedirected /\ PeriodIsInput(key)
            /\ context' = PushInput(context, ".")
            /\ Noop
            /\ RememberKey(key)
            /\ UNCHANGED <<redirecting, interrupted>>
         \/ /\ ~IsRedirected /\ ~PeriodIsInput(key)
            /\ RememberKey(key)
            /\ \/ /\ Applicable(key) = {}
                  /\ Noop
                  /\ UNCHANGED <<context, redirecting, interrupted>>
               \/ \E i \in Applicable(key) :
                    /\ \A j \in Applicable(key) : i <= j
                    /\ PerformKeyBinding(Bindings[key][i])
      /\ UNCHANGED <<asciiVars, chordVars, keyboardVars>>

-----------------------------------------------------------------------------
(* What the other processors do to the composition                         *)

\* Speller::ProcessKeyEvent
Speller ==
  LET key == Top.key
  IN  /\ Calling("speller")
      /\ IF ~key.release /\ "control" \notin key.mods /\ key.code \in Letters
         THEN context' = PushInput(context, key.code) /\ Accepted
         ELSE Noop /\ UNCHANGED context
      /\ UNCHANGED <<asciiVars, chordVars, binderVars, keyboardVars, interrupted>>

\* Selector::ProcessKeyEvent, of the keys that turn pages
Selector ==
  LET key == Top.key
  IN  /\ Calling("selector")
      /\ IF key = Key("Page_Down") /\ HasMenu(context)
         THEN context' = [ context EXCEPT !.paging = TRUE ] /\ Accepted
         ELSE Noop /\ UNCHANGED context
      /\ UNCHANGED <<asciiVars, chordVars, binderVars, keyboardVars, interrupted>>

\* Editor::ProcessKeyEvent of an express_editor: a printable key that is bound to
\* nothing commits the composition and is rejected (Editor::DirectCommit).
EditorActs(c, code) ==
  CASE code = "Return"    -> { CommitComposition(c) }
    [] code = "Escape"    -> { Clear(c) }
    [] code = "BackSpace" -> { CASE c.input # <<>> -> WithInput(c, Front(c.input))
                                 [] c.selected     -> Clear(c)
                                 [] OTHER          -> c }
    [] OTHER -> IF c.input = <<>> THEN { CommitComposition(c) } ELSE ConfirmCurrentSelection(c)

ExpressEditor ==
  LET key == Top.key
  IN  /\ Calling("express_editor")
      /\ \/ /\ key = Key(key.code) /\ key.code \in {"Return", "Escape", "BackSpace", " "}
            /\ IsComposing(context)
            /\ context' \in EditorActs(context, key.code)
            /\ Accepted
         \/ /\ ~key.release /\ "control" \notin key.mods
            /\ key.code \in Printables \ {" "}
            /\ context' = CommitComposition(context)
            /\ Rejected
         \/ /\ \/ key.release \/ "control" \in key.mods
               \/ key.code \notin Printables \cup {"Return", "Escape", "BackSpace"}
               \/ ~IsComposing(context) /\ key.code \notin Printables \ {" "}
               \/ key.mods # {} /\ key.code \notin Printables \ {" "}
            /\ Noop
            /\ UNCHANGED context
      /\ UNCHANGED <<asciiVars, chordVars, binderVars, keyboardVars, interrupted>>

-----------------------------------------------------------------------------
(* The user at the keyboard, the clock and the frontend                    *)

Idle == calls = <<>>

\* The state of the modifiers as it comes with a key: the key itself not counted
\* when it is pressed.
Modifiers ==
  ({ ModifierOf(code) : code \in held } \ {"none"}) \cup (IF caps THEN {"caps"} ELSE {})
EventOf(code, release) == [ code |-> code, release |-> release, mods |-> Modifiers ]

\* A key goes down, or repeats.  Whether Caps Lock changes is up to the system.
PressKey(code) ==
  /\ Idle
  /\ Len(context.input) < MaxInput
  /\ Len(context.raw) < MaxInput
  /\ code \in held \/ Cardinality(held) < MaxHeld
  /\ held' = held \cup {code}
  /\ caps' \in IF code = "Caps_Lock" THEN BOOLEAN ELSE {caps}
  /\ calls' = << Frame(EventOf(code, FALSE)) >>
  /\ UNCHANGED <<context, asciiVars, chordVars, binderVars, interrupted>>

LiftKey(code) ==
  /\ Idle
  /\ code \in held
  /\ held' = held \ {code}
  /\ calls' = << Frame(EventOf(code, TRUE)) >>
  /\ UNCHANGED <<context, asciiVars, chordVars, binderVars, caps, interrupted>>

\* Half a second has passed since the modifier was pressed.
ToggleExpires ==
  /\ Idle
  /\ modifier # "none" /\ fresh
  /\ fresh' = FALSE
  /\ UNCHANGED <<context, modifier, with_caps, chordVars, binderVars, calls,
                 keyboardVars, interrupted>>

\* RimeSetOption(session, "ascii_mode", mode)
RimeSetAsciiMode(mode) ==
  /\ Idle
  /\ context' = SetAsciiMode(context, mode)
  /\ NoteSwitch
  /\ UNCHANGED <<asciiVars, chordVars, binderVars, calls, keyboardVars>>

\* RimeClearComposition
RimeClearComposition ==
  /\ Idle
  /\ context' = Clear(context)
  /\ UNCHANGED <<asciiVars, chordVars, binderVars, calls, keyboardVars, interrupted>>

-----------------------------------------------------------------------------
KeysInit ==
  /\ context = NewContext
  /\ modifier = "none" /\ fresh = FALSE /\ with_caps = FALSE
  /\ pressed = {} /\ recognized = {}
  /\ last_key = "none" /\ redirecting = FALSE
  /\ calls = <<>>
  /\ held = {} /\ caps = FALSE
  /\ interrupted = FALSE

ProcessKey ==
  \/ AsciiComposer \/ Recognizer \/ ChordComposer \/ KeyBinder
  \/ Speller \/ Selector \/ ExpressEditor
  \/ FeedNext \/ FeedDone \/ Unhandled

KeysNext ==
  \/ ProcessKey
  \/ \E code \in Codes : PressKey(code) \/ LiftKey(code)
  \/ ToggleExpires
  \/ \E mode \in BOOLEAN : RimeSetAsciiMode(mode)
  \/ RimeClearComposition

KeysSpec == KeysInit /\ [][KeysNext]_keyVars /\ WF_keyVars(ProcessKey)
-----------------------------------------------------------------------------
(* What the way of a key through the processors keeps.                     *)

\* A processor that feeds keys to the engine is not made to feed keys by one of
\* them: ChordComposer and KeyBinder do not call themselves through
\* Engine::ProcessKey, so that a key comes to an end.
FeedsAreNotNested ==
  \A i, j \in DOMAIN calls :
    calls[i].by = calls[j].by /\ calls[i].by # "none" => i = j

\* The keys that ChordComposer takes to be pressed are held down, unless the mode
\* was switched in the middle of the chord or a binding pressed a key.
PressedKeysAreHeld == Idle /\ ~interrupted => pressed \subseteq held

\* The temporary ASCII mode does not outlive the composition that it was switched
\* on for (AsciiComposer::OnContextUpdate).
TemporaryAsciiEnds == Idle /\ context.temporary => IsComposing(context)

\* What the processors remember of the keys and of the composition agrees with them
\* whenever no key is on its way.
ProcessorsFollow == PressedKeysAreHeld /\ TemporaryAsciiEnds

\* When a composition ends, nothing is left of the characters that were typed for it:
\* a Return would commit them once more (ChordComposer::OnContextUpdate).
RawInputEnds ==
  [][context.input # <<>> /\ context'.input = <<>> => context'.raw = <<>>]_context

\* A key comes to an end.
KeyReturns == ~Idle ~> Idle
=============================================================================
