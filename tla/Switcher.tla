------------------------------ MODULE Switcher ------------------------------
(***************************************************************************)
(* The switches of a schema (switches.cc), the switcher and the menu that  *)
(* it offers (switcher.cc, gear/switch_translator.cc,                      *)
(* gear/schema_list_translator.cc), the key bindings that change options   *)
(* (gear/key_binder.cc), and what the engine does with options and schemas *)
(* (engine.cc): the options of a session, those saved for the next one,    *)
(* and who may change which.                                               *)
(*                                                                         *)
(* A switch has one option that is on or off, or is a radio group of which *)
(* one option is to be on.  Both are records with the names of the         *)
(* options, the value that the schema resets them to (-1: none) and        *)
(* whether they have labels.  Labels, captions and notifications are left  *)
(* out.  Times of access are kept as an order.                             *)
(***************************************************************************)
EXTENDS Integers, Sequences, SequencesExt

CONSTANTS
  OptionNames,   \* the options that are looked at
  Transient,     \* those whose names begin with "_"
  Schemas,       \* the schemas that are installed
  SwitchesOf,    \* the switches of each
  SchemaList,    \* default.yaml: schema_list, entries with their conditions
  ModesOn,       \* the conditions that are met
  SaveOptions,   \* default.yaml: switcher/save_options
  FoldOptions,   \* default.yaml: switcher/fold_options
  FixOrder,      \* default.yaml: switcher/fix_schema_list_order
  NoSchema

Switches ==
  [ type : {"toggle", "radio"}, options : Seq(OptionNames), reset : Int,
    labelled : BOOLEAN ]

\* Every switch of a schema has options of its own, and a group is reset to one of
\* its options.
ASSUME SwitchesAssumption ==
  /\ NoSchema \notin Schemas
  /\ SwitchesOf \in [Schemas -> Seq(Switches)]
  /\ \A schema \in Schemas : \A i \in DOMAIN SwitchesOf[schema] :
       LET sw == SwitchesOf[schema][i]
       IN  /\ sw.options # <<>>
           /\ sw.reset < Len(sw.options) \/ sw.type = "toggle"
           /\ \A j, k \in DOMAIN sw.options : sw.options[j] = sw.options[k] => j = k
           /\ \A n \in DOMAIN SwitchesOf[schema] :
                \A j \in DOMAIN sw.options : \A k \in DOMAIN SwitchesOf[schema][n].options :
                  sw.options[j] = SwitchesOf[schema][n].options[k] => i = n

VARIABLES
  schema,        \* Engine::schema_ of the session
  options,       \* its Context::options_
  active,        \* Switcher::active_, and whether it is the active engine
  folded,        \* its own option "_fold_options"
  menu,          \* the commands that it offers
  menu_schema,   \* the schema whose switches they are, unless another one has been
                 \* selected since (history only)
  highlighted,   \* the one that is highlighted
  saved,         \* user.yaml: var/option
  previous,      \* user.yaml: var/previously_selected_schema
  accessed         \* the schemas by var/schema_access_time, the latest first

switcherVars == <<active, folded, menu, menu_schema, highlighted>>
userVars     == <<saved, previous, accessed>>
sessionVars  == <<schema, options, switcherVars, userVars>>

-----------------------------------------------------------------------------
(* Switches                                                                *)

OptionsOf(sw) == { sw.options[j] : j \in DOMAIN sw.options }

\* The switches of a schema that have an option of that name: at most one.
Having(id, name) ==
  { i \in DOMAIN SwitchesOf[id] : name \in OptionsOf(SwitchesOf[id][i]) }

\* Switches::OptionByName
OptionByName(id, name) == SwitchesOf[id][CHOOSE i \in Having(id, name) : TRUE]

IsRadioOption(id, name) ==
  Having(id, name) # {} /\ OptionByName(id, name).type = "radio"

\* The position in the group of the first option that is on, 0 if none is.
FirstOn(opts, sw) ==
  LET on == { j \in DOMAIN sw.options : opts[sw.options[j]] }
  IN  IF on = {} THEN 0 ELSE CHOOSE j \in on : \A k \in on : j <= k

\* Mutant of RadioSelect: the option is switched on and the others are left alone.
RadioSelectOnly(opts, sw, index) ==
  [ name \in OptionNames |-> opts[name] \/ name = sw.options[index] ]

\* radio_select_option: exactly this option of the group is on.
RadioSelect(opts, sw, index) ==
  [ name \in OptionNames |-> IF name \in OptionsOf(sw)
                             THEN name = sw.options[index]
                             ELSE opts[name] ]

\* Switches::Cycle and Switches::Reset, as positions in the group
Cycle(sw, index) == (index % Len(sw.options)) + 1
ResetIndex(sw)   == IF sw.reset >= 0 THEN sw.reset + 1 ELSE 1

-----------------------------------------------------------------------------
(* The engine                                                              *)

\* ConcreteEngine::InitializeOptions
InitializeOptions(id, opts) ==
  [ name \in OptionNames |->
      IF Having(id, name) = {} \/ OptionByName(id, name).reset < 0
      THEN opts[name]
      ELSE LET sw == OptionByName(id, name)
           IN  IF sw.type = "toggle" THEN sw.reset # 0
                                     ELSE name = sw.options[sw.reset + 1] ]

\* Context::ClearTransientOptions
ClearTransientOptions(opts) ==
  [ name \in OptionNames |-> name \notin Transient /\ opts[name] ]

\* ConcreteEngine::ApplySchema and Switcher::SetActiveSchema
ApplySchema(id) ==
  /\ schema' = id
  /\ options' = InitializeOptions(id, ClearTransientOptions(options))
  /\ previous' = id
  /\ accessed' = << id >> \o SelectSeq(accessed, LAMBDA s : s # id)
  /\ UNCHANGED saved

-----------------------------------------------------------------------------
(* The list of schemas                                                     *)

\* Switcher::ForEachSchemaListEntry: the schemas whose conditions are met.
Listed ==
  LET met == SelectSeq(SchemaList, LAMBDA entry : entry.case \subseteq ModesOn)
  IN  [ i \in DOMAIN met |-> met[i].schema ]

\* Switcher::CreateSchema, for a session that begins
FirstSchema ==
  IF ~FixOrder /\ previous \in ToSet(Listed) THEN previous ELSE Head(Listed)

\* SchemaListTranslation::LoadSchemaList: the current schema, then the others, those
\* used of late first.
SchemaCommand(id) == [ type |-> "schema", id |-> id ]
Others(id) ==
  LET listed == SelectSeq(Listed, LAMBDA s : s # id)
      used   == SelectSeq(accessed, LAMBDA s : s \in ToSet(listed))
      unused == SelectSeq(listed, LAMBDA s : s \notin ToSet(accessed))
      order  == IF FixOrder THEN listed ELSE used \o unused
  IN  [ i \in DOMAIN order |-> SchemaCommand(order[i]) ]

-----------------------------------------------------------------------------
(* The menu of the switcher                                                *)

Labelled(id) == SelectSeq(SwitchesOf[id], LAMBDA sw : sw.labelled)

\* The group of radio options that are shown: SwitchTranslation::LoadSwitches selects,
\* in every group, the first option that is on, or the first one.
Shown(id, name) ==
  /\ IsRadioOption(id, name)
  /\ OptionByName(id, name).labelled
SelectedName(opts, sw) ==
  sw.options[IF FirstOn(opts, sw) = 0 THEN 1 ELSE FirstOn(opts, sw)]
WithGroupsSelected(id, opts) ==
  [ name \in OptionNames |-> IF Shown(id, name)
                             THEN name = SelectedName(opts, OptionByName(id, name))
                             ELSE opts[name] ]

\* Mutant of SaveChanged: only what is switched on is saved.
SaveSwitchedOn(opts) ==
  [ name \in SaveOptions |-> IF opts[name] /\ ~options[name] THEN "on" ELSE saved[name] ]

\* RadioGroup::SelectOption saves the options that it has changed.
SaveChanged(opts) ==
  [ name \in SaveOptions |-> IF opts[name] = options[name] THEN saved[name]
                             ELSE IF opts[name] THEN "on" ELSE "off" ]

\* A switch, one command; a group, one for each option.
Commands(opts, sw) ==
  IF sw.type = "toggle"
  THEN << [ type |-> "switch", option |-> sw.options[1],
            target |-> ~opts[sw.options[1]] ] >>
  ELSE [ j \in DOMAIN sw.options |-> [ type |-> "radio", group |-> sw, index |-> j ] ]

SwitchCommands(id, opts) ==
  FlattenSeq([ i \in DOMAIN Labelled(id) |-> Commands(opts, Labelled(id)[i]) ])

\* Switcher::RefreshMenu: the switches follow the current schema
\* (SchemaListTranslation::Compare); several are folded into one command, which the
\* current schema then stands for as well.
RefreshMenu(fold) ==
  LET opts     == WithGroupsSelected(schema, options)
      switches == SwitchCommands(schema, opts)
      unfold   == [ type |-> "unfold" ]
  IN  /\ options' = opts
      /\ saved' = SaveChanged(opts)
      /\ menu' = (IF fold /\ Len(Labelled(schema)) > 1
                  THEN << unfold, unfold >>
                  ELSE << SchemaCommand(schema) >> \o switches) \o Others(schema)
      /\ menu_schema' = schema
      /\ folded' = fold
      /\ UNCHANGED <<schema, previous, accessed>>

\* Switcher::Activate, by a hotkey
Activate ==
  /\ ~active
  /\ RefreshMenu(FoldOptions)
  /\ active' = TRUE
  /\ highlighted' = 1

\* Switcher::HighlightNextSchema, by the hotkey again
HighlightNextSchema ==
  /\ active
  /\ LET after == { i \in (highlighted + 1) .. Len(menu) : menu[i].type = "schema" }
     IN  highlighted' = IF after = {} THEN 1
                        ELSE CHOOSE i \in after : \A k \in after : i <= k
  /\ UNCHANGED <<schema, options, active, folded, menu, menu_schema, userVars>>

\* The engine's own selector: Up, Down and the pages
Highlight(index) ==
  /\ active
  /\ highlighted' = index
  /\ UNCHANGED <<schema, options, active, folded, menu, menu_schema, userVars>>

\* Switcher::Deactivate; DeactivateAndApply does the same around a command.
Close ==
  /\ active' = FALSE
  /\ menu' = <<>>
  /\ menu_schema' = NoSchema
  /\ highlighted' = 1
  /\ UNCHANGED folded

Deactivate ==
  /\ active
  /\ Close
  /\ UNCHANGED <<schema, options, userVars>>

\* SchemaSelection::Apply
ApplySelection(command) ==
  /\ command.type = "schema"
  /\ \/ command.id # schema /\ ApplySchema(command.id)
     \/ command.id = schema /\ UNCHANGED <<schema, options, userVars>>
  /\ Close

\* Switch::Apply
ApplySwitch(command) ==
  /\ command.type = "switch"
  /\ options' = [ options EXCEPT ![command.option] = command.target ]
  /\ saved' = [ name \in SaveOptions |->
                  IF name = command.option
                  THEN IF command.target THEN "on" ELSE "off"
                  ELSE saved[name] ]
  /\ Close
  /\ UNCHANGED <<schema, previous, accessed>>

\* RadioOption::Apply
ApplyRadio(command) ==
  /\ command.type = "radio"
  /\ LET opts == RadioSelect(options, command.group, command.index)
     IN  options' = opts /\ saved' = SaveChanged(opts)
  /\ Close
  /\ UNCHANGED <<schema, previous, accessed>>

\* FoldedOptions::Apply
Unfold(command) ==
  /\ command.type = "unfold"
  /\ RefreshMenu(FALSE)
  /\ UNCHANGED active

\* Switcher::OnSelect, by a key of the selector, by space or Return on what is
\* highlighted, or by RimeSelectCandidate, which finds the context of the switcher.
OnSelect(index) ==
  /\ active
  /\ \/ ApplySelection(menu[index])
     \/ ApplySwitch(menu[index])
     \/ ApplyRadio(menu[index])
     \/ Unfold(menu[index]) /\ highlighted' = index

-----------------------------------------------------------------------------
(* The actions of KeyBinder.  While the switcher is active it takes all    *)
(* keys, and its own key binder changes its own options only.              *)

Bound == ~active /\ UNCHANGED <<schema, switcherVars, userVars>>

toggle_option(name) ==
  /\ Bound
  /\ options' =
       IF ~IsRadioOption(schema, name)
       THEN [ options EXCEPT ![name] = ~@ ]
       ELSE LET sw == OptionByName(schema, name)
                on == FirstOn(options, sw)
            IN  RadioSelect(options, sw,
                            IF on = 0
                            THEN CHOOSE j \in DOMAIN sw.options : sw.options[j] = name
                            ELSE Cycle(sw, on))

set_option(name) ==
  /\ Bound
  /\ options' =
       IF ~IsRadioOption(schema, name)
       THEN [ options EXCEPT ![name] = TRUE ]
       ELSE LET sw == OptionByName(schema, name)
            IN  RadioSelect(options, sw,
                            CHOOSE j \in DOMAIN sw.options : sw.options[j] = name)

unset_option(name) ==
  /\ Bound
  /\ options' =
       IF ~IsRadioOption(schema, name)
       THEN [ options EXCEPT ![name] = FALSE ]
       ELSE LET sw == OptionByName(schema, name)
            IN  IF options[name] /\ sw.options[ResetIndex(sw)] # name
                THEN RadioSelect(options, sw, ResetIndex(sw))
                ELSE options

\* select_schema(".next"): Switcher::SelectNextSchema of a switcher made for it
SelectNextSchema ==
  /\ ~active
  /\ Others(schema) # <<>>
  /\ ApplySchema(Head(Others(schema)).id)
  /\ UNCHANGED switcherVars

-----------------------------------------------------------------------------
(* The C API                                                               *)

\* Mutant of RimeSetOption: the session's own context, whoever is active.
SetOptionOfSession(name, value) ==
  /\ options' = [ options EXCEPT ![name] = value ]
  /\ UNCHANGED <<schema, switcherVars, userVars>>

\* Session::context() is the context of the active engine: while the menu is open,
\* the option that is set is the switcher's.
RimeSetOption(name, value) ==
  /\ options' = IF active THEN options ELSE [ options EXCEPT ![name] = value ]
  /\ UNCHANGED <<schema, switcherVars, userVars>>

\* Session::ApplySchema is for the session's engine.  An open menu stays as it is.
RimeSelectSchema(id) ==
  /\ ApplySchema(id)
  /\ menu_schema' = NoSchema
  /\ UNCHANGED <<active, folded, menu, highlighted>>

\* ConcreteEngine::ConcreteEngine: Switcher::RestoreSavedOptions, then
\* InitializeComponents and InitializeOptions
NewSession ==
  LET restored == [ name \in OptionNames |-> name \in SaveOptions /\ saved[name] = "on" ]
  IN  /\ schema' = FirstSchema
      /\ options' = InitializeOptions(FirstSchema, restored)
      /\ Close
      /\ UNCHANGED userVars

-----------------------------------------------------------------------------
SwitcherInit ==
  /\ saved = [ name \in SaveOptions |-> "unset" ]
  /\ previous = NoSchema
  /\ accessed = <<>>
  /\ schema = Head(Listed)
  /\ options = InitializeOptions(Head(Listed), [ name \in OptionNames |-> FALSE ])
  /\ active = FALSE
  /\ folded = FALSE
  /\ menu = <<>>
  /\ menu_schema = NoSchema
  /\ highlighted = 1

SwitcherNext ==
  \/ Activate
  \/ HighlightNextSchema
  \/ Deactivate
  \/ \E index \in DOMAIN menu : Highlight(index) \/ OnSelect(index)
  \/ \E name \in OptionNames :
       \/ toggle_option(name)
       \/ set_option(name)
       \/ unset_option(name)
       \/ \E value \in BOOLEAN : RimeSetOption(name, value)
  \/ SelectNextSchema
  \/ \E id \in Schemas : RimeSelectSchema(id)
  \/ NewSession

SwitcherSpec == SwitcherInit /\ [][SwitcherNext]_sessionVars
-----------------------------------------------------------------------------
(* What must hold of switches and of the options that are saved.           *)

OnIn(opts, sw) == { name \in OptionsOf(sw) : opts[name] }

\* The groups that the open menu shows, unless the schema has been replaced
\* behind it by a call of the API.
GroupsOnDisplay ==
  IF active /\ menu_schema = schema /\ schema \in Schemas
  THEN { sw \in ToSet(SwitchesOf[schema]) : sw.labelled /\ sw.type = "radio" }
  ELSE {}

\* While the menu is open, exactly one option of each of its groups is on, whatever
\* saved options, other schemas, key bindings and the application have made of the
\* group before, and nobody changes that behind the menu.
MenuShowsOneOption ==
  \A sw \in GroupsOnDisplay : \E name \in OptionsOf(sw) : OnIn(options, sw) = {name}

\* An option of a group that is chosen in the menu is the one that the next session
\* restores, if what was saved of the group agreed with what was shown, or nothing was
\* saved of it.  There is one exception: the option that is on already and has not been
\* saved is not saved by choosing it, as only what changes is (switch_translator.cc:121-134).
SavedOn(sw) == { name \in OptionsOf(sw) : saved[name] = "on" }

StaysUnsaved(sw) ==
  OnIn(options', sw) = OnIn(options, sw) /\ SavedOn(sw) = {} /\ SavedOn(sw)' = {}

ChoiceIsSaved ==
  [][ \A sw \in GroupsOnDisplay :
        /\ OptionsOf(sw) \subseteq SaveOptions
        /\ SavedOn(sw) \in { {}, OnIn(options, sw) }
        /\ \E index \in DOMAIN menu :
             menu[index].type = "radio" /\ menu[index].group = sw /\ OnSelect(index)
        => SavedOn(sw)' = OnIn(options', sw) \/ StaysUnsaved(sw)
    ]_sessionVars
=============================================================================
