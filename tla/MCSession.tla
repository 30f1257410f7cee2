------------------------------ MODULE MCSession ------------------------------
(***************************************************************************)
(* What goes on in sessions and in their clients, in small instances for   *)
(* TLC: the words that they learn, the way of a key, the switches of their *)
(* schemas, and the settings and configs that a client changes.  They have *)
(* no variable in common, and a behaviour is one of one of them while the  *)
(* others stay as they are.                                                *)
(***************************************************************************)
EXTENDS MCUserDb, KeyDispatch, Switcher, Settings, TLC

VARIABLE part

CONSTANTS pinyin, cangjie

MCProcessors ==
  << "ascii_composer", "recognizer", "chord_composer", "key_binder", "speller",
     "selector", "express_editor" >>
MCChordKeys == {"j", "k"}

\* One chord is a letter, one the space key, and one a word that confirms itself.
MCOutput == ({"j"} :> << Key("a") >>) @@ ({"k"} :> << Key(" ") >>)
              @@ ({"j", "k"} :> << Key("a"), Key(".") >>)
MCRecognized == { << "a", "." >> }
MCSwitchKey == ("Shift_L" :> "inline_ascii") @@ ("Caps_Lock" :> "commit_code")

\* A binding that presses the key it is bound to.
MCBindings ==
  (Key(".") :> << [ whence |-> "has_menu", toggle |-> FALSE,
                    target |-> << Key("Page_Down") >> ] >>) @@
  (Key("BackSpace") :> << [ whence |-> "composing", toggle |-> FALSE,
                            target |-> << Key("BackSpace"), Key("j") >> ] >>)

\* The two schemas have a group in common, which one of them makes larger.
Radio(names)        == [ type |-> "radio", options |-> names, reset |-> -1, labelled |-> TRUE ]
Toggle(name, reset) == [ type |-> "toggle", options |-> << name >>, reset |-> reset,
                         labelled |-> TRUE ]
MCSwitchesOf == (pinyin  :> << Radio(<< "x", "y" >>), Toggle("_t", -1) >>)
             @@ (cangjie :> << Toggle("_t", 0), Radio(<< "z", "x", "y" >>) >>)
MCSchemaList == << [ schema |-> pinyin, case |-> {} ], [ schema |-> cangjie, case |-> {"m"} ] >>
-----------------------------------------------------------------------------
\* A client with the settings of the switcher, while others edit and patch the file.
MCSettingsOf == "s1" :> [ kind |-> "switcher", config |-> "default" ]

MCOriginal == "default" :> ("schema_list" :> ListOf(<< "a", "b" >>))
                             @@ ("menu/page_size" :> ScalarOf(Decimal(5)))

PageSizeOf(n) == "menu/page_size" :> ScalarOf(Decimal(n))
OneMore       == "schema_list/+" :> ListOf(<< "c" >>)

MCCustomFiles ==
  { Missing, Broken, CustomFile(MapOf(PageSizeOf(4) @@ OneMore), FALSE),
    CustomFile([ type |-> "list", map |-> PageSizeOf(3) ], FALSE) }

MCSelections == { << "b" >> }

MCSchemaDirs ==
  << << [ schema_id |-> "a", named |-> TRUE ], [ schema_id |-> "b", named |-> FALSE ] >>,
     << [ schema_id |-> "a", named |-> TRUE ], [ schema_id |-> "b", named |-> TRUE ] >> >>

Setting(path, type, v) == [ path |-> path, type |-> type, value |-> v ]

MCCustomizations == { Setting("menu/page_size", "int", 6) }

MCTypedValues ==
  { Setting("var/x", "double", -10000014), Setting("var/x", "hex", 15),
    Setting("var/y", "bool", TRUE) }
-----------------------------------------------------------------------------
sessions == << vars, keyVars, sessionVars, settingsVars, configVars, part >>

SessionInit ==
  /\ part \in {"words", "keys", "switches", "settings", "configs"}
  /\ Init /\ KeysInit /\ SwitcherInit
  /\ part = "settings" \/ custom_file = [ id \in DOMAIN Original |-> Missing ]
  /\ SettingsInit /\ ConfigsInit

SessionNext ==
  \/ /\ part = "words"    /\ Next
     /\ UNCHANGED << keyVars, sessionVars, settingsVars, configVars, part >>
  \/ /\ part = "keys"     /\ KeysNext
     /\ UNCHANGED << vars, sessionVars, settingsVars, configVars, part >>
  \/ /\ part = "switches" /\ SwitcherNext
     /\ UNCHANGED << vars, keyVars, settingsVars, configVars, part >>
  \/ /\ part = "settings" /\ SettingsNext
     /\ UNCHANGED << vars, keyVars, sessionVars, configVars, part >>
  \/ /\ part = "configs"  /\ ConfigsNext
     /\ UNCHANGED << vars, keyVars, sessionVars, settingsVars, part >>

SessionSpec == SessionInit /\ [][SessionNext]_sessions /\ WF_keyVars(ProcessKey)
=============================================================================
