------------------------------ MODULE Settings ------------------------------
(***************************************************************************)
(* The settings of a client.  First, customizations: objects of the levers *)
(* API that are loaded from the deployed config and from its custom file,  *)
(* changed, and saved (levers_api_impl.h, custom_settings.cc,              *)
(* switcher_settings.cc), while the user edits the same file and the       *)
(* config is deployed again.  Second, the config of the user, user.yaml,   *)
(* of which all who open it share one copy that is written when the last   *)
(* of them closes it (rime_api_impl.h, config_component.cc,                *)
(* config_data.cc), with values of several types (config_types.cc).        *)
(*                                                                         *)
(* A config is a function from paths to items; none of the paths leads to  *)
(* another one.  Copies on write are left to module ConfigData, hotkeys    *)
(* and what is said of an available schema are left out.                   *)
(***************************************************************************)
EXTENDS Integers, SequencesExt, FiniteSets

CONSTANTS
  SettingsOf,     \* the settings object of each slot: its kind and its config
  Original,       \* every config as it is before any customization
  CustomFiles,    \* what a user may have in a custom file
  SchemaDirs,     \* the schema files of the shared and of the user's directory
  Selections,     \* the schemas that a client may select
  MaxFileWrites,  \* bound on how often a custom file is edited or saved
  Customizations, \* what a client may customize: the path, the type, and the value
  Handles,        \* the client's handles of the config of the user
  TypedValues,    \* what a client may set: the path, the type, and the value
  kIntMax,        \* the greatest int
  kDoubleScale    \* doubles are counted in parts of the least that is written out

Missing == [ there |-> FALSE ]
Broken  == [ there |-> TRUE, whole |-> FALSE ]
NoItem  == [ type |-> "null" ]
CustomFile(patch, signed) == [ there |-> TRUE, whole |-> TRUE, patch |-> patch, signed |-> signed ]

\* There is none, it cannot be parsed, or it has a patch and a signature.  What is
\* added to the list of schemas is a list.
IsCustomFile(file) ==
  \/ file \in {Missing, Broken}
  \/ /\ file = CustomFile(file.patch, file.signed)
     /\ \/ file.patch = NoItem
        \/ /\ file.patch.type \in {"map", "list"}
           /\ "schema_list/+" \in DOMAIN file.patch.map =>
                file.patch.map["schema_list/+"].type = "list"

\* The settings of the switcher are those of default.yaml, and schemas are selected
\* with them (switcher_settings.cc).
ASSUME SettingsAssumption ==
  /\ \A s \in DOMAIN SettingsOf :
       /\ SettingsOf[s].config \in DOMAIN Original
       /\ SettingsOf[s].kind = "switcher" => SettingsOf[s].config = "default"
  /\ \A file \in CustomFiles : IsCustomFile(file)
  /\ \A v \in Customizations : v.path \notin {"schema_list", "schema_list/+"}

IsInt(n) == n \in (-kIntMax - 1)..kIntMax

\* What the functions of the API take.
ASSUME TypedValuesAssumption ==
  /\ kIntMax \in Nat /\ kDoubleScale \in Nat \ {0}
  /\ "none" \notin Handles
  /\ \A v \in TypedValues :
       /\ v = [ path |-> v.path, type |-> v.type, value |-> v.value ]
       /\ \/ v.type = "bool" /\ v.value \in BOOLEAN
          \/ v.type = "int" /\ IsInt(v.value)
          \/ v.type = "hex" /\ v.value \in Nat
          \/ v.type = "double" /\ v.value \in Int
          \/ v.type = "string"

VARIABLES
  custom_file,  \* the custom file of each config
  deployed,     \* each config in the staging directory
  custom_settings,     \* the settings object in each slot
  file_writes,  \* how often a custom file has been edited or saved
  seen,         \* history: the custom file as each object has loaded it
  customized,   \* history: what has been customized in each object since
  chosen,       \* history: the schemas that were selected and saved last
  user_yaml,    \* the file of the user's config
  datas,        \* the ConfigData that is loaded for a handle
  opened,       \* the handle whose data a handle refers to
  value,        \* a config of the client's own
  asked,        \* history: what has been set in the user's config and not been lost
  kept          \* history: what had been set when the file was written

settingsVars == << custom_file, deployed, custom_settings, file_writes, seen, customized, chosen >>
configVars   == << user_yaml, datas, opened, value, asked, kept >>
-----------------------------------------------------------------------------
\* Items.

ScalarOf(t) == [ type |-> "scalar", text |-> t ]
ListOf(s) == [ type |-> "list", seq |-> s ]
MapOf(f)  == [ type |-> "map", map |-> f ]

\* Nodes without a value are not written (EmitYaml).
Emitted(config) ==
  [ path \in { p \in DOMAIN config : config[p] # NoItem } |-> config[path] ]

PutAt(config, path, item) ==
  [ p \in DOMAIN config \cup {path} |-> IF p = path THEN item ELSE config[p] ]

\* What a patch has goes first.
Patched(config, patch) ==
  [ p \in DOMAIN config \cup DOMAIN patch |->
      IF p \in DOMAIN patch THEN patch[p] ELSE config[p] ]

ItemAtPath(config, path) == IF path \in DOMAIN config THEN config[path] ELSE NoItem

\* Texts of scalars: numbers, written out in one way or another, and words.
Decimal(n) == [ form |-> "decimal", n |-> n ]
Hex(n)     == [ form |-> "hex", n |-> n ]
Fixed(n)   == [ form |-> "fixed", n |-> n ]
WordText(w) == [ form |-> "word", word |-> w ]

Lower(w) == CASE w \in {"TRUE", "True"} -> "true" [] w \in {"FALSE", "False"} -> "false" [] OTHER -> w

\* std::to_string writes a double with six decimals.
RoundedOff(x) ==
  LET half == kDoubleScale \div 2
  IN IF x >= 0 THEN (x + half) \div kDoubleScale ELSE -((half - x) \div kDoubleScale)

TextSet(type, v) ==
  CASE type = "bool"   -> WordText(IF v THEN "true" ELSE "false")
    [] type = "int"    -> Decimal(v)
    [] type = "double" -> Fixed(RoundedOff(v))
    [] type = "hex"    -> Hex(v)
    [] type = "string" -> v

NoValue == [ ok |-> FALSE ]
Value(v) == [ ok |-> TRUE, value |-> v ]

BoolOf(text) ==
  IF text.form = "word" /\ Lower(text.word) \in {"true", "false"}
  THEN Value(Lower(text.word) = "true") ELSE NoValue

\* The value of an unsigned int that is cast to an int.
AsInt(n) ==
  LET unsigned == n % (2 * (kIntMax + 1))
  IN IF unsigned > kIntMax THEN unsigned - 2 * (kIntMax + 1) ELSE unsigned

kUnit == 1000000  \* the decimals of a double that is written out

Truncated(n) == IF n >= 0 THEN n \div kUnit ELSE -((-n) \div kUnit)

\* std::stoi reads as far as it can, and throws when that is not an int.
IntOf(text) ==
  CASE text.form = "hex"                              -> Value(AsInt(text.n))
    [] text.form = "decimal" /\ IsInt(text.n)         -> Value(text.n)
    [] text.form = "fixed" /\ IsInt(Truncated(text.n)) -> Value(Truncated(text.n))
    [] OTHER                                          -> NoValue

\* std::stod knows hexadecimal numbers as well.
DoubleOf(text) ==
  CASE text.form \in {"decimal", "hex"} -> Value(text.n * kUnit * kDoubleScale)
    [] text.form = "fixed"              -> Value(text.n * kDoubleScale)
    [] OTHER                            -> NoValue

TypedValue(type, text) ==
  CASE type = "bool"           -> BoolOf(text)
    [] type \in {"int", "hex"} -> IntOf(text)
    [] type = "double"         -> DoubleOf(text)
    [] type = "string"         -> Value(text)

\* RimeConfigGetBool and the like.
GetTyped(type, config, path) ==
  LET item == ItemAtPath(config, path)
  IN IF item.type = "scalar" THEN TypedValue(type, item.text) ELSE NoValue
-----------------------------------------------------------------------------
\* Files.

Empty == CustomFile(NoItem, FALSE)

IsReadable(file) == file.there /\ file.whole

\* What Config::LoadFromFile leaves in the config, whether it succeeds or not.
Loaded(file) == IF IsReadable(file) THEN file ELSE Empty

\* The patch is applied, key by key, when the config is compiled; a list of
\* patches is, too.  What cannot be read is left out.
PatchIn(file) == IF IsReadable(file) /\ file.patch # NoItem THEN file.patch.map ELSE << >>

IsAddition(path) == path = "schema_list/+"

Deployed(id, file) ==
  LET patch == PatchIn(file)
      base  == Patched(Original[id], [ p \in { q \in DOMAIN patch : ~IsAddition(q) } |-> patch[p] ])
  IN IF \E p \in DOMAIN patch : IsAddition(p)
     THEN [ base EXCEPT !["schema_list"].seq = @ \o patch["schema_list/+"].seq ]
     ELSE base
-----------------------------------------------------------------------------
\* Settings objects.

Slots == DOMAIN SettingsOf

NotOpen == [ open |-> FALSE ]

FileOf(s) == custom_file[SettingsOf[s].config]

\* CustomSettings::CustomSettings; the configs are empty before Load.
InitSettings(s) ==
  /\ ~custom_settings[s].open
  /\ custom_settings' = [ custom_settings EXCEPT ![s] =
                     [ open |-> TRUE, config |-> << >>, custom |-> Empty, modified |-> FALSE,
                       loaded |-> FALSE, current |-> FALSE, available |-> << >>, selection |-> << >> ] ]
  /\ UNCHANGED << custom_file, deployed, file_writes, seen, customized, chosen >>

DestroySettings(s) ==
  /\ custom_settings[s].open
  /\ custom_settings' = [ custom_settings EXCEPT ![s] = NotOpen ]
  /\ UNCHANGED << custom_file, deployed, file_writes, chosen >>
  /\ seen' = [ seen EXCEPT ![s] = Missing ]
  /\ customized' = [ customized EXCEPT ![s] = << >> ]

\* The file of a schema counts if it has an id and a name, and the first one of
\* an id does: the shared directory is read before the user's.
AddAvailable(list, file) ==
  IF file.named /\ \A i \in DOMAIN list : list[i].schema_id # file.schema_id
  THEN Append(list, file) ELSE list

GetAvailableSchemas == FoldLeft(AddAvailable, << >>, FlattenSeq(SchemaDirs))

GetSelectedSchemas(config) ==
  LET list == ItemAtPath(config, "schema_list")
  IN IF list.type = "list" THEN list.seq ELSE << >>

\* Mutant of ConfigOf: what comes with the program goes first.
ConfigOfPrebuilt(id) == Original[id]

\* The config from the staging directory, or the one that comes with the program.
ConfigOf(id) == IF deployed[id] # Missing THEN deployed[id] ELSE Original[id]

LoadSettings(s) ==
  LET id       == SettingsOf[s].config
      switcher == SettingsOf[s].kind = "switcher"
  IN
  /\ custom_settings[s].open
  /\ custom_settings' = [ custom_settings EXCEPT ![s] =
       [ open |-> TRUE, config |-> ConfigOf(id), custom |-> Loaded(FileOf(s)), modified |-> FALSE,
         loaded |-> TRUE, current |-> (deployed[id] = Deployed(id, FileOf(s))),
         available |-> IF switcher THEN GetAvailableSchemas ELSE << >>,
         selection |-> IF switcher THEN GetSelectedSchemas(ConfigOf(id)) ELSE << >> ] ]
  /\ seen' = [ seen EXCEPT ![s] = FileOf(s) ]
  /\ customized' = [ customized EXCEPT ![s] = << >> ]
  /\ UNCHANGED << custom_file, deployed, file_writes, chosen >>

\* Mutant of PatchOf: the patches that are there are not kept.
PatchOfNone(custom) == << >>

\* The map that is customized: the one in the file, or else a new one.
PatchOf(custom) == IF custom.patch.type = "map" THEN custom.patch.map ELSE << >>

Customized(custom, path, item) ==
  CustomFile(MapOf(PutAt(PatchOf(custom), path, item)), custom.signed)

\* What a change of the custom file, or the end of one, makes of an object.
Changed(object, custom, modified, selection) ==
  [ open |-> TRUE, config |-> object.config, custom |-> custom, modified |-> modified,
    loaded |-> object.loaded, current |-> object.current, available |-> object.available,
    selection |-> selection ]

CustomizeItem(s, path, item) ==
  /\ custom_settings[s].open
  /\ custom_settings' = [ custom_settings EXCEPT ![s] =
                            Changed(@, Customized(@.custom, path, item), TRUE, @.selection) ]
  /\ customized' = [ customized EXCEPT ![s] = PutAt(@, path, item) ]
  /\ UNCHANGED << custom_file, deployed, file_writes, seen, chosen >>

\* rime_levers_customize_bool, _int, _double, _string; a null item takes a patch away.
Customize(s) ==
  \/ \E v \in Customizations : CustomizeItem(s, v.path, ScalarOf(TextSet(v.type, v.value)))
  \/ \E v \in Customizations : CustomizeItem(s, v.path, NoItem)

SelectSchemas(s, selection) ==
  /\ custom_settings[s].open /\ SettingsOf[s].kind = "switcher"
  /\ custom_settings' = [ custom_settings EXCEPT ![s] =
       Changed(@, Customized(@.custom, "schema_list", ListOf(selection)), TRUE, selection) ]
  /\ customized' = [ customized EXCEPT ![s] = PutAt(@, "schema_list", ListOf(selection)) ]
  /\ UNCHANGED << custom_file, deployed, file_writes, seen, chosen >>

\* CustomSettings::Save signs the config and writes it, over what is there.
SignedFile(custom) ==
  CustomFile(IF custom.patch.type = "map" THEN MapOf(Emitted(custom.patch.map)) ELSE custom.patch, TRUE)

NotKnown == [ known |-> FALSE ]
Chosen(s) == [ known |-> TRUE, selection |-> s ]

CanSave(s) == custom_settings[s].open /\ custom_settings[s].modified /\ file_writes < MaxFileWrites

\* What is in the file is kept when it is loaded, customized and saved.
CanBePatched(file) == ~file.there \/ (file.whole /\ file.patch.type # "list")

\* The object was loaded from the file as it is now, and can add to its patch.
SavesOnWhatIs(s) == custom_settings[s].loaded /\ seen[s] = FileOf(s) /\ CanBePatched(FileOf(s))

SaveSettings(s) ==
  LET file == SignedFile(custom_settings[s].custom)
  IN
  /\ CanSave(s)
  /\ custom_file' = [ custom_file EXCEPT ![SettingsOf[s].config] = file ]
  /\ custom_settings' = [ custom_settings EXCEPT ![s] =
                            Changed(@, CustomFile(@.custom.patch, TRUE), FALSE, @.selection) ]
  /\ seen' = [ seen EXCEPT ![s] = file ]
  /\ customized' = [ customized EXCEPT ![s] = << >> ]
  /\ chosen' = CASE "schema_list" \in DOMAIN customized[s]   -> Chosen(custom_settings[s].selection)
                 [] "schema_list" \notin DOMAIN customized[s] /\ SavesOnWhatIs(s) -> chosen
                 [] OTHER                                       -> NotKnown
  /\ file_writes' = file_writes + 1
  /\ UNCHANGED deployed

\* The tool rime_patch does all of it at once, and does not ask whether the file
\* could be loaded.
Patching(id, path, item) ==
  LET file == custom_file[id]
  IN
  /\ file_writes < MaxFileWrites
  /\ file_writes' = file_writes + 1
  /\ custom_file' = [ custom_file EXCEPT ![id] =
                        SignedFile(Customized(Loaded(file), path, item)) ]
  /\ chosen' = IF CanBePatched(file) THEN chosen ELSE NotKnown
  /\ UNCHANGED << deployed, custom_settings, seen, customized >>

ApplyPatch(id) ==
  \E v \in Customizations : Patching(id, v.path, ScalarOf(TextSet(v.type, v.value)))

\* RimeLeversApi::is_first_run.
IsFirstRun(id) == ~IsReadable(custom_file[id]) \/ ~custom_file[id].signed

\* A user edits the custom file, or puts another one in its place.
EditCustomFile(id, file) ==
  /\ file_writes < MaxFileWrites
  /\ file_writes' = file_writes + 1
  /\ custom_file' = [ custom_file EXCEPT ![id] = file ]
  /\ chosen' = NotKnown
  /\ UNCHANGED << deployed, custom_settings, seen, customized >>

DeployConfig(id) ==
  /\ deployed' = [ deployed EXCEPT ![id] = Deployed(id, custom_file[id]) ]
  /\ UNCHANGED << custom_file, custom_settings, file_writes, seen, customized, chosen >>

SettingsInit ==
  /\ custom_file \in [ DOMAIN Original -> CustomFiles ]
  /\ deployed = [ id \in DOMAIN Original |-> Missing ]
  /\ custom_settings = [ s \in Slots |-> NotOpen ]
  /\ file_writes = 0
  /\ seen = [ s \in Slots |-> Missing ]
  /\ customized = [ s \in Slots |-> << >> ]
  /\ chosen = NotKnown

SettingsNext ==
  \/ \E s \in Slots : InitSettings(s)
  \/ \E s \in Slots : LoadSettings(s)
  \/ \E s \in Slots : Customize(s)
  \/ \E s \in Slots, selection \in Selections : SelectSchemas(s, selection)
  \/ \E s \in Slots : SaveSettings(s)
  \/ \E s \in Slots : DestroySettings(s)
  \/ \E id \in DOMAIN Original : ApplyPatch(id)
  \/ \E id \in DOMAIN Original, file \in CustomFiles : EditCustomFile(id, file)
  \/ \E id \in DOMAIN Original : DeployConfig(id)
-----------------------------------------------------------------------------
\* The config of the user, opened by the client.

IsOpen(h) == opened[h] # "none"

IsReferredTo(d) == \E h \in Handles : opened[h] = d

\* Mutant of InCache: the cache is not asked.
InCacheNever == {}

\* ConfigComponentBase::GetConfigData: the data in the cache, until nobody has it
\* any more.
InCache == { d \in Handles : IsReferredTo(d) }

NewData == CHOOSE d \in Handles : ~IsReferredTo(d)

\* RimeUserConfigOpen.
UserConfigOpen(h) ==
  /\ ~IsOpen(h)
  /\ IF InCache # {}
     THEN /\ opened' = [ opened EXCEPT ![h] = CHOOSE d \in InCache : TRUE ]
          /\ UNCHANGED datas
     ELSE /\ opened' = [ opened EXCEPT ![h] = NewData ]
          /\ datas' = [ datas EXCEPT ![NewData] = [ root |-> user_yaml, modified |-> FALSE ] ]
  /\ UNCHANGED << user_yaml, value, asked, kept >>

\* ConfigData::~ConfigData and ConfigData::Save.
UserConfigClose(h) ==
  LET d == opened[h]
  IN
  /\ IsOpen(h)
  /\ opened' = [ opened EXCEPT ![h] = "none" ]
  /\ IF \E other \in Handles \ {h} : opened[other] = d
     THEN UNCHANGED << user_yaml, datas, kept >>
     ELSE /\ datas' = [ datas EXCEPT ![d] = [ root |-> << >>, modified |-> FALSE ] ]
          /\ user_yaml' = IF datas[d].modified THEN Emitted(datas[d].root) ELSE user_yaml
          /\ kept' = asked
  /\ UNCHANGED << value, asked >>

\* ConfigData::TraverseWrite, along a path of maps.
SetItemOf(h, path, item) ==
  /\ IsOpen(h)
  /\ datas' = [ datas EXCEPT ![opened[h]] = [ root |-> PutAt(@.root, path, item), modified |-> TRUE ] ]
  /\ UNCHANGED << user_yaml, opened, kept >>

\* RimeConfigSetBool, RimeConfigSetInt, RimeConfigSetDouble, RimeConfigSetString.
ConfigSet(h, v) ==
  /\ SetItemOf(h, v.path, ScalarOf(TextSet(v.type, v.value)))
  /\ asked' = PutAt(asked, v.path, v)
  /\ UNCHANGED value

NoSetting(path) == [ path |-> path, type |-> "none" ]

ConfigClear(h, path) ==
  /\ SetItemOf(h, path, NoItem)
  /\ asked' = PutAt(asked, path, NoSetting(path))
  /\ UNCHANGED value

\* RimeConfigGetItem: a config of the client's own, with what is at the path.
ConfigGetItem(h, path) ==
  /\ IsOpen(h)
  /\ value' = [ item |-> ItemAtPath(datas[opened[h]].root, path),
                of   |-> IF path \in DOMAIN asked THEN asked[path] ELSE NoSetting(path) ]
  /\ UNCHANGED << user_yaml, datas, opened, asked, kept >>

\* RimeConfigLoadString, with the text of a scalar.
ConfigLoadString(v) ==
  /\ value' = [ item |-> ScalarOf(TextSet(v.type, v.value)), of |-> v ]
  /\ UNCHANGED << user_yaml, datas, opened, asked, kept >>

ConfigSetItem(h, path) ==
  /\ SetItemOf(h, path, value.item)
  /\ asked' = PutAt(asked, path, value.of)
  /\ UNCHANGED value

\* The process ends: what has not been written is lost.
ProcessEnds ==
  /\ \E h \in Handles : IsOpen(h)
  /\ opened' = [ h \in Handles |-> "none" ]
  /\ datas' = [ h \in Handles |-> [ root |-> << >>, modified |-> FALSE ] ]
  /\ value' = [ item |-> NoItem, of |-> NoSetting("") ]
  /\ asked' = kept
  /\ UNCHANGED << user_yaml, kept >>

ConfigsInit ==
  /\ user_yaml = << >>
  /\ datas = [ h \in Handles |-> [ root |-> << >>, modified |-> FALSE ] ]
  /\ opened = [ h \in Handles |-> "none" ]
  /\ value = [ item |-> NoItem, of |-> NoSetting("") ]
  /\ asked = << >> /\ kept = << >>

ConfigsNext ==
  \/ \E h \in Handles : UserConfigOpen(h)
  \/ \E h \in Handles : UserConfigClose(h)
  \/ \E h \in Handles, v \in TypedValues : ConfigSet(h, v)
  \/ \E h \in Handles, v \in TypedValues : ConfigClear(h, v.path)
  \/ \E h \in Handles, v \in TypedValues : ConfigGetItem(h, v.path)
  \/ \E v \in TypedValues : ConfigLoadString(v)
  \/ \E h \in Handles, v \in TypedValues : ConfigSetItem(h, v.path)
  \/ ProcessEnds
-----------------------------------------------------------------------------
PatchMap(file) == IF file.there /\ file.patch # NoItem THEN file.patch.map ELSE << >>

\* What an object saves, when it has been loaded from the file as it is, is signed,
\* and is the patch of the file with what has been customized in the object, and
\* nothing else, whatever has been saved by it or by another one before
\* (custom_settings.cc:30-84).
SavesCustomizations ==
  [][ \A s \in Slots :
        SaveSettings(s) /\ SavesOnWhatIs(s) =>
        /\ FileOf(s)'.patch = MapOf(Emitted(Patched(PatchMap(FileOf(s)), customized[s])))
        /\ FileOf(s)'.signed
    ]_settingsVars

\* The schemas that have been selected and saved are the selected ones when settings
\* are loaded after the next deployment, whatever else has been customized and saved
\* since by those who had read them, unless the user adds schemas to the list.
SelectionComesBack ==
  \A s \in Slots :
       /\ SettingsOf[s].kind = "switcher" /\ custom_settings[s].open /\ custom_settings[s].loaded
       /\ "schema_list" \notin DOMAIN customized[s]
       /\ custom_settings[s].current /\ seen[s] = FileOf(s)
       /\ chosen.known /\ "schema_list/+" \notin DOMAIN PatchIn(FileOf(s))
       => custom_settings[s].selection = chosen.selection

\* What has been set through any handle is what every handle reads, and what the file
\* has when the last handle has been closed, by the type that it was set with: a
\* double up to what six decimals tell, and an unsigned number in hexadecimal as the
\* int of the same bits (config_component.cc:182-201, config_data.cc:24-31).
Agrees(got, v) ==
  /\ got.ok
  /\ CASE v.type = "double" -> 2 * (got.value - v.value) \in (-kDoubleScale)..kDoubleScale
       [] v.type = "hex"    -> (got.value - v.value) % (2 * (kIntMax + 1)) = 0
       [] OTHER             -> got.value = v.value

ReadsBack(config, path, v) ==
  IF v.type = "none" THEN ItemAtPath(config, path) = NoItem
                     ELSE Agrees(GetTyped(v.type, config, path), v)

UserConfigIsShared ==
  \A path \in DOMAIN asked :
    /\ \A h \in Handles : IsOpen(h) => ReadsBack(datas[opened[h]].root, path, asked[path])
    /\ (\A h \in Handles : ~IsOpen(h)) => ReadsBack(user_yaml, path, asked[path])
=============================================================================
