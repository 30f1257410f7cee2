---------------------------- MODULE SettingsProofs ----------------------------
(* The user's config tells every handle what was set in it last, and its file  *)
(* does when nobody has it open.  All that are open refer to the same data;    *)
(* what is in them, in the file and in a client's own config are items that    *)
(* read as the values that they stand for, and data that count as unmodified   *)
(* are those of the file.                                                      *)
(*                                                                             *)
(* The menu of the switcher shows groups of which one option is on: opening it *)
(* selects one in each, and while it is open the options change no more.       *)
EXTENDS Settings, Switcher, WellFoundedInduction, TLAPS

ConfigsSpec == ConfigsInit /\ [][ConfigsNext]_configVars

\* An item that reads as a value, or is missing as there is none.
Holds(item, v) ==
    IF v.type = "none" THEN item = NoItem
    ELSE item.type = "scalar" /\ Agrees(TypedValue(v.type, item.text), v)

\* A config with what has been set, and nothing else.
HoldsAll(config, set) ==
    /\ DOMAIN config \subseteq DOMAIN set
    /\ \A path \in DOMAIN set : Holds(ItemAtPath(config, path), set[path])

\* All who have the config open refer to one of the handles' data.
OneData ==
    /\ opened \in [ Handles -> Handles \cup {"none"} ]
    /\ DOMAIN datas = Handles
    /\ \A d \in Handles : datas[d] = [ root |-> datas[d].root, modified |-> datas[d].modified ]
    /\ \A h1, h2 \in Handles : IsOpen(h1) /\ IsOpen(h2) => opened[h1] = opened[h2]

OpenDataHold ==
    \A h \in Handles : IsOpen(h) =>
        /\ HoldsAll(datas[opened[h]].root, asked)
        /\ ~datas[opened[h]].modified => datas[opened[h]].root = user_yaml

FileHolds ==
    /\ HoldsAll(user_yaml, kept)
    /\ (\A h \in Handles : ~IsOpen(h)) => asked = kept

ConfigsInv ==
    /\ OneData
    /\ OpenDataHold
    /\ FileHolds
    /\ Holds(value.item, value.of)

-----------------------------------------------------------------------------
(* Values and their texts *)

LEMMA Division ==
    ASSUME NEW m \in Nat \ {0}, NEW n \in Int
    PROVE  /\ n \div m \in Int /\ n % m \in 0..(m - 1)
           /\ n = m * (n \div m) + (n % m)
           /\ (m * n) % m = 0
  BY SMT

\* A double is written out within half of the last decimal.
LEMMA RoundedOffIsNear ==
    ASSUME NEW x \in Int, kDoubleScale \in Nat \ {0}
    PROVE  /\ RoundedOff(x) \in Int
           /\ 2 * (RoundedOff(x) * kDoubleScale - x) \in (-kDoubleScale)..kDoubleScale
<1>1. ASSUME NEW y \in Nat, NEW half \in Nat, NEW q,
             2 * half \in (kDoubleScale - 1)..kDoubleScale, q = (y + half) \div kDoubleScale
      PROVE  q \in Int /\ 2 * (q * kDoubleScale - y) \in (-kDoubleScale)..kDoubleScale
  <2>1. y + half \in Int
    OBVIOUS
  <2>2. PICK r \in 0..(kDoubleScale - 1) : q \in Int /\ y + half = kDoubleScale * q + r
    BY <1>1, <2>1, Division
  <2>3. PICK p \in Int : p = kDoubleScale * q /\ p = q * kDoubleScale
    BY <2>2
  <2>4. y + half = p + r
    BY <2>2, <2>3
  <2>5. 2 * (p - y) \in (-kDoubleScale)..kDoubleScale
    BY <1>1, <2>3, <2>4
  <2> QED
    BY <2>2, <2>3, <2>5
<1>2. PICK half \in Nat : half = kDoubleScale \div 2 /\ 2 * half \in (kDoubleScale - 1)..kDoubleScale
  BY SMT
<1>3. CASE x >= 0
  <2>1. x \in Nat /\ RoundedOff(x) = (x + half) \div kDoubleScale
    BY <1>2, <1>3 DEF RoundedOff
  <2> QED
    BY <1>1, <1>2, <2>1
<1>4. CASE ~(x >= 0)
  <2>1. PICK y \in Nat : x = -y
    BY <1>4
  <2>2. PICK q : q = (y + half) \div kDoubleScale
    OBVIOUS
  <2>3. RoundedOff(x) = -q
    BY <1>2, <1>4, <2>1, <2>2 DEF RoundedOff
  <2>4. q \in Int /\ 2 * (q * kDoubleScale - y) \in (-kDoubleScale)..kDoubleScale
    BY <1>1, <1>2, <2>2
  <2>5. PICK p \in Int : p = q * kDoubleScale /\ (-q) * kDoubleScale = -p
    BY <2>4
  <2> QED
    BY <2>1, <2>3, <2>4, <2>5
<1> QED
  BY <1>3, <1>4

\* An unsigned number becomes the int of the same bits.
LEMMA AsIntHasSameBits ==
    ASSUME NEW n \in Nat, kIntMax \in Nat
    PROVE  AsInt(n) \in Int /\ (AsInt(n) - n) % (2 * (kIntMax + 1)) = 0
<1>1. ASSUME NEW m \in Nat \ {0}, NEW i, i = n % m \/ i = (n % m) - m
      PROVE  i \in Int /\ (i - n) % m = 0
  <2> DEFINE q == n \div m
             r == n % m
  <2>1. q \in Int /\ r \in Int /\ n = m * q + r
    BY Division
  <2> HIDE DEF q, r
  <2>2. PICK p \in Int : p = m * q /\ m * (-q) = -p /\ m * (-q - 1) = -p - m
    BY <2>1
  <2>3. n = p + r
    BY <2>1, <2>2
  <2>4. i - n = m * (-q) \/ i - n = m * (-q - 1)
    BY <1>1, <2>1, <2>2, <2>3 DEF r
  <2>5. (m * (-q)) % m = 0 /\ (m * (-q - 1)) % m = 0
    BY <2>1, Division
  <2>6. i \in Int
    BY <1>1, <2>1 DEF r
  <2> QED
    BY <2>4, <2>5, <2>6
<1>2. 2 * (kIntMax + 1) \in Nat \ {0}
  OBVIOUS
<1>3. \/ AsInt(n) = n % (2 * (kIntMax + 1))
      \/ AsInt(n) = (n % (2 * (kIntMax + 1))) - 2 * (kIntMax + 1)
  BY DEF AsInt
<1> QED
  BY <1>1, <1>2, <1>3

\* What is set reads as the value that it has been set to, by its type.
LEMMA WhatIsSetHolds ==
    ASSUME NEW v \in TypedValues
    PROVE  Holds(ScalarOf(TextSet(v.type, v.value)), v)
<1> DEFINE text == TextSet(v.type, v.value)
<1> SUFFICES v.type # "none" /\ Agrees(TypedValue(v.type, text), v)
  BY DEF Holds, ScalarOf
<1>1. CASE v.type = "bool" /\ v.value \in BOOLEAN
  BY <1>1 DEF TextSet, WordText, TypedValue, BoolOf, Lower, Agrees, Value
<1>2. CASE v.type = "int" /\ IsInt(v.value)
  BY <1>2 DEF TextSet, Decimal, TypedValue, IntOf, Agrees, Value
<1>3. CASE v.type = "hex" /\ v.value \in Nat
  <2>1. TypedValue(v.type, text) = Value(AsInt(v.value))
    BY <1>3 DEF TextSet, Hex, TypedValue, IntOf
  <2>2. (AsInt(v.value) - v.value) % (2 * (kIntMax + 1)) = 0
    BY <1>3, AsIntHasSameBits, TypedValuesAssumption
  <2> QED
    BY <1>3, <2>1, <2>2 DEF Agrees, Value
<1>4. CASE v.type = "double" /\ v.value \in Int
  <2>1. TypedValue(v.type, text) = Value(RoundedOff(v.value) * kDoubleScale)
    BY <1>4 DEF TextSet, Fixed, TypedValue, DoubleOf
  <2>2. 2 * (RoundedOff(v.value) * kDoubleScale - v.value) \in (-kDoubleScale)..kDoubleScale
    BY <1>4, RoundedOffIsNear, TypedValuesAssumption
  <2> QED
    BY <1>4, <2>1, <2>2 DEF Agrees, Value
<1>5. CASE v.type = "string"
  BY <1>5 DEF TextSet, TypedValue, Agrees, Value
<1> QED
  BY <1>1, <1>2, <1>3, <1>4, <1>5, TypedValuesAssumption

LEMMA NothingHolds == \A path : Holds(NoItem, NoSetting(path))
  BY DEF Holds, NoSetting

\* A config reads as what has been set in it.
LEMMA HoldingReadsBack ==
    ASSUME NEW config, NEW set, NEW path \in DOMAIN set, HoldsAll(config, set)
    PROVE  ReadsBack(config, path, set[path])
  BY DEF HoldsAll, Holds, ReadsBack, GetTyped

\* Nothing is lost when items without a value are not written.
LEMMA EmittedHolds ==
    ASSUME NEW config, NEW set, HoldsAll(config, set)
    PROVE  HoldsAll(Emitted(config), set)
  BY DEF HoldsAll, Emitted, ItemAtPath

LEMMA WrittenHolds ==
    ASSUME NEW config, NEW set, HoldsAll(config, set),
           NEW path, NEW item, NEW v, Holds(item, v)
    PROVE  HoldsAll(PutAt(config, path, item), PutAt(set, path, v))
<1> DEFINE after == PutAt(config, path, item)
           now_set == PutAt(set, path, v)
<1>1. DOMAIN after \subseteq DOMAIN now_set
  BY DEF HoldsAll, PutAt
<1>2. ASSUME NEW p \in DOMAIN now_set PROVE Holds(ItemAtPath(after, p), now_set[p])
  <2>1. CASE p = path
    BY <2>1 DEF ItemAtPath, PutAt
  <2>2. CASE p # path
    <3>1. p \in DOMAIN set /\ now_set[p] = set[p]
      BY <2>2 DEF PutAt
    <3>2. ItemAtPath(after, p) = ItemAtPath(config, p)
      BY <2>2 DEF ItemAtPath, PutAt
    <3> QED
      BY <3>1, <3>2 DEF HoldsAll
  <2> QED
    BY <2>1, <2>2
<1> QED
  BY <1>1, <1>2 DEF HoldsAll

\* What is at a path reads as what was set there, or is nothing.
LEMMA ItemHolds ==
    ASSUME NEW config, NEW set, HoldsAll(config, set), NEW path
    PROVE  Holds(ItemAtPath(config, path),
                 IF path \in DOMAIN set THEN set[path] ELSE NoSetting(path))
<1>1. CASE path \in DOMAIN set
  BY <1>1 DEF HoldsAll
<1>2. CASE path \notin DOMAIN set
  BY <1>2, NothingHolds DEF HoldsAll, ItemAtPath
<1> QED
  BY <1>1, <1>2

-----------------------------------------------------------------------------
(* Steps *)

LEMMA ConfigsInitInv == ConfigsInit => ConfigsInv
<1> SUFFICES ASSUME ConfigsInit PROVE ConfigsInv
  OBVIOUS
<1>1. HoldsAll(user_yaml, kept)
  <2>1. DOMAIN << >> = {}
    OBVIOUS
  <2> QED
    BY <2>1 DEF ConfigsInit, HoldsAll
<1>2. OneData
  <2>1. DOMAIN datas = Handles /\ \A d \in Handles : datas[d] = [ root |-> << >>, modified |-> FALSE ]
    BY DEF ConfigsInit
  <2>2. opened \in [ Handles -> Handles \cup {"none"} ] /\ \A h \in Handles : opened[h] = "none"
    BY DEF ConfigsInit
  <2> QED
    BY <2>1, <2>2 DEF OneData, IsOpen
<1> QED
  BY <1>1, <1>2, NothingHolds DEF ConfigsInit, ConfigsInv, OpenDataHold, FileHolds, IsOpen

\* An item is written through a handle that is open: all who are open see it.
LEMMA WriteStep ==
    ASSUME ConfigsInv, NEW h \in Handles, NEW path, NEW item, NEW v, Holds(item, v),
           SetItemOf(h, path, item), asked' = PutAt(asked, path, v), UNCHANGED value
    PROVE  ConfigsInv'
<1> DEFINE d == opened[h]
           root == PutAt(datas[d].root, path, item)
<1>1. d \in Handles /\ opened[h] # "none"
  BY DEF SetItemOf, ConfigsInv, OneData, IsOpen
<1>2. /\ datas' = [ datas EXCEPT ![d] = [ root |-> root, modified |-> TRUE ] ]
      /\ opened' = opened /\ user_yaml' = user_yaml /\ kept' = kept
  BY DEF SetItemOf
<1>3. datas'[d] = [ root |-> root, modified |-> TRUE ]
  BY <1>1, <1>2 DEF ConfigsInv, OneData
<1>4. OneData'
  BY <1>1, <1>2, <1>3 DEF ConfigsInv, OneData, IsOpen
<1>5. HoldsAll(root, asked')
  BY <1>1, WrittenHolds DEF ConfigsInv, OpenDataHold, IsOpen
<1>6. OpenDataHold'
  BY <1>1, <1>2, <1>3, <1>5 DEF ConfigsInv, OneData, OpenDataHold, IsOpen
<1>7. FileHolds'
  BY <1>1, <1>2 DEF ConfigsInv, FileHolds, IsOpen
<1> QED
  BY <1>4, <1>6, <1>7 DEF ConfigsInv

LEMMA OpenStep ==
    ASSUME ConfigsInv, NEW h \in Handles, UserConfigOpen(h)
    PROVE  ConfigsInv'
<1> USE DEF ConfigsInv, IsOpen
<1>0. /\ opened \in [ Handles -> Handles \cup {"none"} ] /\ opened[h] = "none"
      /\ UNCHANGED << user_yaml, value, asked, kept >>
  BY DEF UserConfigOpen, OneData
<1>1. CASE InCache # {}
  <2>1. PICK d \in InCache : opened' = [ opened EXCEPT ![h] = d ] /\ UNCHANGED datas
    BY <1>1 DEF UserConfigOpen
  <2>2. PICK other \in Handles : opened[other] = d /\ d \in Handles /\ d # "none"
    BY <2>1, TypedValuesAssumption DEF InCache, IsReferredTo
  <2>3. \A g \in Handles : opened'[g] # "none" => opened'[g] = d /\ opened[other] = d
    BY <1>0, <2>1, <2>2 DEF OneData
  <2>4. OneData'
    BY <1>0, <2>1, <2>2, <2>3 DEF OneData
  <2>5. OpenDataHold'
    BY <1>0, <2>1, <2>2, <2>3 DEF OpenDataHold
  <2>6. FileHolds'
    BY <1>0, <2>1, <2>2 DEF FileHolds
  <2> QED
    BY <1>0, <2>4, <2>5, <2>6
<1>2. CASE InCache = {}
  <2>1. \A g \in Handles : opened[g] = "none"
    BY <1>0, <1>2 DEF InCache, IsReferredTo
  <2>2. NewData \in Handles
    BY <1>2 DEF NewData, InCache
  <2>3. PICK d \in Handles :
          /\ opened' = [ opened EXCEPT ![h] = d ]
          /\ datas' = [ datas EXCEPT ![d] = [ root |-> user_yaml, modified |-> FALSE ] ]
    BY <1>2, <2>2 DEF UserConfigOpen
  <2>4. datas'[d] = [ root |-> user_yaml, modified |-> FALSE ] /\ asked = kept
    BY <2>1, <2>3 DEF OneData, FileHolds
  <2>5. \A g \in Handles : opened'[g] # "none" => opened'[g] = d
    BY <1>0, <2>1, <2>3
  <2>6. OneData'
    BY <1>0, <2>3, <2>4, <2>5 DEF OneData
  <2>7. OpenDataHold'
    BY <1>0, <2>4, <2>5 DEF OpenDataHold, FileHolds
  <2>8. FileHolds'
    BY <1>0, <2>4 DEF FileHolds
  <2> QED
    BY <1>0, <2>6, <2>7, <2>8
<1> QED
  BY <1>1, <1>2

\* The file is written when the last handle is closed, if anything has been set.
LEMMA CloseStep ==
    ASSUME ConfigsInv, NEW h \in Handles, UserConfigClose(h)
    PROVE  ConfigsInv'
<1> USE DEF ConfigsInv, IsOpen
<1> DEFINE d == opened[h]
<1>0. /\ opened \in [ Handles -> Handles \cup {"none"} ] /\ d # "none" /\ d \in Handles
      /\ opened' = [ opened EXCEPT ![h] = "none" ]
      /\ UNCHANGED << value, asked >>
  BY DEF UserConfigClose, OneData
<1>1. CASE \E other \in Handles \ {h} : opened[other] = d
  <2>1. UNCHANGED << user_yaml, datas, kept >>
    BY <1>1 DEF UserConfigClose
  <2>2. OneData'
    BY <1>0, <2>1 DEF OneData
  <2>3. OpenDataHold'
    BY <1>0, <2>1 DEF OpenDataHold
  <2>4. FileHolds'
    BY <1>0, <1>1, <2>1 DEF FileHolds
  <2> QED
    BY <1>0, <2>2, <2>3, <2>4
<1>2. CASE ~ \E other \in Handles \ {h} : opened[other] = d
  <2>1. /\ datas' = [ datas EXCEPT ![d] = [ root |-> << >>, modified |-> FALSE ] ]
        /\ user_yaml' = IF datas[d].modified THEN Emitted(datas[d].root) ELSE user_yaml
        /\ kept' = asked
    BY <1>2 DEF UserConfigClose
  <2>2. \A g \in Handles : opened'[g] = "none"
    BY <1>0, <1>2 DEF OneData
  <2>3. OneData'
    BY <1>0, <2>1, <2>2 DEF OneData
  <2>4. OpenDataHold'
    BY <2>2 DEF OpenDataHold
  <2>5. HoldsAll(datas[d].root, asked) /\ (~datas[d].modified => datas[d].root = user_yaml)
    BY <1>0 DEF OpenDataHold
  <2>6. HoldsAll(user_yaml', kept')
    BY <2>1, <2>5, EmittedHolds
  <2>7. FileHolds'
    BY <1>0, <2>1, <2>6 DEF FileHolds
  <2> QED
    BY <1>0, <2>3, <2>4, <2>7
<1> QED
  BY <1>1, <1>2

LEMMA ConfigsStep == ConfigsInv /\ [ConfigsNext]_configVars => ConfigsInv'
<1> SUFFICES ASSUME ConfigsInv, [ConfigsNext]_configVars PROVE ConfigsInv'
  OBVIOUS
<1>1. ASSUME NEW h \in Handles, UserConfigOpen(h) PROVE ConfigsInv'
  BY <1>1, OpenStep
<1>2. ASSUME NEW h \in Handles, UserConfigClose(h) PROVE ConfigsInv'
  BY <1>2, CloseStep
<1>3. ASSUME NEW h \in Handles, NEW v \in TypedValues, ConfigSet(h, v) PROVE ConfigsInv'
  BY <1>3, WhatIsSetHolds, WriteStep DEF ConfigSet
<1>4. ASSUME NEW h \in Handles, NEW v \in TypedValues, ConfigClear(h, v.path) PROVE ConfigsInv'
  BY <1>4, NothingHolds, WriteStep DEF ConfigClear
<1>5. ASSUME NEW h \in Handles, NEW v \in TypedValues, ConfigGetItem(h, v.path) PROVE ConfigsInv'
  <2>1. HoldsAll(datas[opened[h]].root, asked)
    BY <1>5 DEF ConfigGetItem, ConfigsInv, OpenDataHold
  <2>2. Holds(value'.item, value'.of)
    BY <1>5, <2>1, ItemHolds DEF ConfigGetItem
  <2> QED
    BY <1>5, <2>2 DEF ConfigGetItem, ConfigsInv, OneData, OpenDataHold, FileHolds, IsOpen
<1>6. ASSUME NEW v \in TypedValues, ConfigLoadString(v) PROVE ConfigsInv'
  <2>1. Holds(value'.item, value'.of)
    BY <1>6, WhatIsSetHolds DEF ConfigLoadString
  <2> QED
    BY <1>6, <2>1 DEF ConfigLoadString, ConfigsInv, OneData, OpenDataHold, FileHolds, IsOpen
<1>7. ASSUME NEW h \in Handles, NEW v \in TypedValues, ConfigSetItem(h, v.path) PROVE ConfigsInv'
  BY <1>7, WriteStep DEF ConfigSetItem, ConfigsInv
<1>8. CASE ProcessEnds
  <2>1. OneData' /\ OpenDataHold'
    BY <1>8 DEF ProcessEnds, OneData, OpenDataHold, IsOpen
  <2>2. FileHolds'
    BY <1>8 DEF ProcessEnds, ConfigsInv, FileHolds
  <2> QED
    BY <1>8, <2>1, <2>2, NothingHolds DEF ProcessEnds, ConfigsInv
<1>9. CASE UNCHANGED configVars
  BY <1>9 DEF configVars, ConfigsInv, OneData, OpenDataHold, FileHolds, IsOpen
<1> QED
  BY <1>1, <1>2, <1>3, <1>4, <1>5, <1>6, <1>7, <1>8, <1>9 DEF ConfigsNext

\* What has been set through any handle is what every handle reads, and what the
\* file has when the last one has been closed (config_component.cc:182-201,
\* config_data.cc:24-31).
THEOREM ConfigIsShared == ConfigsSpec => []UserConfigIsShared
<1>1. ConfigsInv => UserConfigIsShared
  <2> SUFFICES ASSUME ConfigsInv, NEW path \in DOMAIN asked
               PROVE  /\ \A h \in Handles : IsOpen(h) => ReadsBack(datas[opened[h]].root, path, asked[path])
                      /\ (\A h \in Handles : ~IsOpen(h)) => ReadsBack(user_yaml, path, asked[path])
    BY DEF UserConfigIsShared
  <2>1. ASSUME NEW h \in Handles, IsOpen(h)
        PROVE  ReadsBack(datas[opened[h]].root, path, asked[path])
    BY <2>1, HoldingReadsBack DEF ConfigsInv, OpenDataHold
  <2>2. ASSUME \A h \in Handles : ~IsOpen(h)
        PROVE  ReadsBack(user_yaml, path, asked[path])
    BY <2>2, HoldingReadsBack DEF ConfigsInv, FileHolds
  <2> QED
    BY <2>1, <2>2
<1> QED
  BY <1>1, ConfigsInitInv, ConfigsStep, PTL DEF ConfigsSpec

-----------------------------------------------------------------------------
(* Custom files and the settings objects that are saved to them. *)

SettingsSpec == SettingsInit /\ [][SettingsNext]_settingsVars

List     == "schema_list"
Addition == "schema_list/+"

\* The map of patches that an object has when it has loaded a file.
LoadedMap(file) == PatchOf(Loaded(file))

IsObject(o) ==
    /\ o = [ open |-> TRUE, config |-> o.config, custom |-> o.custom, modified |-> o.modified,
             loaded |-> o.loaded, current |-> o.current, available |-> o.available,
             selection |-> o.selection ]
    /\ IsCustomFile(o.custom) /\ IsReadable(o.custom)
    /\ o.modified => o.custom.patch.type = "map"

SlotTypeOK(s) ==
    /\ IsCustomFile(seen[s]) /\ Addition \notin DOMAIN customized[s]
    /\ \/ IsObject(custom_settings[s])
       \/ custom_settings[s] = NotOpen /\ DOMAIN customized[s] = {}

SettingsTypeOK ==
    /\ DOMAIN custom_file = DOMAIN Original
    /\ \A id \in DOMAIN Original : IsCustomFile(custom_file[id])
    /\ DOMAIN deployed = DOMAIN Original
    /\ DOMAIN custom_settings = Slots /\ DOMAIN seen = Slots /\ DOMAIN customized = Slots

\* An object would write the patch that it has loaded, and what has been customized.
AddsToPatch(s) ==
    custom_settings[s].loaded =>
        Emitted(PatchOf(custom_settings[s].custom))
            = Emitted(Patched(LoadedMap(seen[s]), customized[s]))

\* Schemas that have been selected and not been saved.
SelectsSchemas(s) ==
    List \in DOMAIN customized[s] =>
        /\ SettingsOf[s].kind = "switcher"
        /\ List \in DOMAIN PatchOf(custom_settings[s].custom)
        /\ PatchOf(custom_settings[s].custom)[List] = ListOf(custom_settings[s].selection)

\* The selection of an object that was loaded from a file after its deployment.
SelectsAsSeen(s) ==
    LET patch == PatchIn(seen[s])
    IN  /\ SettingsOf[s].kind = "switcher"
        /\ custom_settings[s].loaded /\ custom_settings[s].current
        /\ List \notin DOMAIN customized[s]
        /\ List \in DOMAIN patch /\ Addition \notin DOMAIN patch
        => custom_settings[s].selection = GetSelectedSchemas(patch)

\* The schemas that were saved last are in the file.
ChosenInFile ==
    chosen.known =>
        LET file == custom_file["default"]
        IN  /\ IsReadable(file) /\ file.patch.type = "map"
            /\ List \in DOMAIN file.patch.map
            /\ file.patch.map[List] = ListOf(chosen.selection)

SlotInv(s) ==
    /\ SlotTypeOK(s)
    /\ custom_settings[s].open => AddsToPatch(s) /\ SelectsSchemas(s) /\ SelectsAsSeen(s)

SettingsInv == SettingsTypeOK /\ ChosenInFile /\ \A s \in Slots : SlotInv(s)

-----------------------------------------------------------------------------
(* Files and patches *)

LEMMA CustomFileFields ==
    ASSUME NEW patch, NEW signed
    PROVE  LET file == CustomFile(patch, signed)
           IN  file.there /\ file.whole /\ file.patch = patch /\ file.signed = signed
  BY DEF CustomFile

LEMMA ReadableFile ==
    ASSUME NEW file, IsCustomFile(file), IsReadable(file)
    PROVE  /\ file = CustomFile(file.patch, file.signed)
           /\ \/ file.patch = NoItem
              \/ /\ file.patch.type \in {"map", "list"}
                 /\ Addition \in DOMAIN file.patch.map => file.patch.map[Addition].type = "list"
  BY DEF Addition, IsCustomFile, IsReadable, Missing, Broken

LEMMA LoadedFile ==
    ASSUME NEW file, IsCustomFile(file)
    PROVE  IsCustomFile(Loaded(file)) /\ IsReadable(Loaded(file))
<1>1. IsCustomFile(Empty) /\ IsReadable(Empty)
  BY DEF Empty, IsCustomFile, CustomFile, IsReadable
<1> QED
  BY <1>1 DEF Loaded

\* What is written is a custom file, with the map of patches.
LEMMA SignedFileType ==
    ASSUME NEW custom, IsCustomFile(custom), IsReadable(custom)
    PROVE  /\ IsCustomFile(SignedFile(custom)) /\ IsReadable(SignedFile(custom))
           /\ SignedFile(custom).signed
           /\ custom.patch.type = "map" =>
                SignedFile(custom).patch = MapOf(Emitted(PatchOf(custom)))
<1> DEFINE map == Emitted(PatchOf(custom))
<1>1. \/ custom.patch = NoItem
      \/ /\ custom.patch.type \in {"map", "list"}
         /\ Addition \in DOMAIN custom.patch.map => custom.patch.map[Addition].type = "list"
  BY ReadableFile
<1>2. CASE custom.patch.type = "map"
  <2>1. SignedFile(custom) = CustomFile(MapOf(map), TRUE)
    BY <1>2 DEF SignedFile, PatchOf
  <2>2. Addition \in DOMAIN map => map[Addition].type = "list"
    BY <1>1, <1>2 DEF Emitted, PatchOf, NoItem
  <2>3. MapOf(map).type = "map" /\ MapOf(map).map = map
    BY DEF MapOf
  <2> HIDE DEF map
  <2> QED
    BY <2>1, <2>2, <2>3 DEF IsCustomFile, IsReadable, CustomFile, Addition, map
<1>3. CASE custom.patch.type # "map"
  <2>1. SignedFile(custom) = CustomFile(custom.patch, TRUE)
    BY <1>3 DEF SignedFile
  <2> QED
    BY <1>1, <1>3, <2>1 DEF IsCustomFile, IsReadable, CustomFile, Addition
<1> QED
  BY <1>2, <1>3

\* A path has the same item in configs that are written out in the same way.
LEMMA EmittedItems ==
    ASSUME NEW f, NEW g, Emitted(f) = Emitted(g), NEW path
    PROVE  ItemAtPath(f, path) = ItemAtPath(g, path)
<1>1. /\ DOMAIN Emitted(f) = { p \in DOMAIN f : f[p] # NoItem }
      /\ DOMAIN Emitted(g) = { p \in DOMAIN g : g[p] # NoItem }
      /\ \A p \in DOMAIN Emitted(f) : Emitted(f)[p] = f[p]
      /\ \A p \in DOMAIN Emitted(g) : Emitted(g)[p] = g[p]
  BY DEF Emitted
<1>2. CASE path \in DOMAIN Emitted(f)
  BY <1>1, <1>2 DEF ItemAtPath
<1>3. CASE path \notin DOMAIN Emitted(f)
  BY <1>1, <1>3 DEF ItemAtPath
<1> QED
  BY <1>2, <1>3

\* The map of patches of what has been saved has the items of the object's.
LEMMA SavedMap ==
    ASSUME NEW custom, IsCustomFile(custom), IsReadable(custom), custom.patch.type = "map"
    PROVE  /\ PatchIn(SignedFile(custom)) = Emitted(PatchOf(custom))
           /\ LoadedMap(SignedFile(custom)) = Emitted(PatchOf(custom))
           /\ PatchOf(SignedFile(custom)) = Emitted(PatchOf(custom))
<1>1. SignedFile(custom).patch = MapOf(Emitted(PatchOf(custom))) /\ IsReadable(SignedFile(custom))
  BY SignedFileType
<1> QED
  BY <1>1 DEF PatchIn, LoadedMap, Loaded, PatchOf, MapOf, NoItem

\* To write out twice is to write out once.
LEMMA EmittedTwice == \A f : Emitted(Emitted(f)) = Emitted(f)
  BY DEF Emitted

LEMMA NothingPatched ==
    ASSUME NEW f, NEW g, DOMAIN g = {}
    PROVE  Emitted(Patched(f, g)) = Emitted(f)
<1>1. /\ DOMAIN Patched(f, g) = DOMAIN f
      /\ \A p \in DOMAIN f : Patched(f, g)[p] = f[p]
  BY DEF Patched
<1> QED
  BY <1>1 DEF Emitted

LEMMA PutAndPatched ==
    ASSUME NEW base, NEW f, NEW g, NEW path, NEW item,
           Emitted(f) = Emitted(Patched(base, g))
    PROVE  Emitted(PutAt(f, path, item)) = Emitted(Patched(base, PutAt(g, path, item)))
<1> DEFINE a == PutAt(f, path, item)
           b == Patched(base, PutAt(g, path, item))
           h == Patched(base, g)
<1>1. \A p : ItemAtPath(f, p) = ItemAtPath(h, p)
  BY EmittedItems
<1>2. \A p : ItemAtPath(a, p) = IF p = path THEN item ELSE ItemAtPath(f, p)
  BY DEF PutAt, ItemAtPath
<1>3. \A p : ItemAtPath(b, p) = IF p = path THEN item ELSE ItemAtPath(h, p)
  BY DEF PutAt, Patched, ItemAtPath
<1>4. \A p : ItemAtPath(a, p) = ItemAtPath(b, p)
  BY <1>1, <1>2, <1>3
<1>5. ASSUME NEW c
      PROVE  Emitted(c) = [ p \in { q \in DOMAIN c : ItemAtPath(c, q) # NoItem } |-> ItemAtPath(c, p) ]
  BY DEF Emitted, ItemAtPath
<1>6. { q \in DOMAIN a : ItemAtPath(a, q) # NoItem } = { q \in DOMAIN b : ItemAtPath(b, q) # NoItem }
  BY <1>4 DEF ItemAtPath
<1> QED
  BY <1>4, <1>5, <1>6

\* What is customized is put into the object's map of patches.
LEMMA CustomizedFile ==
    ASSUME NEW custom, IsCustomFile(custom), IsReadable(custom), NEW path, NEW item, path # Addition
    PROVE  LET after == Customized(custom, path, item)
           IN  /\ IsCustomFile(after) /\ IsReadable(after) /\ after.patch.type = "map"
               /\ PatchOf(after) = PutAt(PatchOf(custom), path, item)
<1> DEFINE after == Customized(custom, path, item)
           map == PutAt(PatchOf(custom), path, item)
<1>3. Addition \in DOMAIN map => map[Addition].type = "list"
  <2>1. Addition \in DOMAIN map => Addition \in DOMAIN PatchOf(custom)
    BY DEF PutAt
  <2>2. Addition \in DOMAIN PatchOf(custom) => PatchOf(custom)[Addition].type = "list"
    BY ReadableFile DEF PatchOf, NoItem
  <2>3. Addition \in DOMAIN map => map[Addition] = PatchOf(custom)[Addition]
    BY <2>1 DEF PutAt
  <2> QED
    BY <2>1, <2>2, <2>3
<1>4. MapOf(map).type = "map" /\ MapOf(map).map = map
  BY DEF MapOf
<1>5. after = CustomFile(MapOf(map), custom.signed)
  BY DEF Customized
<1> HIDE DEF map
<1>6. IsCustomFile(after) /\ IsReadable(after) /\ after.patch = MapOf(map)
  BY <1>3, <1>4, <1>5 DEF IsCustomFile, IsReadable, CustomFile, Addition
<1>7. PatchOf(after) = map
  BY <1>4, <1>6 DEF PatchOf
<1> QED
  BY <1>4, <1>6, <1>7 DEF map

\* Without an addition, the list of schemas is the one in the patch.
LEMMA DeployedSelection ==
    ASSUME NEW id, NEW file, List \in DOMAIN PatchIn(file), Addition \notin DOMAIN PatchIn(file)
    PROVE  /\ Deployed(id, file) # Missing
           /\ GetSelectedSchemas(Deployed(id, file)) = GetSelectedSchemas(PatchIn(file))
<1> DEFINE patch == PatchIn(file)
           added == [ p \in { q \in DOMAIN patch : ~IsAddition(q) } |-> patch[p] ]
           base == Patched(Original[id], added)
<1>1. Deployed(id, file) = base
  BY DEF Deployed, IsAddition, Addition
<1>2. List \in DOMAIN added /\ added[List] = patch[List]
  BY DEF IsAddition, List
<1> HIDE DEF added
<1>3. List \in DOMAIN base /\ base[List] = patch[List]
  BY <1>2 DEF Patched
<1>4. base # Missing
  <2>1. DOMAIN Missing = {"there"}
    BY DEF Missing
  <2> QED
    BY <1>3, <2>1 DEF List
<1>5. ItemAtPath(base, List) = ItemAtPath(patch, List)
  BY <1>3 DEF ItemAtPath
<1> QED
  BY <1>1, <1>4, <1>5 DEF GetSelectedSchemas, List

\* A file that can be patched is loaded with the patch that it has.
LEMMA LoadedPatch ==
    ASSUME NEW file, IsCustomFile(file), CanBePatched(file)
    PROVE  LoadedMap(file) = PatchMap(file)
<1>1. CASE file = Missing
  <2>1. PatchMap(file) = << >> /\ Loaded(file) = Empty
    BY <1>1 DEF PatchMap, Loaded, IsReadable, Missing
  <2> QED
    BY <2>1 DEF LoadedMap, PatchOf, Empty, CustomFile, NoItem
<1>2. CASE file # Missing
  <2>1. IsReadable(file) /\ file.patch.type # "list" /\ file.there
    BY <1>2 DEF CanBePatched, IsCustomFile, CustomFile, Broken, IsReadable
  <2>2. file.patch = NoItem \/ file.patch.type = "map"
    BY <2>1, ReadableFile
  <2> QED
    BY <2>1, <2>2 DEF LoadedMap, Loaded, PatchOf, PatchMap, NoItem
<1> QED
  BY <1>1, <1>2

-----------------------------------------------------------------------------
(* Steps of the settings objects *)

LEMMA SlotFrame ==
    ASSUME SettingsInv, NEW s \in Slots, UNCHANGED << custom_settings[s], seen[s], customized[s] >>
    PROVE  SlotInv(s)'
<1>1. SlotInv(s)
  BY DEF SettingsInv
<1> QED
  BY <1>1 DEF SlotInv, SlotTypeOK, AddsToPatch, SelectsSchemas, SelectsAsSeen

LEMMA SettingsInitInv == SettingsInit => SettingsInv
<1> SUFFICES ASSUME SettingsInit PROVE SettingsInv
  OBVIOUS
<1>0. DOMAIN << >> = {} /\ IsCustomFile(Missing) /\ ~NotOpen.open /\ ~NotKnown.known
  BY DEF IsCustomFile, NotOpen, NotKnown
<1>1. SettingsTypeOK
  BY SettingsAssumption DEF SettingsInit, SettingsTypeOK
<1>2. ASSUME NEW s \in Slots PROVE SlotInv(s)
  BY <1>0 DEF SettingsInit, SlotInv, SlotTypeOK
<1>3. ChosenInFile
  BY <1>0 DEF SettingsInit, ChosenInFile
<1> QED
  BY <1>1, <1>2, <1>3 DEF SettingsInv

LEMMA InitSettingsStep ==
    ASSUME SettingsInv, NEW s \in Slots, InitSettings(s)
    PROVE  SettingsInv'
<1> DEFINE o == custom_settings'[s]
<1>1. /\ o = [ open |-> TRUE, config |-> << >>, custom |-> Empty, modified |-> FALSE, loaded |-> FALSE,
               current |-> FALSE, available |-> << >>, selection |-> << >> ]
      /\ \A t \in Slots \ {s} : custom_settings'[t] = custom_settings[t]
      /\ DOMAIN custom_settings' = Slots
      /\ UNCHANGED << custom_file, deployed, seen, customized, chosen >>
  BY DEF InitSettings, SettingsInv, SettingsTypeOK
<1>2. DOMAIN customized[s] = {} /\ IsCustomFile(seen[s])
  <2>1. SlotTypeOK(s) /\ ~custom_settings[s].open
    BY DEF InitSettings, SettingsInv, SlotInv
  <2>2. ~IsObject(custom_settings[s])
    BY <2>1 DEF IsObject
  <2> QED
    BY <2>1, <2>2 DEF SlotTypeOK
<1>3. IsCustomFile(Empty) /\ IsReadable(Empty)
  BY DEF Empty, IsCustomFile, CustomFile, IsReadable
<1>4. SlotInv(s)'
  BY <1>1, <1>2, <1>3 DEF SlotInv, SlotTypeOK, IsObject, AddsToPatch, SelectsSchemas, SelectsAsSeen
<1>5. \A t \in Slots \ {s} : SlotInv(t)'
  BY <1>1, SlotFrame
<1>6. SettingsTypeOK' /\ ChosenInFile'
  BY <1>1 DEF SettingsInv, SettingsTypeOK, ChosenInFile
<1> QED
  BY <1>4, <1>5, <1>6 DEF SettingsInv

LEMMA DestroySettingsStep ==
    ASSUME SettingsInv, NEW s \in Slots, DestroySettings(s)
    PROVE  SettingsInv'
<1>1. /\ custom_settings'[s] = NotOpen /\ seen'[s] = Missing /\ customized'[s] = << >>
      /\ \A t \in Slots \ {s} : UNCHANGED << custom_settings[t], seen[t], customized[t] >>
      /\ DOMAIN custom_settings' = Slots /\ DOMAIN seen' = Slots /\ DOMAIN customized' = Slots
      /\ UNCHANGED << custom_file, deployed, chosen >>
  BY DEF DestroySettings, SettingsInv, SettingsTypeOK
<1>2. DOMAIN << >> = {} /\ IsCustomFile(Missing) /\ ~NotOpen.open
  BY DEF IsCustomFile, NotOpen
<1>3. SlotInv(s)'
  BY <1>1, <1>2 DEF SlotInv, SlotTypeOK
<1>4. \A t \in Slots \ {s} : SlotInv(t)'
  BY <1>1, SlotFrame
<1>5. SettingsTypeOK' /\ ChosenInFile'
  BY <1>1 DEF SettingsInv, SettingsTypeOK, ChosenInFile
<1> QED
  BY <1>3, <1>4, <1>5 DEF SettingsInv

LEMMA LoadSettingsStep ==
    ASSUME SettingsInv, NEW s \in Slots, LoadSettings(s)
    PROVE  SettingsInv'
<1> DEFINE id == SettingsOf[s].config
           file == FileOf(s)
           o == custom_settings'[s]
<1>1. /\ o = [ open |-> TRUE, config |-> ConfigOf(id), custom |-> Loaded(file), modified |-> FALSE,
               loaded |-> TRUE, current |-> (deployed[id] = Deployed(id, file)),
               available |-> o.available, selection |-> o.selection ]
      /\ o.current = (deployed[id] = Deployed(id, file))
      /\ SettingsOf[s].kind = "switcher" => o.selection = GetSelectedSchemas(ConfigOf(id))
      /\ seen'[s] = file /\ customized'[s] = << >>
      /\ \A t \in Slots \ {s} : UNCHANGED << custom_settings[t], seen[t], customized[t] >>
      /\ DOMAIN custom_settings' = Slots /\ DOMAIN seen' = Slots /\ DOMAIN customized' = Slots
      /\ UNCHANGED << custom_file, deployed, chosen >>
  BY DEF LoadSettings, SettingsInv, SettingsTypeOK
<1>2. DOMAIN << >> = {}
  OBVIOUS
<1>3. IsCustomFile(file)
  BY SettingsAssumption DEF SettingsInv, SettingsTypeOK, FileOf, Slots
<1>4. SlotTypeOK(s)'
  BY <1>1, <1>2, <1>3, LoadedFile DEF SlotTypeOK, IsObject
<1>5. AddsToPatch(s)'
  BY <1>1, <1>2, NothingPatched DEF AddsToPatch, LoadedMap
<1>6. SelectsSchemas(s)'
  BY <1>1, <1>2 DEF SelectsSchemas
<1> HIDE DEF o, file, id
<1>7. SelectsAsSeen(s)'
  <2> SUFFICES ASSUME SettingsOf[s].kind = "switcher", deployed[id] = Deployed(id, file),
                      List \in DOMAIN PatchIn(file), Addition \notin DOMAIN PatchIn(file)
               PROVE  o.selection = GetSelectedSchemas(PatchIn(file))
    BY <1>1 DEF SelectsAsSeen, o
  <2>1. ConfigOf(id) = Deployed(id, file)
    BY DeployedSelection DEF ConfigOf
  <2> QED
    BY <1>1, <2>1, DeployedSelection
<1>8. \A t \in Slots \ {s} : SlotInv(t)'
  BY <1>1, SlotFrame
<1>9. SettingsTypeOK' /\ ChosenInFile'
  BY <1>1 DEF SettingsInv, SettingsTypeOK, ChosenInFile
<1> QED
  BY <1>4, <1>5, <1>6, <1>7, <1>8, <1>9 DEF SettingsInv, SlotInv

\* What a customization does to its object, at any path but the one of the additions.
Customizes(s, path, item, selection) ==
    /\ custom_settings[s].open
    /\ path = List => SettingsOf[s].kind = "switcher" /\ item = ListOf(selection)
    /\ path # List => selection = custom_settings[s].selection
    /\ custom_settings' = [ custom_settings EXCEPT ![s] =
            Changed(custom_settings[s], Customized(custom_settings[s].custom, path, item), TRUE, selection) ]
    /\ customized' = [ customized EXCEPT ![s] = PutAt(@, path, item) ]
    /\ UNCHANGED << custom_file, deployed, seen, chosen >>

LEMMA CustomizesStep ==
    ASSUME SettingsInv, NEW s \in Slots, NEW path, NEW item, NEW selection,
           path # Addition, Customizes(s, path, item, selection)
    PROVE  SettingsInv'
<1> DEFINE o == custom_settings[s]
           custom == Customized(o.custom, path, item)
<1>1. /\ custom_settings'[s] = Changed(o, custom, TRUE, selection)
      /\ customized'[s] = PutAt(customized[s], path, item) /\ seen'[s] = seen[s]
      /\ \A t \in Slots \ {s} : UNCHANGED << custom_settings[t], seen[t], customized[t] >>
      /\ DOMAIN custom_settings' = Slots /\ DOMAIN customized' = Slots
      /\ UNCHANGED << custom_file, deployed, seen, chosen >>
      /\ path = List => SettingsOf[s].kind = "switcher" /\ item = ListOf(selection)
      /\ path # List => selection = o.selection
      /\ o.open
  BY DEF SettingsInv, SettingsTypeOK, Customizes
<1>2. SlotTypeOK(s) /\ AddsToPatch(s) /\ SelectsSchemas(s) /\ SelectsAsSeen(s)
  BY <1>1 DEF SettingsInv, SlotInv
<1>3. IsObject(o)
  BY <1>1, <1>2 DEF SlotTypeOK, NotOpen
<1>4. /\ IsCustomFile(custom) /\ IsReadable(custom) /\ custom.patch.type = "map"
      /\ PatchOf(custom) = PutAt(PatchOf(o.custom), path, item)
  BY <1>3, CustomizedFile DEF IsObject
<1> HIDE DEF custom, o
<1>5. /\ IsObject(custom_settings'[s]) /\ custom_settings'[s].open
      /\ custom_settings'[s].custom = custom /\ custom_settings'[s].selection = selection
      /\ custom_settings'[s].loaded = o.loaded /\ custom_settings'[s].current = o.current
  <2>1. /\ IsObject(Changed(o, custom, TRUE, selection)) /\ Changed(o, custom, TRUE, selection).open
        /\ Changed(o, custom, TRUE, selection).custom = custom
        /\ Changed(o, custom, TRUE, selection).loaded = o.loaded
        /\ Changed(o, custom, TRUE, selection).current = o.current
        /\ Changed(o, custom, TRUE, selection).selection = selection
    BY <1>4 DEF Changed, IsObject
  <2> QED
    BY <1>1, <2>1
<1>6. SlotTypeOK(s)'
  BY <1>1, <1>2, <1>5 DEF SlotTypeOK, PutAt
<1>7. AddsToPatch(s)'
  <2> SUFFICES ASSUME o.loaded
               PROVE  Emitted(PatchOf(custom)) = Emitted(Patched(LoadedMap(seen[s]), customized'[s]))
    BY <1>1, <1>5 DEF AddsToPatch
  <2>1. Emitted(PatchOf(o.custom)) = Emitted(Patched(LoadedMap(seen[s]), customized[s]))
    BY <1>2 DEF AddsToPatch, o
  <2>2. Emitted(PutAt(PatchOf(o.custom), path, item))
            = Emitted(Patched(LoadedMap(seen[s]), PutAt(customized[s], path, item)))
    BY <2>1, PutAndPatched
  <2> QED
    BY <1>1, <1>4, <2>2
<1>8. SelectsSchemas(s)'
  <2>1. CASE path = List
    BY <1>1, <1>4, <1>5, <2>1 DEF SelectsSchemas, PutAt
  <2>2. CASE path # List
    <3> SUFFICES ASSUME List \in DOMAIN customized'[s]
                 PROVE  /\ SettingsOf[s].kind = "switcher"
                        /\ List \in DOMAIN PatchOf(custom)
                        /\ PatchOf(custom)[List] = ListOf(selection)
      BY <1>1, <1>5 DEF SelectsSchemas
    <3>1. List \in DOMAIN customized[s] /\ selection = o.selection
      BY <1>1, <2>2 DEF PutAt
    <3>2. /\ SettingsOf[s].kind = "switcher"
          /\ List \in DOMAIN PatchOf(o.custom) /\ PatchOf(o.custom)[List] = ListOf(o.selection)
      BY <1>2, <3>1 DEF SelectsSchemas, o
    <3> QED
      BY <1>4, <2>2, <3>1, <3>2 DEF PutAt
  <2> QED
    BY <2>1, <2>2
<1>9. SelectsAsSeen(s)'
  <2> SUFFICES ASSUME SettingsOf[s].kind = "switcher", o.loaded, o.current, List \notin DOMAIN customized'[s],
                      List \in DOMAIN PatchIn(seen[s]), Addition \notin DOMAIN PatchIn(seen[s])
               PROVE  selection = GetSelectedSchemas(PatchIn(seen[s]))
    BY <1>1, <1>5 DEF SelectsAsSeen
  <2>1. List \notin DOMAIN customized[s] /\ path # List
    BY <1>1 DEF PutAt
  <2> QED
    BY <1>1, <1>2, <2>1 DEF SelectsAsSeen, o
<1>10. \A t \in Slots \ {s} : SlotInv(t)'
  BY <1>1, SlotFrame
<1>11. SettingsTypeOK' /\ ChosenInFile'
  BY <1>1 DEF SettingsInv, SettingsTypeOK, ChosenInFile
<1> QED
  BY <1>5, <1>6, <1>7, <1>8, <1>9, <1>10, <1>11 DEF SettingsInv, SlotInv

LEMMA CustomizeStep ==
    ASSUME SettingsInv, NEW s \in Slots, NEW v \in Customizations, NEW item,
           CustomizeItem(s, v.path, item)
    PROVE  SettingsInv'
<1>1. v.path # List /\ v.path # Addition
  BY SettingsAssumption DEF List, Addition
<1>2. Customizes(s, v.path, item, custom_settings[s].selection)
  BY <1>1 DEF CustomizeItem, Customizes
<1> QED
  BY <1>1, <1>2, CustomizesStep

LEMMA SelectSchemasStep ==
    ASSUME SettingsInv, NEW s \in Slots, NEW selection, SelectSchemas(s, selection)
    PROVE  SettingsInv'
<1>1. Customizes(s, List, ListOf(selection), selection)
  BY DEF SelectSchemas, Customizes, List
<1> QED
  BY <1>1, CustomizesStep DEF List, Addition

\* What has been selected before an object is saved is what its file will have.
LEMMA SavedSelection ==
    ASSUME NEW s \in Slots, IsObject(custom_settings[s]), custom_settings[s].modified,
           SlotTypeOK(s), AddsToPatch(s), SelectsSchemas(s), SelectsAsSeen(s),
           SettingsOf[s].kind = "switcher", custom_settings[s].loaded, custom_settings[s].current,
           LET patch == PatchIn(SignedFile(custom_settings[s].custom))
           IN  List \in DOMAIN patch /\ Addition \notin DOMAIN patch
    PROVE  custom_settings[s].selection
               = GetSelectedSchemas(PatchIn(SignedFile(custom_settings[s].custom)))
<1> DEFINE map == PatchOf(custom_settings[s].custom)
           read == LoadedMap(seen[s])
<1>1. PatchIn(SignedFile(custom_settings[s].custom)) = Emitted(map)
  BY SavedMap DEF IsObject
<1>2. Emitted(map) = Emitted(Patched(read, customized[s]))
  BY DEF AddsToPatch
<1>3. /\ List \in DOMAIN Emitted(map) /\ Addition \notin DOMAIN Emitted(map)
      /\ List \in DOMAIN map /\ Emitted(map)[List] = map[List]
  BY <1>1 DEF Emitted
<1>4. CASE List \in DOMAIN customized[s]
  <2>1. map[List] = ListOf(custom_settings[s].selection)
    BY <1>4 DEF SelectsSchemas
  <2> QED
    BY <1>1, <1>3, <2>1 DEF GetSelectedSchemas, ItemAtPath, ListOf, List
<1>5. CASE List \notin DOMAIN customized[s]
  <2> HIDE DEF map, read
  <2>1. /\ List \in DOMAIN Emitted(Patched(read, customized[s]))
        /\ Addition \notin DOMAIN Emitted(Patched(read, customized[s]))
        /\ Emitted(Patched(read, customized[s]))[List] = map[List]
    BY <1>2, <1>3
  <2>2. List \in DOMAIN read /\ read[List] = map[List]
    BY <1>5, <2>1 DEF Emitted, Patched
  <2>3. Addition \in DOMAIN read => read[Addition] = NoItem
    BY <2>1 DEF SlotTypeOK, Emitted, Patched
  <2>4. read = PatchOf(Loaded(seen[s])) /\ IsCustomFile(Loaded(seen[s])) /\ IsReadable(Loaded(seen[s]))
    BY LoadedFile DEF SlotTypeOK, read, LoadedMap
  <2>5. Loaded(seen[s]).patch.type = "map" /\ read = Loaded(seen[s]).patch.map
    <3>1. DOMAIN << >> = {}
      OBVIOUS
    <3> QED
      BY <2>2, <2>4, <3>1 DEF PatchOf
  <2>6. IsReadable(seen[s]) /\ Loaded(seen[s]) = seen[s]
    BY <2>5 DEF Loaded, Empty, CustomFile, NoItem
  <2>7. PatchIn(seen[s]) = read
    BY <2>5, <2>6 DEF PatchIn, NoItem
  <2>8. Addition \notin DOMAIN read
    BY <2>3, <2>4, <2>5, ReadableFile DEF NoItem
  <2>9. custom_settings[s].selection = GetSelectedSchemas(read)
    BY <1>5, <2>2, <2>7, <2>8 DEF SelectsAsSeen
  <2>10. ItemAtPath(read, List) = ItemAtPath(Emitted(map), List)
    BY <1>3, <2>2 DEF ItemAtPath
  <2> QED
    BY <1>1, <2>9, <2>10 DEF GetSelectedSchemas, List, map
<1> QED
  BY <1>4, <1>5

\* The schemas that were saved last stay in the file of whoever loads it and saves it.
LEMMA SavedChoice ==
    ASSUME SettingsInv, NEW s \in Slots, SaveSettings(s)
    PROVE  ChosenInFile'
<1> DEFINE o == custom_settings[s]
           file == SignedFile(o.custom)
           map == PatchOf(o.custom)
<1>1. /\ o.open /\ o.modified
      /\ custom_file' = [ custom_file EXCEPT ![SettingsOf[s].config] = file ]
      /\ DOMAIN custom_file = DOMAIN Original /\ SettingsOf[s].config \in DOMAIN Original
      /\ chosen' = CASE List \in DOMAIN customized[s] -> Chosen(o.selection)
                     [] List \notin DOMAIN customized[s] /\ SavesOnWhatIs(s) -> chosen
                     [] OTHER -> NotKnown
  BY SettingsAssumption DEF SettingsInv, SettingsTypeOK, SaveSettings, CanSave, List, Slots
<1>2. SlotTypeOK(s) /\ AddsToPatch(s) /\ SelectsSchemas(s)
  BY <1>1 DEF SettingsInv, SlotInv
<1>3. IsObject(o)
  BY <1>1, <1>2 DEF SlotTypeOK, NotOpen
<1>4. IsReadable(file) /\ file.patch = MapOf(Emitted(map))
  BY <1>1, <1>3, SignedFileType DEF IsObject
<1>5. file.patch.type = "map" /\ file.patch.map = Emitted(map)
  BY <1>4 DEF MapOf
<1> HIDE DEF o, file, map
<1>6. CASE List \in DOMAIN customized[s]
  <2>1. /\ SettingsOf[s].config = "default"
        /\ List \in DOMAIN map /\ map[List] = ListOf(o.selection)
    BY <1>2, <1>6, SettingsAssumption DEF SelectsSchemas, Slots, o, map
  <2>2. List \in DOMAIN Emitted(map) /\ Emitted(map)[List] = ListOf(o.selection)
    BY <2>1 DEF Emitted, ListOf, NoItem
  <2>3. chosen'.selection = o.selection /\ custom_file'["default"] = file
    BY <1>1, <1>6, <2>1 DEF Chosen
  <2> QED
    BY <1>4, <1>5, <2>2, <2>3 DEF ChosenInFile
<1>7. CASE List \notin DOMAIN customized[s] /\ SavesOnWhatIs(s) /\ SettingsOf[s].config = "default" /\ chosen.known
  <2>1. /\ IsReadable(custom_file["default"]) /\ custom_file["default"].patch.type = "map"
        /\ List \in DOMAIN custom_file["default"].patch.map
        /\ custom_file["default"].patch.map[List] = ListOf(chosen.selection)
    BY <1>7 DEF SettingsInv, ChosenInFile
  <2>2. o.loaded /\ seen[s] = custom_file["default"]
    BY <1>7 DEF SavesOnWhatIs, FileOf, o
  <2>3. LoadedMap(seen[s]) = custom_file["default"].patch.map
    BY <2>1, <2>2 DEF LoadedMap, Loaded, PatchOf
  <2>4. Emitted(map) = Emitted(Patched(LoadedMap(seen[s]), customized[s]))
    BY <1>2, <2>2 DEF AddsToPatch, o, map
  <2>5. /\ List \in DOMAIN Emitted(Patched(LoadedMap(seen[s]), customized[s]))
        /\ Emitted(Patched(LoadedMap(seen[s]), customized[s]))[List] = ListOf(chosen.selection)
    BY <1>7, <2>1, <2>3 DEF Emitted, Patched, ListOf, NoItem
  <2>6. chosen' = chosen /\ custom_file'["default"] = file
    BY <1>1, <1>7
  <2> QED
    BY <1>4, <1>5, <2>4, <2>5, <2>6 DEF ChosenInFile
<1>8. CASE List \notin DOMAIN customized[s] /\ SavesOnWhatIs(s) /\ SettingsOf[s].config # "default"
  <2>1. chosen' = chosen /\ custom_file'["default"] = custom_file["default"]
    BY <1>1, <1>8
  <2> QED
    BY <2>1 DEF SettingsInv, ChosenInFile
<1>9. CASE List \notin DOMAIN customized[s] /\ ~SavesOnWhatIs(s)
  <2>1. chosen' = NotKnown
    BY <1>1, <1>9
  <2> QED
    BY <2>1 DEF ChosenInFile, NotKnown
<1>10. CASE List \notin DOMAIN customized[s] /\ SavesOnWhatIs(s) /\ ~chosen.known
  <2>1. chosen' = chosen
    BY <1>1, <1>10
  <2> QED
    BY <1>10, <2>1 DEF ChosenInFile
<1> QED
  BY <1>6, <1>7, <1>8, <1>9, <1>10

LEMMA SaveSettingsStep ==
    ASSUME SettingsInv, NEW s \in Slots, SaveSettings(s)
    PROVE  SettingsInv'
<1> DEFINE o == custom_settings[s]
           file == SignedFile(o.custom)
           written == CustomFile(o.custom.patch, TRUE)
<1>1. /\ o.open /\ o.modified /\ SettingsOf[s].config \in DOMAIN Original
      /\ custom_file' = [ custom_file EXCEPT ![SettingsOf[s].config] = file ]
      /\ custom_settings'[s] = Changed(o, written, FALSE, o.selection)
      /\ seen'[s] = file /\ customized'[s] = << >>
      /\ \A t \in Slots \ {s} : UNCHANGED << custom_settings[t], seen[t], customized[t] >>
      /\ DOMAIN custom_settings' = Slots /\ DOMAIN seen' = Slots /\ DOMAIN customized' = Slots
      /\ UNCHANGED deployed
  BY SettingsAssumption DEF SettingsInv, SettingsTypeOK, SaveSettings, CanSave, Slots
<1>2. SlotTypeOK(s) /\ AddsToPatch(s) /\ SelectsSchemas(s) /\ SelectsAsSeen(s)
  BY <1>1 DEF SettingsInv, SlotInv
<1>3. IsObject(o)
  BY <1>1, <1>2 DEF SlotTypeOK, NotOpen
<1>4. IsCustomFile(o.custom) /\ IsReadable(o.custom) /\ o.custom.patch.type = "map"
  BY <1>1, <1>3 DEF IsObject
<1>5. /\ IsCustomFile(file) /\ LoadedMap(file) = Emitted(PatchOf(o.custom))
      /\ PatchOf(written) = PatchOf(o.custom)
  BY <1>4, SignedFileType, SavedMap DEF PatchOf, CustomFile
<1>6. IsCustomFile(written) /\ IsReadable(written)
  BY <1>4, ReadableFile DEF IsCustomFile, IsReadable, CustomFile, Addition
<1>7. DOMAIN << >> = {}
  OBVIOUS
<1>8. SelectsAsSeen(s)'
  <2>1. SettingsOf[s].kind = "switcher" /\ o.loaded /\ o.current
        /\ List \in DOMAIN PatchIn(file) /\ Addition \notin DOMAIN PatchIn(file)
        => o.selection = GetSelectedSchemas(PatchIn(file))
    BY <1>1, <1>2, <1>3, SavedSelection
  <2>2. /\ custom_settings'[s].loaded = o.loaded /\ custom_settings'[s].current = o.current
        /\ custom_settings'[s].selection = o.selection
    BY <1>1 DEF Changed
  <2> QED
    BY <1>1, <2>1, <2>2 DEF SelectsAsSeen
<1> HIDE DEF o, file, written
<1>9. /\ IsObject(custom_settings'[s]) /\ custom_settings'[s].open
      /\ custom_settings'[s].custom = written /\ custom_settings'[s].loaded = o.loaded
  BY <1>1, <1>6 DEF Changed, IsObject
<1>10. SlotTypeOK(s)'
  BY <1>1, <1>5, <1>7, <1>9 DEF SlotTypeOK
<1>11. AddsToPatch(s)'
  <2>1. Emitted(Patched(LoadedMap(file), << >>)) = Emitted(LoadedMap(file))
    BY <1>7, NothingPatched
  <2>2. Emitted(LoadedMap(file)) = Emitted(PatchOf(written))
    BY <1>5, EmittedTwice
  <2> QED
    BY <1>1, <1>9, <2>1, <2>2 DEF AddsToPatch
<1>12. SelectsSchemas(s)'
  BY <1>1, <1>7 DEF SelectsSchemas
<1>13. \A t \in Slots \ {s} : SlotInv(t)'
  BY <1>1, SlotFrame
<1>14. SettingsTypeOK'
  BY <1>1, <1>5 DEF SettingsInv, SettingsTypeOK
<1> QED
  BY <1>8, <1>9, <1>10, <1>11, <1>12, <1>13, <1>14, SavedChoice DEF SettingsInv, SlotInv

\* Steps that write a custom file behind the back of the objects.
LEMMA FileStep ==
    ASSUME SettingsInv, NEW id \in DOMAIN Original, NEW file, IsCustomFile(file),
           custom_file' = [ custom_file EXCEPT ![id] = file ],
           UNCHANGED << deployed, custom_settings, seen, customized >>, ChosenInFile'
    PROVE  SettingsInv'
<1>1. \A t \in Slots : SlotInv(t)'
  BY SlotFrame
<1>2. SettingsTypeOK'
  BY DEF SettingsInv, SettingsTypeOK
<1> QED
  BY <1>1, <1>2 DEF SettingsInv

LEMMA PatchingStep ==
    ASSUME SettingsInv, NEW id \in DOMAIN Original, NEW v \in Customizations, NEW item,
           Patching(id, v.path, item)
    PROVE  SettingsInv'
<1> DEFINE before == custom_file[id]
           custom == Customized(Loaded(before), v.path, item)
           file == SignedFile(custom)
<1>1. /\ custom_file' = [ custom_file EXCEPT ![id] = file ]
      /\ chosen' = IF CanBePatched(before) THEN chosen ELSE NotKnown
      /\ UNCHANGED << deployed, custom_settings, seen, customized >>
      /\ v.path # List /\ v.path # Addition
      /\ IsCustomFile(before) /\ DOMAIN custom_file = DOMAIN Original
  BY SettingsAssumption DEF Patching, SettingsInv, SettingsTypeOK, List, Addition
<1>2. /\ IsCustomFile(custom) /\ IsReadable(custom) /\ custom.patch.type = "map"
      /\ PatchOf(custom) = PutAt(PatchOf(Loaded(before)), v.path, item)
  BY <1>1, LoadedFile, CustomizedFile
<1>3. /\ IsCustomFile(file) /\ IsReadable(file)
      /\ file.patch = MapOf(Emitted(PatchOf(custom)))
  BY <1>2, SignedFileType
<1> HIDE DEF before, custom, file
<1>4. ChosenInFile'
  <2> SUFFICES ASSUME chosen'.known
               PROVE  /\ IsReadable(custom_file'["default"]) /\ custom_file'["default"].patch.type = "map"
                      /\ List \in DOMAIN custom_file'["default"].patch.map
                      /\ custom_file'["default"].patch.map[List] = ListOf(chosen'.selection)
    BY DEF ChosenInFile
  <2>1. chosen' = chosen
    BY <1>1 DEF NotKnown
  <2>2. /\ IsReadable(custom_file["default"]) /\ custom_file["default"].patch.type = "map"
        /\ List \in DOMAIN custom_file["default"].patch.map
        /\ custom_file["default"].patch.map[List] = ListOf(chosen.selection)
    BY <2>1 DEF SettingsInv, ChosenInFile
  <2>3. CASE id = "default"
    <3>1. PatchOf(Loaded(before)) = custom_file["default"].patch.map
      BY <2>2, <2>3 DEF PatchOf, Loaded, before
    <3>2. List \in DOMAIN PatchOf(custom) /\ PatchOf(custom)[List] = ListOf(chosen.selection)
      BY <1>1, <1>2, <2>2, <3>1 DEF PutAt
    <3>3. /\ List \in DOMAIN Emitted(PatchOf(custom))
          /\ Emitted(PatchOf(custom))[List] = ListOf(chosen.selection)
      BY <3>2 DEF Emitted, ListOf, NoItem
    <3>4. file.patch.type = "map" /\ file.patch.map = Emitted(PatchOf(custom))
      BY <1>3 DEF MapOf
    <3>5. custom_file'["default"] = file
      BY <1>1, <2>3
    <3> QED
      BY <1>3, <2>1, <3>3, <3>4, <3>5
  <2>4. CASE id # "default"
    BY <1>1, <2>1, <2>2, <2>4
  <2> QED
    BY <2>3, <2>4
<1> QED
  BY <1>1, <1>3, <1>4, FileStep

LEMMA EditCustomFileStep ==
    ASSUME SettingsInv, NEW id \in DOMAIN Original, NEW file \in CustomFiles, EditCustomFile(id, file)
    PROVE  SettingsInv'
<1>1. ChosenInFile'
  BY DEF EditCustomFile, ChosenInFile, NotKnown
<1>2. IsCustomFile(file)
  BY SettingsAssumption
<1> QED
  BY <1>1, <1>2, FileStep DEF EditCustomFile

LEMMA DeployConfigStep ==
    ASSUME SettingsInv, NEW id \in DOMAIN Original, DeployConfig(id)
    PROVE  SettingsInv'
<1>1. \A t \in Slots : SlotInv(t)'
  BY SlotFrame DEF DeployConfig
<1> QED
  BY <1>1 DEF DeployConfig, SettingsInv, SettingsTypeOK, ChosenInFile

LEMMA SettingsStep ==
    ASSUME SettingsInv, [SettingsNext]_settingsVars
    PROVE  SettingsInv'
<1>1. ASSUME NEW s \in Slots, InitSettings(s) PROVE SettingsInv'
  BY <1>1, InitSettingsStep
<1>2. ASSUME NEW s \in Slots, LoadSettings(s) PROVE SettingsInv'
  BY <1>2, LoadSettingsStep
<1>3. ASSUME NEW s \in Slots, Customize(s) PROVE SettingsInv'
  BY <1>3, CustomizeStep DEF Customize
<1>4. ASSUME NEW s \in Slots, NEW selection \in Selections, SelectSchemas(s, selection) PROVE SettingsInv'
  BY <1>4, SelectSchemasStep
<1>5. ASSUME NEW s \in Slots, SaveSettings(s) PROVE SettingsInv'
  BY <1>5, SaveSettingsStep
<1>6. ASSUME NEW s \in Slots, DestroySettings(s) PROVE SettingsInv'
  BY <1>6, DestroySettingsStep
<1>7. ASSUME NEW id \in DOMAIN Original, ApplyPatch(id) PROVE SettingsInv'
  BY <1>7, PatchingStep DEF ApplyPatch
<1>8. ASSUME NEW id \in DOMAIN Original, NEW file \in CustomFiles, EditCustomFile(id, file) PROVE SettingsInv'
  BY <1>8, EditCustomFileStep
<1>9. ASSUME NEW id \in DOMAIN Original, DeployConfig(id) PROVE SettingsInv'
  BY <1>9, DeployConfigStep
<1>10. CASE UNCHANGED settingsVars
  <2>1. \A t \in Slots : SlotInv(t)'
    BY <1>10, SlotFrame DEF settingsVars
  <2> QED
    BY <1>10, <2>1 DEF settingsVars, SettingsInv, SettingsTypeOK, ChosenInFile
<1> QED
  BY <1>1, <1>2, <1>3, <1>4, <1>5, <1>6, <1>7, <1>8, <1>9, <1>10 DEF SettingsNext

\* The schemas that have been selected and saved are those that settings are loaded
\* with after the next deployment, whatever has been saved since by those who had read
\* them (switcher_settings.cc:21-42, custom_settings.cc:30-84).
THEOREM SelectionReturns == SettingsSpec => []SelectionComesBack
<1>1. SettingsInv => SelectionComesBack
  <2> SUFFICES ASSUME SettingsInv, NEW s \in Slots,
                      SettingsOf[s].kind = "switcher", custom_settings[s].open, custom_settings[s].loaded,
                      List \notin DOMAIN customized[s], custom_settings[s].current, seen[s] = FileOf(s),
                      chosen.known, Addition \notin DOMAIN PatchIn(FileOf(s))
               PROVE  custom_settings[s].selection = chosen.selection
    BY DEF SelectionComesBack, List, Addition
  <2>1. FileOf(s) = custom_file["default"]
    BY SettingsAssumption DEF FileOf, Slots
  <2>2. /\ List \in DOMAIN PatchIn(FileOf(s))
        /\ PatchIn(FileOf(s))[List] = ListOf(chosen.selection)
    BY <2>1 DEF SettingsInv, ChosenInFile, PatchIn, NoItem
  <2>3. SelectsAsSeen(s)
    BY DEF SettingsInv, SlotInv
  <2>4. custom_settings[s].selection = GetSelectedSchemas(PatchIn(FileOf(s)))
    BY <2>2, <2>3 DEF SelectsAsSeen
  <2> QED
    BY <2>2, <2>4 DEF GetSelectedSchemas, ItemAtPath, ListOf, List
<1> QED
  BY <1>1, SettingsInitInv, SettingsStep, PTL DEF SettingsSpec

\* What an object saves, when it was loaded from the file as it is, is the patch of
\* the file with what has been customized in the object, and nothing else
\* (custom_settings.cc:30-84).
THEOREM CustomizationsSaved == SettingsSpec => SavesCustomizations
<1> DEFINE Saves == \A s \in Slots :
                      SaveSettings(s) /\ SavesOnWhatIs(s) =>
                        /\ FileOf(s)'.patch = MapOf(Emitted(Patched(PatchMap(FileOf(s)), customized[s])))
                        /\ FileOf(s)'.signed
<1>1. SettingsInv => Saves
  <2> SUFFICES ASSUME SettingsInv, NEW s \in Slots, SaveSettings(s), SavesOnWhatIs(s)
               PROVE  /\ FileOf(s)'.patch = MapOf(Emitted(Patched(PatchMap(FileOf(s)), customized[s])))
                      /\ FileOf(s)'.signed
    OBVIOUS
  <2> DEFINE custom == custom_settings[s].custom
  <2>1. /\ custom_settings[s].open /\ custom_settings[s].modified /\ custom_settings[s].loaded
        /\ FileOf(s)' = SignedFile(custom)
        /\ seen[s] = FileOf(s) /\ CanBePatched(FileOf(s))
    BY SettingsAssumption
       DEF SaveSettings, CanSave, SavesOnWhatIs, FileOf, SettingsInv, SettingsTypeOK, Slots
  <2>2. SlotTypeOK(s) /\ AddsToPatch(s)
    BY <2>1 DEF SettingsInv, SlotInv
  <2>3. IsCustomFile(custom) /\ IsReadable(custom) /\ custom.patch.type = "map"
    BY <2>1, <2>2 DEF SlotTypeOK, NotOpen, IsObject
  <2>4. LoadedMap(FileOf(s)) = PatchMap(FileOf(s))
    BY <2>1, <2>2, LoadedPatch DEF SlotTypeOK
  <2>5. Emitted(PatchOf(custom)) = Emitted(Patched(PatchMap(FileOf(s)), customized[s]))
    BY <2>1, <2>2, <2>4 DEF AddsToPatch
  <2> QED
    BY <2>1, <2>3, <2>5, SignedFileType
<1> QED
  BY <1>1, SettingsInitInv, SettingsStep, PTL DEF SettingsSpec, SavesCustomizations

-----------------------------------------------------------------------------
(* Switches *)

\* In a group of which one option is on, that option is what the others are not.
OneIsOn(opts, sw) ==
    \E name \in OptionsOf(sw) : \A n \in OptionsOf(sw) : opts[n] = (n = name)

GroupsShown(id) ==
    { sw \in ToSet(SwitchesOf[id]) : sw.labelled /\ sw.type = "radio" }

\* While the menu shows the groups of the session's schema, one option of each is on.
MenuInv == active /\ menu_schema = schema /\ schema \in Schemas =>
    \A sw \in GroupsShown(schema) : OneIsOn(options, sw)

\* The names in a switch of a schema are options, and lead back to it.
LEMMA OptionsLeadToSwitch ==
    ASSUME NEW id \in Schemas, NEW sw \in ToSet(SwitchesOf[id]), NEW name \in OptionsOf(sw)
    PROVE  name \in OptionNames /\ Having(id, name) # {} /\ OptionByName(id, name) = sw
<1> DEFINE S == SwitchesOf[id]
<1>1. S \in Seq(Switches)
  BY SwitchesAssumption
<1>2. PICK i \in DOMAIN S : sw = S[i]
  BY DEF ToSet
<1>3. sw.options \in Seq(OptionNames)
  <2>1. sw \in Switches
    BY <1>1, <1>2
  <2> QED
    BY <2>1 DEF Switches
<1>4. PICK j \in DOMAIN sw.options : name = sw.options[j]
  BY DEF OptionsOf
<1>5. name \in OptionNames
  BY <1>3, <1>4
<1>6. i \in Having(id, name)
  BY <1>2, <1>4 DEF Having, OptionsOf
<1>7. ASSUME NEW k \in Having(id, name) PROVE k = i
  <2>1. k \in DOMAIN S /\ name \in OptionsOf(S[k])
    BY DEF Having
  <2>2. PICK m \in DOMAIN S[k].options : name = S[k].options[m]
    BY <2>1 DEF OptionsOf
  <2>3. \A p \in DOMAIN S[i].options : \A n \in DOMAIN S :
          \A q \in DOMAIN S[n].options : S[i].options[p] = S[n].options[q] => i = n
    BY SwitchesAssumption
  <2>4. S[i].options[j] = S[k].options[m]
    BY <1>2, <1>4, <2>2
  <2> HIDE DEF S
  <2> QED
    BY <1>2, <1>4, <2>1, <2>2, <2>3, <2>4
<1> QED
  BY <1>2, <1>5, <1>6, <1>7 DEF OptionByName

\* RefreshMenu selects one option in every group that it shows.
LEMMA GroupsAreSelected ==
    ASSUME NEW id \in Schemas, NEW opts, NEW sw \in GroupsShown(id)
    PROVE  OneIsOn(WithGroupsSelected(id, opts), sw)
<1> DEFINE theOne == SelectedName(opts, sw)
<1>1. sw \in ToSet(SwitchesOf[id]) /\ sw.labelled /\ sw.type = "radio"
  BY DEF GroupsShown
<1>2. ASSUME NEW n \in OptionsOf(sw)
      PROVE  WithGroupsSelected(id, opts)[n] = (n = theOne)
  BY <1>1, OptionsLeadToSwitch DEF WithGroupsSelected, Shown, IsRadioOption
<1>3. theOne \in OptionsOf(sw)
  <2>1. sw.options \in Seq(OptionNames) /\ sw.options # <<>>
    <3>1. PICK i \in DOMAIN SwitchesOf[id] : sw = SwitchesOf[id][i]
      BY <1>1 DEF ToSet
    <3>2. SwitchesOf[id] \in Seq(Switches) /\ sw.options # <<>>
      BY <3>1, SwitchesAssumption
    <3>3. sw \in Switches
      BY <3>1, <3>2
    <3> QED
      BY <3>2, <3>3 DEF Switches
  <2>2. 1 \in DOMAIN sw.options
    BY <2>1
  <2>3. FirstOn(opts, sw) = 0 \/ FirstOn(opts, sw) \in DOMAIN sw.options
    <3> DEFINE on == { j \in DOMAIN sw.options : opts[sw.options[j]] }
    <3>1. CASE on = {}
      BY <3>1 DEF FirstOn
    <3>2. CASE on # {}
      <4>1. on \subseteq Nat
        BY <2>1
      <4>2. PICK j \in on : \A k \in on : << k, j >> \notin OpToRel(<, Nat)
        BY <3>2, <4>1, NatLessThanWellFounded, WFMin, Zenon
      <4>3. \A k \in on : ~(k < j)
        BY <4>1, <4>2 DEF OpToRel
      <4>4. \A k \in on : j <= k
        BY <4>1, <4>3
      <4>5. FirstOn(opts, sw) = CHOOSE i \in on : \A k \in on : i <= k
        BY <3>2 DEF FirstOn
      <4>6. FirstOn(opts, sw) \in on
        BY <4>4, <4>5, Zenon
      <4> QED
        BY <4>6
    <3> QED
      BY <3>1, <3>2
  <2> QED
    BY <2>2, <2>3 DEF SelectedName, OptionsOf
<1> QED
  BY <1>2, <1>3 DEF OneIsOn

-----------------------------------------------------------------------------
(* The menu *)

LEMMA RefreshSelects ==
    ASSUME NEW fold, RefreshMenu(fold)
    PROVE  MenuInv'
<1>1. schema' = schema /\ options' = WithGroupsSelected(schema, options)
  BY DEF RefreshMenu
<1> QED
  BY <1>1, GroupsAreSelected DEF MenuInv, OneIsOn, GroupsShown

LEMMA MenuInvStep ==
    ASSUME MenuInv, SwitcherNext
    PROVE  MenuInv'
<1>1. CASE UNCHANGED << schema, options, active, menu_schema >>
  BY <1>1 DEF MenuInv, OneIsOn, GroupsShown
<1>2. CASE ~active'
  BY <1>2 DEF MenuInv
<1>3. CASE Activate
  BY <1>3, RefreshSelects DEF Activate
<1>4. CASE HighlightNextSchema \/ \E index \in DOMAIN menu : Highlight(index)
  BY <1>1, <1>4 DEF HighlightNextSchema, Highlight
<1>5. CASE Deactivate \/ NewSession
  BY <1>2, <1>5 DEF Deactivate, NewSession, Close
<1>6. ASSUME NEW index \in DOMAIN menu, OnSelect(index) PROVE MenuInv'
  <2>1. CASE Unfold(menu[index])
    BY <2>1, RefreshSelects DEF Unfold
  <2>2. CASE ~Unfold(menu[index])
    BY <1>2, <1>6, <2>2 DEF OnSelect, ApplySelection, ApplySwitch, ApplyRadio, Close
  <2> QED
    BY <2>1, <2>2
<1>7. ASSUME NEW name, toggle_option(name) \/ set_option(name) \/ unset_option(name)
      PROVE  MenuInv'
  BY <1>2, <1>7 DEF toggle_option, set_option, unset_option, Bound, switcherVars
<1>8. ASSUME NEW name, NEW on, RimeSetOption(name, on) PROVE MenuInv'
  BY <1>1, <1>2, <1>8 DEF RimeSetOption, switcherVars
<1>9. CASE SelectNextSchema
  BY <1>2, <1>9 DEF SelectNextSchema, switcherVars
<1>10. ASSUME NEW id \in Schemas, RimeSelectSchema(id) PROVE MenuInv'
  <2>1. schema' = id /\ menu_schema' = NoSchema
    BY <1>10 DEF RimeSelectSchema, ApplySchema
  <2> QED
    BY <2>1, SwitchesAssumption DEF MenuInv
<1> QED
  BY <1>3, <1>4, <1>5, <1>6, <1>7, <1>8, <1>9, <1>10 DEF SwitcherNext

\* One option of every group on display is on, from the menu's opening to its closing.
LEMMA MenuInvAlways == SwitcherSpec => []MenuInv
<1>1. SwitcherInit => MenuInv
  BY DEF SwitcherInit, MenuInv
<1>2. MenuInv /\ [SwitcherNext]_sessionVars => MenuInv'
  <2>1. ASSUME MenuInv, UNCHANGED sessionVars PROVE MenuInv'
    BY <2>1 DEF MenuInv, OneIsOn, GroupsShown, sessionVars, switcherVars
  <2> QED
    BY <2>1, MenuInvStep
<1> QED
  BY <1>1, <1>2, PTL DEF SwitcherSpec

\* While the menu is open, exactly one option is on in each of the groups that it
\* shows (switch_translator.cc), whatever happened to the options before.
THEOREM MenuShowsOneOptionAlways == SwitcherSpec => []MenuShowsOneOption
<1>1. MenuInv => MenuShowsOneOption
  <2> SUFFICES ASSUME MenuInv, NEW sw \in GroupsOnDisplay
               PROVE  \E name \in OptionsOf(sw) : OnIn(options, sw) = {name}
    BY DEF MenuShowsOneOption
  <2>1. OneIsOn(options, sw)
    BY DEF MenuInv, GroupsOnDisplay, GroupsShown
  <2> QED
    BY <2>1 DEF OneIsOn, OnIn
<1> QED
  BY <1>1, MenuInvAlways, PTL

\* What is chosen in a group was not on, and the option that was on is then off, and
\* RadioGroup::SelectOption saves both; or it was on, and nothing changes.
LEMMA RadioIsSaved ==
    ASSUME NEW id \in Schemas, NEW sw \in GroupsShown(id), NEW index,
           OneIsOn(options, sw), OptionsOf(sw) \subseteq SaveOptions,
           SavedOn(sw) \in { {}, OnIn(options, sw) },
           options' = RadioSelect(options, sw, index), saved' = SaveChanged(options')
    PROVE  SavedOn(sw)' = OnIn(options', sw) \/ StaysUnsaved(sw)
<1>1. PICK on \in OptionsOf(sw) : \A n \in OptionsOf(sw) : options[n] = (n = on)
  BY DEF OneIsOn
<1>2. \A n \in OptionsOf(sw) : n \in OptionNames
  BY OptionsLeadToSwitch DEF GroupsShown
<1> DEFINE new == sw.options[index]
<1>3. \A n \in OptionsOf(sw) : options'[n] = (n = new)
  BY <1>2 DEF RadioSelect
<1>4. OnIn(options, sw) = {on}
  BY <1>1 DEF OnIn
<1>5. \A n \in OptionsOf(sw) :
        saved'[n] = IF options'[n] = options[n] THEN saved[n]
                    ELSE IF options'[n] THEN "on" ELSE "off"
  BY DEF SaveChanged
<1>6. CASE on = new
  <2>1. \A n \in OptionsOf(sw) : saved'[n] = saved[n]
    BY <1>1, <1>3, <1>5, <1>6
  <2>2. OnIn(options', sw) = OnIn(options, sw)
    BY <1>1, <1>3, <1>6 DEF OnIn
  <2>3. SavedOn(sw)' = SavedOn(sw)
    BY <2>1 DEF SavedOn
  <2> QED
    BY <2>2, <2>3 DEF StaysUnsaved
<1>7. CASE on # new
  <2>1. ASSUME NEW n \in OptionsOf(sw) PROVE saved'[n] = "on" <=> options'[n]
    <3>1. CASE n = on
      BY <1>1, <1>3, <1>5, <1>7, <3>1
    <3>2. CASE n = new
      BY <1>1, <1>3, <1>5, <1>7, <3>2
    <3>3. CASE n # on /\ n # new
      <4>1. saved'[n] = saved[n]
        BY <1>1, <1>3, <1>5, <3>3
      <4>2. n \notin SavedOn(sw)
        BY <1>4, <3>3
      <4> QED
        BY <1>3, <3>3, <4>1, <4>2 DEF SavedOn
    <3> QED
      BY <3>1, <3>2, <3>3
  <2> QED
    BY <2>1 DEF SavedOn, OnIn
<1> QED
  BY <1>6, <1>7

\* An option that is chosen in the menu is the one that the next session restores, unless
\* it was on already and nothing had been saved of its group, which stays so
\* (RadioGroup::SelectOption, switch_translator.cc:121-134).
THEOREM ChoiceIsSavedAlways == SwitcherSpec => ChoiceIsSaved
<1> DEFINE Picked(sw) == \E index \in DOMAIN menu :
             menu[index].type = "radio" /\ menu[index].group = sw /\ OnSelect(index)
           Agreed == \A sw \in GroupsOnDisplay :
             /\ OptionsOf(sw) \subseteq SaveOptions
             /\ SavedOn(sw) \in { {}, OnIn(options, sw) }
             /\ Picked(sw)
             => SavedOn(sw)' = OnIn(options', sw) \/ StaysUnsaved(sw)
<1>1. MenuInv => Agreed
  <2> SUFFICES ASSUME MenuInv, NEW sw \in GroupsOnDisplay,
                      OptionsOf(sw) \subseteq SaveOptions,
                      SavedOn(sw) \in { {}, OnIn(options, sw) },
                      NEW index \in DOMAIN menu,
                      menu[index].type = "radio", menu[index].group = sw, OnSelect(index)
               PROVE  SavedOn(sw)' = OnIn(options', sw) \/ StaysUnsaved(sw)
    BY Zenon
  <2>1. schema \in Schemas /\ sw \in GroupsShown(schema) /\ OneIsOn(options, sw)
    BY DEF MenuInv, GroupsOnDisplay, GroupsShown
  <2>2. ApplyRadio(menu[index])
    BY DEF OnSelect, ApplySelection, ApplySwitch, Unfold
  <2>3. /\ options' = RadioSelect(options, sw, menu[index].index)
        /\ saved' = SaveChanged(options')
    BY <2>2 DEF ApplyRadio
  <2> QED
    BY <2>1, <2>3, RadioIsSaved
<1>2. MenuInv /\ [SwitcherNext]_sessionVars => [Agreed]_sessionVars
  BY <1>1
<1>3. ChoiceIsSaved <=> [][Agreed]_sessionVars
  BY DEF ChoiceIsSaved
<1> QED
  BY <1>2, <1>3, MenuInvAlways, PTL DEF SwitcherSpec
=============================================================================
