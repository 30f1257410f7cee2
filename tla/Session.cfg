CONSTANTS
  NoCandidate = NoCandidate
  s1 = s1
  s2 = s2
  script1 = script1
  table1 = table1
  script2 = script2
  Sessions <- MCSessions
  MemoriesOf <- MCMemoriesOf
  ScriptMemories = {script1, script2}
  Words = {"w"}
  Characters = {}
  MaxCount = 2
  MaxWords = 2
  MaxSegments = 2

  Processors <- MCProcessors
  Letters = {"a"}
  Printables = {"a", "j", "k", ".", " "}
  ChordKeys <- MCChordKeys
  Output <- MCOutput
  FirstRelease = FALSE
  SwitchKey <- MCSwitchKey
  GoodOldCaps = FALSE
  Bindings <- MCBindings
  Recognized <- MCRecognized
  Codes = {"Shift_L", "Caps_Lock", "a", "j", "k", ".", "Return", "BackSpace"}
  MaxInput = 2
  MaxHeld = 2
  MaxCalls = 4

  pinyin = pinyin
  cangjie = cangjie
  NoSchema = NoSchema
  OptionNames = {"x", "y", "z", "_t"}
  Transient = {"_t"}
  Schemas = {pinyin, cangjie}
  SwitchesOf <- MCSwitchesOf
  SchemaList <- MCSchemaList
  ModesOn = {"m"}
  SaveOptions = {"x", "y", "z", "_t"}
  FoldOptions = TRUE
  FixOrder = FALSE

  SettingsOf <- MCSettingsOf
  Original <- MCOriginal
  CustomFiles <- MCCustomFiles
  SchemaDirs <- MCSchemaDirs
  Selections <- MCSelections
  MaxFileWrites = 2
  Customizations <- MCCustomizations
  Handles = {"h1", "h2"}
  TypedValues <- MCTypedValues
  kIntMax = 7
  kDoubleScale = 10

SPECIFICATION SessionSpec

INVARIANTS
  FeedsAreNotNested
  ProcessorsFollow
  MenuShowsOneOption
  SelectionComesBack
  UserConfigIsShared

PROPERTIES
  LearnsWords
  OnlyBackSpaceForgets
  RawInputEnds
  KeyReturns
  ChoiceIsSaved
  SavesCustomizations
