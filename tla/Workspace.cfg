CONSTANTS
  KeyOrder <- MCKeyOrder
  Documents <- MCDocuments
  Libraries <- MCLibraries
  Resources = {"A", "B"}
  Target = "A"
  Paths <- MCPaths
  Values <- MCValues
  MaxWrites = 1

  default_yaml = default_yaml
  pinyin_yaml = pinyin_yaml
  double_yaml = double_yaml
  dict_yaml = dict_yaml
  pack1_yaml = pack1_yaml
  pack2_yaml = pack2_yaml
  pinyin = pinyin
  double = double
  dict = dict
  pack1 = pack1
  pack2 = pack2
  NoDict = NoDict
  Absent = Absent
  Sources <- MCSources
  Watched <- MCSources
  SchemaOrder <- MCSchemaOrder
  SchemaFile <- MCSchemaFile
  ConfigSources <- MCConfigSources
  DictOf <- MCDictOf
  TableFile <- MCTableFile
  DictFiles <- MCDictFiles
  PacksOf <- MCPacksOf
  MaxEdits = 1
  MaxTime = 2

  Letters <- MCLetters
  Delimiters <- MCDelimiters
  Near <- MCNear
  Lexicons <- MCLexicons
  Translators <- MCTranslators
  MaxLetters = 4
  PageSize = 2
  kInitialSearchLimit = 1
  kExpandingFactor = 2
  kMaxCorrections = 1

  FilterLists <- MCFilterLists
  FilterSources <- MCTranslations
  FilterOptions <- MCFilterOptions
  SegmentTags = {{"abc"}, {"punct"}}
  ExtendedCjk = {"x"}
  RevSyllabary <- MCRevSyllabary
  RevVocabulary <- MCRevVocabulary

SPECIFICATION WorkspaceSpec

INVARIANTS
  ResolvesAsMeant
  DeployedIsCurrent
  ReadsAsSpelled
  FindsEntries
  MenuOffersAll
  BestSentence
  ExactFirst
  OffersFiltered

PROPERTIES
  WriteIsLocal

CHECK_DEADLOCK FALSE
