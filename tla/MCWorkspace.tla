----------------------------- MODULE MCWorkspace -----------------------------
(***************************************************************************)
(* What the data of a schema mean, in small instances for TLC: the         *)
(* configuration that documents are compiled to, the deployment of a       *)
(* schema with a dictionary and two packs, what is looked up in            *)
(* dictionaries, the candidates that are made of it and the filters they   *)
(* pass.  A behaviour is one of one of these parts while the others stay   *)
(* as they are.                                                            *)
(***************************************************************************)
EXTENDS MCConfig, Deployment, LookupProperties, Filters

VARIABLE part

CONSTANTS default_yaml, pinyin_yaml, double_yaml, dict_yaml, pack1_yaml, pack2_yaml,
          pinyin, double, dict, pack1, pack2

\* Two schemas on one dictionary; the first uses two packs with it.
MCSources ==
  {default_yaml, pinyin_yaml, double_yaml, dict_yaml, pack1_yaml, pack2_yaml}
MCConfigSources == ("default" :> {default_yaml}) @@ (pinyin :> {pinyin_yaml, default_yaml})
                     @@ (double :> {double_yaml})
MCTableFile   == (dict :> dict_yaml) @@ (pack1 :> pack1_yaml) @@ (pack2 :> pack2_yaml)
MCDictFiles   == (dict :> {dict_yaml}) @@ (pack1 :> {pack1_yaml}) @@ (pack2 :> {pack2_yaml})
MCSchemaOrder == << pinyin, double >>
MCSchemaFile  == (pinyin :> pinyin_yaml) @@ (double :> double_yaml)
MCDictOf      == (pinyin :> dict) @@ (double :> dict)
MCPacksOf     == (pinyin :> << pack1, pack2 >>) @@ (double :> << >>)

\* Bound: one configuration is cut off at a time, that of default.yaml while no other is
\* there, or that of pinyin behind one of its times of writing.
FewCutOff ==
  /\ Cut("default") => \A s \in Schemas : compiled[s] = Absent
  /\ Cut(pinyin) => default_yaml \notin DOMAIN compiled[pinyin].stamps
  /\ ~Cut(double)

NoDocuments == "A" :> Map(<< Entry(X, Plain), Entry(Y, Plain), Entry(Z, Plain) >>)
-----------------------------------------------------------------------------
MCLetters    == << "a", "b" >>
MCDelimiters == {"'"}
MCNear       == ("a" :> {"b"}) @@ ("b" :> {}) @@ ("'" :> {})

sa   == << "a" >>
sb   == << "b" >>
sab  == << "a", "b" >>
sba  == << "b", "a" >>
saaa == << "a", "a", "a" >>

Word(text, code, weight) == [ text |-> text, code |-> code, weight |-> weight ]
Rule(kind, from, to)     == [ kind |-> kind, rewrites |-> from :> to ]

\* A spelling that is a correction of a derived one.
Derived ==
  [ syllabary |-> {saaa, sb, sab},
    algebra   |-> << Rule("derive", saaa, << "a", "a" >>), Rule("fuzz", saaa, sba),
                     Rule("correction", << "a", "a" >>, sba) >>,
    tables    |-> << { Word(<< "A" >>, << saaa >>, -1000), Word(<< "B" >>, << sb >>, -2000),
                       Word(<< "C" >>, << sab >>, -3000), Word(<< "A", "B" >>, << saaa, sb >>, -1500) } >>,
    blacklist |-> {},
    phrases   |-> { Word(<< "A", "B" >>, << saaa, sb >>, -310), Word(<< "A", "C" >>, << saaa, sab >>, -310),
                    Word(<< "A" >>, << saaa >>, -310), Word(<< "B", "A" >>, << sb, saaa >>, -210) } ]

\* Fuzzy spellings, abbreviations and corrections, long words, and a pack.
Fuzzy ==
  [ syllabary |-> {sa, sb, sab, sba},
    algebra   |-> << Rule("fuzz", sab, sba), Rule("abbrev", sab, sa), Rule("abbrev", sba, sb),
                     Rule("correction", sa, sb) >>,
    tables    |-> << { Word(<< "A" >>, << sa >>, -1000), Word(<< "B" >>, << sb >>, -2000),
                       Word(<< "C" >>, << sab >>, -3000), Word(<< "D" >>, << sba >>, -2500),
                       Word(<< "E" >>, << sb >>, -5000), Word(<< "A", "B", "A" >>, << sa, sb, sa >>, -500),
                       Word(<< "F" >>, << sa, sb, sa, sb >>, -500),
                       Word(<< "G" >>, << sa, sb, sa, sb, sa >>, -600), Word(<< "H" >>, << sab, sba >>, -700) },
                     { Word(<< "I" >>, << sb >>, -3000), Word(<< "J" >>, << sa, sb, sa, sa >>, -600) } >>,
    blacklist |-> { << "B" >> },
    phrases   |-> { Word(<< "p" >>, << sa, sb, sa, sb, sa >>, -310), Word(<< "q" >>, << sa, sb >>, -310),
                    Word(<< "r" >>, << sab, sa >>, -310), Word(<< "s" >>, << sab, sb, sa >>, -310),
                    Word(<< "A" >>, << sba >>, -310), Word(<< "u" >>, << sba, sab >>, -310) } ]

\* Words by codes that begin alike.
Codes ==
  [ syllabary |-> {sa, sb, sab, sba, saaa},
    algebra   |-> << >>,
    tables    |-> << { Word(<< "A" >>, << sa >>, -1000), Word(<< "B" >>, << sb >>, -2000),
                       Word(<< "C" >>, << sab >>, -3000), Word(<< "D" >>, << sba >>, -2500),
                       Word(<< "E" >>, << sb >>, -5000), Word(<< "F" >>, << saaa >>, -4000),
                       Word(<< "D" >>, << sab >>, -4500) } >>,
    blacklist |-> {},
    phrases   |-> { Word(<< "p" >>, << sba >>, -310), Word(<< "q" >>, << sa >>, -310),
                    Word(<< "A" >>, << sab >>, -310) } ]

MCLexicons == {Derived, Fuzzy, Codes}

Script ==
  [ translator |-> "script", strict |-> FALSE, completion |-> TRUE, correction |-> FALSE,
    homophones |-> 1, initial |-> 0, sentence |-> FALSE, over_completion |-> FALSE ]
Table == [ Script EXCEPT !.translator = "table", !.sentence = TRUE ]

MCTranslators ==
  { << Script >>, << [ Script EXCEPT !.correction = TRUE ] >>,
    << [ Table EXCEPT !.over_completion = TRUE ] >>, << [ Table EXCEPT !.completion = FALSE ] >>,
    << Script, [ Table EXCEPT !.initial = 1 ] >> }
-----------------------------------------------------------------------------
sc  == << "c" >>
sx  == << "x" >>
sac == << "a", "c" >>

\* A character has two forms, one of which another dictionary converts again.
ZhSimp ==
  [ gear |-> "simplifier", tags |-> {}, option_name |-> "simplification", tips |-> "all",
    show_in_comment |-> FALSE, inherit_comment |-> TRUE, random |-> FALSE, excluded_types |-> {},
    opencc |-> << (sa :> << sa, sb >>) @@ (sab :> << sc >>),
                  (sb :> << sx >>) @@ (sac :> << << "b", "c" >>, sac >>) >> ]
ZhTw ==
  [ ZhSimp EXCEPT !.option_name = "zh_tw", !.tips = "char", !.show_in_comment = TRUE,
                  !.excluded_types = {"punct"}, !.opencc = << sb :> << sa, sc >> >> ]

CangjieLookup ==
  [ gear |-> "reverse_lookup_filter", tags |-> {"abc"}, has_dictionary |-> TRUE,
    overwrite_comment |-> FALSE, append_comment |-> TRUE ]

CharsetFilter    == [ gear |-> "charset_filter", tags |-> {}, name_space |-> "filter" ]
SingleCharFilter == [ gear |-> "single_char_filter" ]
Uniquifier       == [ gear |-> "uniquifier" ]

Passing(list)   == [ enable_charset_filter |-> FALSE, filters |-> list ]
Filtering(list) == [ enable_charset_filter |-> TRUE, filters |-> list ]

\* The first two are those of luna_pinyin and of cangjie5.
MCFilterLists ==
  { Passing(<< CangjieLookup, ZhSimp, ZhTw, Uniquifier >>),
    Filtering(<< ZhSimp, Uniquifier, SingleCharFilter >>),
    Filtering(<< CharsetFilter, ZhTw, Uniquifier, [ CangjieLookup EXCEPT !.overwrite_comment = TRUE ] >>),
    Passing(<< SingleCharFilter, [ ZhSimp EXCEPT !.random = TRUE ],
               [ CangjieLookup EXCEPT !.append_comment = FALSE ],
               [ CharsetFilter EXCEPT !.name_space = "" ], Uniquifier >>) }

Simple(type, text, comment) == [ kind |-> "simple", type |-> type, text |-> text, comment |-> comment ]

Kinds ==
  { Simple("user_table", sa, << >>), Simple("table", sab, << << "t" >> >>), Simple("table", sx, << >>),
    Simple("punct", sc, << >>), Simple("table", sb, << >>), Simple("phrase", sac, << << "t" >> >>) }

MCTranslations ==
  { [ i \in 1..4 |-> [ id |-> i ] @@ l[i] ] :
      l \in { k \in [ 1..4 -> Kinds ] : /\ k[2].text \in {sa, sac} /\ k[1] # k[2]
                                       /\ (k[3] = k[1] \/ k[3].type = "punct")
                                       /\ k[4].text \in {sa, sb} } }

MCFilterOptions == { {"simplification", "extended_charset"}, {"zh_tw"}, {"simplification", "zh_tw"} }
MCRevSyllabary  == << "p", "q", "r" >>
MCRevVocabulary ==
  { [ text |-> sa, code |-> << "q" >> ], [ text |-> sa, code |-> << "p" >> ],
    [ text |-> sab, code |-> << "r" >> ], [ text |-> sac, code |-> << "p" >> ],
    [ text |-> sc, code |-> << "p", "r" >> ], [ text |-> sc, code |-> << "r" >> ] }
-----------------------------------------------------------------------------
workspace == << vars, deployVars, menuVars, reading, filterVars, part >>

Plainly == [ strict |-> FALSE, completion |-> FALSE, correction |-> FALSE ]

\* What a part does not use has one value.
WorkspaceInit ==
  /\ part \in {"documents", "deployment", "lookup", "menu", "filters"}
  /\ part = "documents" \/ docs = NoDocuments
  /\ Init
  /\ DeployInit
  /\ part = "menu" \/ schema = << Script >>
  /\ MenuInit
  /\ CASE part = "lookup" -> lexicon.algebra # << >>
       [] part = "menu"   -> sa \in lexicon.syllabary
       [] OTHER           -> lexicon.algebra = << >>
  /\ reading \in { Evaluate(lexicon, << >>, options) :
                     options \in IF part = "lookup" THEN Options ELSE {Plainly} }
  /\ part = "filters" \/ (filters = << CangjieLookup, ZhSimp, ZhTw, Uniquifier >> /\ dice = 0)
  /\ FiltersInit

WorkspaceNext ==
  \/ /\ part = "documents"  /\ Next
     /\ UNCHANGED << deployVars, menuVars, reading, filterVars, part >>
  \/ /\ part = "deployment" /\ DeployNext /\ FewCutOff'
     /\ UNCHANGED << vars, menuVars, reading, filterVars, part >>
  \/ /\ part = "lookup"     /\ LexiconNext
     /\ UNCHANGED << vars, deployVars, schema, input, menu, filterVars, part >>
  \/ /\ part = "menu"       /\ MenuNext
     /\ UNCHANGED << vars, deployVars, reading, filterVars, part >>
  \/ /\ part = "filters"    /\ FiltersNext
     /\ UNCHANGED << vars, deployVars, menuVars, reading, part >>

WorkspaceSpec == WorkspaceInit /\ [][WorkspaceNext]_workspace
=============================================================================
