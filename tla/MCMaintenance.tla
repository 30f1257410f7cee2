--------------------------- MODULE MCMaintenance ---------------------------
(***************************************************************************)
(* What is maintained, in small instances for TLC: the service, by the     *)
(* calls of a client against the work thread, the databases of a user, and *)
(* the codes of a dictionary.  They have no variable in common, and a      *)
(* behaviour is one of one of them while the others stay as they are.      *)
(***************************************************************************)
EXTENDS MCService, Databases, Encoding

VARIABLE part

CONSTANTS word, hash
-----------------------------------------------------------------------------
\* A word that is in use, and one that is deleted.
MCRowValues == { [ commits |-> 1, tick |-> 1 ], [ commits |-> -1, tick |-> 1 ] }
-----------------------------------------------------------------------------
MCCodeLetters == << "'", "p", "q", "r", "s", "t" >>

p   == << "p" >>
q   == << "q" >>
r   == << "r" >>
pq  == << "p", "q" >>
pqr == << "p", "q", "r" >>

A  == << "A" >>
B_ == << "B" >>
C  == << "C" >>

Number(n)  == [ kind |-> "number", n |-> n ]
Percent(n) == [ kind |-> "percent", n |-> n ]
Bad        == [ kind |-> "bad", n |-> 0 ]

Row(text, code, weight)  == [ text |-> text, code |-> code, weight |-> weight, stem |-> NoCode ]
WithoutCode(text)        == Row(text, NoCode, NoWeight)
InEssay(text, weight)     == [ text |-> text, weight |-> weight ]
Rewriting(min, max, formula) == [ min |-> min, max |-> max, formula |-> formula ]

PlainSettings ==
  [ name |-> "d", import_tables |-> << >>, use_preset_vocabulary |-> FALSE, vocabulary |-> "",
    rules |-> << >>, excluded |-> {}, tail_anchor |-> {}, max_phrase_length |-> 0,
    min_phrase_weight |-> 0 ]

\* Codes that are rare, given twice, or have a stem; phrases with and without codes.
WordRows ==
  << Row(A, << p >>, Number(50)), Row(A, << q >>, Percent(50)), Row(A, << r >>, Number(1)),
     WithoutCode(A \o B_ \o A), Row(B_, << p >>, NoWeight), Row(A \o B_, << pq >>, Number(3)),
     Row(A, << p >>, NoWeight), [ Row(C, << q >>, NoWeight) EXCEPT !.stem = pq ], WithoutCode(A),
     Row(C \o A, NoCode, Number(2)), Row(A \o B_, NoCode, Bad) >>

Essay ==
  << InEssay(A, Number(40)), InEssay(A \o B_, Number(4)), InEssay(B_ \o A, Number(9)),
     InEssay(B_ \o C, Number(2)), InEssay(C, Bad), InEssay(A \o B_ \o A \o A, Number(5)) >>

WithSyllables(s) ==
  [ settings |-> s, files |-> "d" :> WordRows, presets |-> "essay" :> Essay, fixed |-> FALSE,
    syllabary |-> {} ]

\* AaAzBaBz for two characters, AaBaBzYzZaZyZz for three, and two bad rules.
TableRules ==
  << Rewriting(2, 2, << 0, 0, 0, 25, 1, 0, 1, 25 >>), Rewriting(3, 2, << 0, 0 >>),
     Rewriting(2, 2, << 0, 0, 0 >>),
     Rewriting(3, 3, << 0, 0, 1, 0, 1, 25, 24, 25, 25, 0, 25, 24, 25, 25 >>) >>

RowsForRules ==
  << Row(A, << pqr >>, Number(1)), Row(B_, << pq >>, Number(1)), Row(C, << q >>, NoWeight),
     Row(A, << << "s", "q", "'", "r", "t" >> >>, Number(2)), Row(C, << r >>, NoWeight),
     Row(B_, << pq, q >>, NoWeight), WithoutCode(A \o B_), WithoutCode(C \o A),
     WithoutCode(A \o B_ \o A), WithoutCode(B_ \o C), WithoutCode(A) >>

WithRules ==
  [ settings |-> [ PlainSettings EXCEPT !.rules = TableRules, !.excluded = {r}, !.tail_anchor = {"'"},
                                        !.import_tables = << "d", "e" >> ],
    files |-> ("d" :> RowsForRules) @@ ("e" :> << WithoutCode(B_ \o C \o B_ \o A) >>),
    presets |-> << >>, fixed |-> FALSE, syllabary |-> {} ]

WithEssay == WithSyllables([ PlainSettings EXCEPT !.use_preset_vocabulary = TRUE ])

\* The last but one is for a pack of a dictionary with two syllables.
MCDictionaries ==
  { WithSyllables(PlainSettings), WithEssay,
    WithSyllables([ PlainSettings EXCEPT !.vocabulary = "essay", !.max_phrase_length = 2,
                                         !.min_phrase_weight = 3 ]),
    [ WithEssay EXCEPT !.fixed = TRUE, !.syllabary = {p, pq} ],
    WithRules }
-----------------------------------------------------------------------------
maintenance == << vars, databaseVars, encodingVars, part >>

\* What a part does not use has one value.
MaintenanceInit ==
  /\ part \in {"calls", "database", "encoding"}
  /\ Init
  /\ part = "calls" \/ damaged = {}
  /\ part = "database" \/ (class = "userdb" /\ db_file = NoFile /\ snapshot = NoFile)
  /\ DatabaseInit
  /\ part = "encoding" \/ dictionary = WithRules
  /\ EncodingInit

MaintenanceNext ==
  \/ /\ part = "calls"      /\ Next
     /\ UNCHANGED << databaseVars, encodingVars, part >>
  \/ /\ part = "database"   /\ DatabaseNext
     /\ UNCHANGED << vars, encodingVars, part >>
  \/ /\ part = "encoding"   /\ EncodingNext
     /\ UNCHANGED << vars, databaseVars, part >>

MaintenanceSpec == MaintenanceInit /\ [][MaintenanceNext]_maintenance /\ Fairness
=============================================================================
