-------------------------- MODULE DeploymentProofs --------------------------
(***************************************************************************)
(* What is deployed is current when an update ends well and when none is   *)
(* due.  That takes three things.  What is deployed tells what it is made  *)
(* of: a stamp or a checksum that fits the sources now means that it is    *)
(* made of them, since no version of a source comes back but "none".  An   *)
(* update brings the stamps and sums of the schemas that it has finished   *)
(* with in accord with the sources, and what it does for later schemas     *)
(* leaves them so.  And when nothing is to be done, nothing is undone.     *)
(***************************************************************************)
EXTENDS Deployment, TLAPS

Places == { "idle", "link", "list", "schema", "decide", "table", "reverse", "prism", "pack" }

\* From where the sources of the dictionary have been read to where its packs are built
Compiling == update.at \in { "table", "reverse", "prism", "pack" }

\* Versions that a file had or has, and no file will have again but 0.
Numbers == 0 .. (edits + 1)

Clock ==
    /\ content \in [ Sources -> Nat ] /\ mtime \in [ Sources -> Nat ]
    /\ now \in Nat /\ dir_mtime \in Nat /\ last_build_time \in Nat /\ edits \in Nat
    /\ \A f \in Sources : content[f] \in Numbers /\ mtime[f] \in 1 .. now

Control ==
    /\ update \in [ at : Places, n : Nat, ok : BOOLEAN, silent : BOOLEAN ]
    /\ update.at \in { "idle", "list" } => update.n = 0
    /\ update.at = "link" => update.n \in 0 .. Len(SchemaOrder)
    /\ update.at = "schema" => update.n \in 1 .. (Len(SchemaOrder) + 1)
    /\ update.at \in { "decide", "table", "reverse", "prism", "pack" } =>
         update.n \in 1 .. Len(SchemaOrder)

-----------------------------------------------------------------------------
(* Configurations *)

\* A stamp that a source has now tells that it has the version that was read.
StampTells(made, stamp, f) ==
    /\ stamp <= mtime[f]
    /\ stamp = 0 => made = 0 \/ f \in torn
    /\ stamp = mtime[f] /\ Exists(f) /\ f \notin unstamped => made = content[f]

ConfigRecord(c) ==
    [ made   : [ConfigSources[c] -> Nat],
      stamps : UNION { [files -> Nat] : files \in SUBSET ConfigSources[c] },
      whole  : BOOLEAN ]

StampsTell ==
    /\ compiled = [ c \in Configs |-> compiled[c] ]
    /\ \A c \in Configs : compiled[c] # Absent =>
         /\ compiled[c] \in ConfigRecord(c)
         /\ compiled[c].whole => DOMAIN compiled[c].stamps = ConfigSources[c]
         /\ \A f \in DOMAIN compiled[c].stamps :
              StampTells(compiled[c].made[f], compiled[c].stamps[f], f)

Linking == update.at = "link" =>
    /\ job.of = IF update.n = 0 THEN "default" ELSE Schema
    /\ job.after = IF update.n = 0 THEN "list" ELSE "decide"
    /\ job.read \in [ ConfigSources[job.of] -> Nat ]
    /\ \A f \in ConfigSources[job.of] :
         /\ job.read[f] = content[f] \/ f \in unstamped
         /\ ~Exists(f) => job.read[f] = 0 \/ f \in torn

-----------------------------------------------------------------------------
(* Tables, reverse databases and prisms *)

DictSums(d) ==
    { sum \in {0} \X [ DictFiles[d] -> Numbers ] : sum[2][TableFile[d]] # 0 }

\* The sources will never have these versions again.
Past(vs) == \E f \in DOMAIN vs : vs[f] # 0 /\ vs[f] # content[f]

\* Built of these versions; but of what came meanwhile for a source that was missing.
Of(made, vs) ==
    /\ made \in [ DOMAIN vs -> Nat ]
    /\ \A f \in DOMAIN vs : made[f] = vs[f] \/ (vs[f] = 0 /\ f \in torn)

SumTells(made, vs) == Past(vs) \/ Of(made, vs)

\* What is true of a file that loads, of a dictionary or of a schema.
TableTells(file, d) == Loads(file) =>
    /\ file.sum \in DictSums(d)
    /\ file.syllabary = file.made
    /\ SumTells(file.made, file.sum[2])

ReverseTells(file, d) == Loads(file) =>
    file.sum \in DictSums(d) /\ SumTells(file.made, file.sum[2])

PrismTells(file, s) == Loads(file) =>
    /\ DictOf[s] \in Dicts
    /\ file.sum \in DictSums(DictOf[s])
    /\ file.made = << file.made[1], file.schema_sum >>
    /\ SumTells(file.made[1], file.sum[2])

SumsTell ==
    /\ tables = [ t \in Tables |-> tables[t] ]
    /\ reverse = [ d \in Dicts |-> reverse[d] ]
    /\ prisms = [ s \in Schemas |-> prisms[s] ]
    /\ \A d \in Dicts : TableTells(tables[d], d) /\ ReverseTells(reverse[d], d)
    /\ \A s \in Schemas : PrismTells(prisms[s], s)

\* What the compiler of a dictionary knows, and what it has built so far.
JobTells ==
    /\ Dict \in Dicts /\ compiled[Schema] # Absent
    /\ job = [ of |-> job.of, sum |-> job.sum, schema_sum |-> job.schema_sum,
               prism |-> job.prism, files |-> job.files, syllabary |-> job.syllabary,
               pack |-> job.pack ]
    /\ job.sum \in DictSums(Dict) /\ job.schema_sum = compiled[Schema]
    /\ job.prism \in BOOLEAN /\ job.pack \in Nat \ {0}
    /\ job.files \in { DictFiles[Dict], {} }

\* Of nothing a table is built only when its source has gone.
TableToBuild == update.at = "table" =>
    \/ /\ job.files # {}
       /\ SumTells(Versions(DictFiles[Dict]), job.sum[2])
    \/ /\ job.files = {}
       /\ Loads(tables[Dict]) /\ tables[Dict].sum = job.sum
       /\ job.sum[2][TableFile[Dict]] # content[TableFile[Dict]]

Built ==
    /\ update.at # "pack" => job.pack = 1
    /\ update.at # "table" =>
         /\ Loads(tables[Dict]) /\ tables[Dict].sum = job.sum
         /\ gap \/ job.syllabary = tables[Dict].syllabary
    /\ update.at \in { "prism", "pack" } =>
         Loads(reverse[Dict]) /\ reverse[Dict].sum = job.sum
    /\ update.at = "pack" \/ ~job.prism =>
         /\ Loads(prisms[Schema])
         /\ prisms[Schema].sum = job.sum /\ prisms[Schema].schema_sum = job.schema_sum

Compiles == Compiling => JobTells /\ TableToBuild /\ Built

\* A pack has the syllables of the dictionary by the versions in its checksum; when those
\* are past it may have others, but then no table is left that is built of them.
PackTells(pack, base) ==
    LET vs == pack.sum[1][2]
    IN  \/ Of(pack.syllabary, vs)
        \/ Past(vs) /\ ~(Loads(base) /\ base.sum = pack.sum[1] /\ base.made = vs)

PacksTell ==
    \A s \in Schemas : \A p \in Range(PacksOf[s]) : Loads(tables[p]) =>
        /\ tables[p].sum[1] \in DictSums(DictOf[s])
        /\ gap \/ PackTells(tables[p], tables[DictOf[s]])

-----------------------------------------------------------------------------
(* What an update has done *)

StampsAgree(c) ==
    compiled[c] # Absent /\ \A f \in DOMAIN compiled[c].stamps : compiled[c].stamps[f] = Stamp(f)

\* What there is to know of the files of a schema's dictionary
SumsAgree(s) ==
    LET d   == DictOf[s]
        sum == DictFileChecksum(d, 0)
    IN  Whole(s) /\ d # NoDict /\ Exists(TableFile[d]) =>
          /\ Loads(tables[d]) /\ tables[d].sum = sum
          /\ Loads(reverse[d]) /\ reverse[d].sum = sum
          /\ Loads(prisms[s]) /\ prisms[s].sum = sum /\ prisms[s].schema_sum = compiled[s]

PackAgrees(p, d) ==
    Loads(tables[p]) => Loads(tables[d]) /\ tables[p].sum[1] = tables[d].sum

PacksAgree(s) ==
    Whole(s) => \A p \in Range(PacksOf[s]) : PackAgrees(p, DictOf[s])

\* The schemas that the update has finished with; all, when it has ended, unless there
\* was not the whole list.
Done == IF update.at = "idle" THEN IF Cut("default") THEN {} ELSE Schemas
        ELSE { SchemaOrder[i] : i \in 1 .. Len(SchemaOrder) \cap 1 .. (update.n - 1) }

SchemaAgrees(s) ==
    /\ SumsAgree(s)
    /\ gap \/ PacksAgree(s)
    /\ update.silent \/ StampsAgree(s)

DoneAgree == \A s \in Done : SchemaAgrees(s)

ConfigsAgree ==
    /\ update.silent \/ (update.at = "link" /\ update.n = 0) \/ StampsAgree("default")
    /\ update.at = "decide" \/ Compiling => update.silent \/ StampsAgree(Schema)

\* A table that was up to date when the update began is not built anew.
JobAgrees == Compiling =>
    /\ IF Exists(TableFile[Dict]) THEN job.sum = DictFileChecksum(Dict, 0) ELSE job.files = {}
    /\ update.at \in { "table", "reverse" } /\ Exists(TableFile[Dict]) =>
         \A s \in Done : DictOf[s] = Dict => ~Whole(s)

PacksBuilt == update.at = "pack" => gap \/
    \A k \in DOMAIN PacksOf[Schema] : k < job.pack => PackAgrees(PacksOf[Schema][k], Dict)

Progress == update.ok /\ overtaken = {} => DoneAgree /\ ConfigsAgree /\ JobAgrees /\ PacksBuilt

\* No modifications are detected, and none escapes.
QuietNow ==
    /\ sound /\ ~DetectModifications /\ missed = {}
    /\ Updating => overtaken = {}

NothingToDo ==
    /\ StampsAgree("default")
    /\ update.at = "link" => Cut("default") /\ update.n # 0
    /\ ~Cut("default") =>
         /\ \A s \in Schemas : StampsAgree(s) /\ SumsAgree(s)
         /\ update.at \in { "table", "reverse" } /\ Exists(TableFile[Dict]) =>
              \A s \in Schemas : DictOf[s] = Dict => ~Whole(s)
         /\ update.at = "prism" /\ job.prism => ~Exists(TableFile[Dict]) \/ ~Whole(Schema)

\* An update when there is nothing to be done builds nothing that is made of sources.
Quiet == QuietNow => NothingToDo

DeployInv ==
    /\ Clock /\ Control /\ StampsTell /\ Linking /\ SumsTell /\ Compiles /\ PacksTell
    /\ Progress /\ Quiet

-----------------------------------------------------------------------------
(* The workspace *)

LEMMA ConfigFacts ==
    /\ "default" \in Configs /\ "default" \notin Schemas /\ Schemas \subseteq Configs
    /\ \A c \in Configs :
         /\ c = "default" \/ c \in Schemas
         /\ ConfigSources[c] \subseteq Sources /\ Absent \notin ConfigRecord(c)
    /\ \A s \in Schemas : SchemaFile[s] \in Sources
<1>1. \A c \in Configs : Absent \notin ConfigRecord(c)
  BY DeploymentAssumption DEF ConfigRecord
<1>2. Configs = Schemas \cup {"default"} /\ "default" \notin Schemas
  BY DeploymentAssumption
<1>3. \A c \in Configs : ConfigSources[c] \subseteq Sources
  BY DeploymentAssumption
<1>4. \A s \in Schemas : SchemaFile[s] \in ConfigSources[s]
  BY DeploymentAssumption
<1> QED
  BY <1>1, <1>2, <1>3, <1>4

\* The list names each schema once.
LEMMA OrderFacts ==
    /\ Len(SchemaOrder) \in Nat /\ DOMAIN SchemaOrder = 1 .. Len(SchemaOrder)
    /\ \A i \in 1 .. Len(SchemaOrder) : SchemaOrder[i] \in Schemas
    /\ \A s \in Schemas : \E i \in 1 .. Len(SchemaOrder) : s = SchemaOrder[i]
    /\ \A i, k \in 1 .. Len(SchemaOrder) : SchemaOrder[i] = SchemaOrder[k] => i = k
<1>1. SchemaOrder \in Seq(Schemas)
  BY DeploymentAssumption
<1>2. Len(SchemaOrder) \in Nat /\ DOMAIN SchemaOrder = 1 .. Len(SchemaOrder)
  BY <1>1
<1>3. \A i, k \in 1 .. Len(SchemaOrder) : SchemaOrder[i] = SchemaOrder[k] => i = k
  BY <1>2, DeploymentAssumption
<1> QED
  BY <1>2, <1>3 DEF Schemas, Range

\* A dictionary is a table that is made of sources.
LEMMA DictFacts ==
    /\ NoDict \notin Tables
    /\ \A s \in Schemas : DictOf[s] # NoDict => DictOf[s] \in Dicts
    /\ \A d \in Dicts : d \in Tables /\ d # NoDict
    /\ \A t \in Tables : DictFiles[t] \subseteq Sources /\ TableFile[t] \in DictFiles[t]
<1>1. DictOf \in [ Schemas -> Tables \cup {NoDict} ] /\ NoDict \notin Tables
  BY DeploymentAssumption
<1>2. \A t \in Tables : DictFiles[t] \subseteq Sources /\ TableFile[t] \in DictFiles[t]
  BY DeploymentAssumption
<1> QED
  BY <1>1, <1>2 DEF Dicts, Range

\* A pack is no dictionary, and is used with one dictionary only.
LEMMA PackFacts ==
    \A s \in Schemas :
      /\ Len(PacksOf[s]) \in Nat /\ DOMAIN PacksOf[s] = 1 .. Len(PacksOf[s])
      /\ \A k \in 1 .. Len(PacksOf[s]) : PacksOf[s][k] \in Range(PacksOf[s])
      /\ \A p \in Range(PacksOf[s]) :
           /\ p \in Tables /\ p \notin Dicts
           /\ DictOf[s] \in Dicts
           /\ \A t \in Schemas : p \in Range(PacksOf[t]) => DictOf[s] = DictOf[t]
<1> SUFFICES ASSUME NEW s \in Schemas
             PROVE  /\ Len(PacksOf[s]) \in Nat /\ DOMAIN PacksOf[s] = 1 .. Len(PacksOf[s])
                    /\ \A k \in 1 .. Len(PacksOf[s]) : PacksOf[s][k] \in Range(PacksOf[s])
                    /\ \A p \in Range(PacksOf[s]) :
                         /\ p \in Tables /\ p \notin Dicts
                         /\ DictOf[s] \in Dicts
                         /\ \A t \in Schemas : p \in Range(PacksOf[t]) => DictOf[s] = DictOf[t]
  OBVIOUS
<1>1. PacksOf[s] \in Seq(Tables \ Dicts)
  BY DeploymentAssumption
<1>2. DictOf[s] = NoDict => PacksOf[s] = <<>>
  BY DeploymentAssumption
<1>3. \A t \in Schemas :
        Range(PacksOf[s]) \cap Range(PacksOf[t]) # {} => DictOf[s] = DictOf[t]
  BY DeploymentAssumption
<1>4. Len(PacksOf[s]) \in Nat /\ DOMAIN PacksOf[s] = 1 .. Len(PacksOf[s])
  BY <1>1
<1>5. \A k \in 1 .. Len(PacksOf[s]) : PacksOf[s][k] \in Range(PacksOf[s])
  BY <1>4 DEF Range
<1>6. ASSUME NEW p \in Range(PacksOf[s])
      PROVE  p \in Tables /\ p \notin Dicts /\ DictOf[s] \in Dicts
  <2>1. PICK k \in DOMAIN PacksOf[s] : p = PacksOf[s][k]
    BY DEF Range
  <2>2. p \in Tables \ Dicts
    BY <1>1, <2>1
  <2>3. PacksOf[s] # <<>>
    BY <1>4, <2>1
  <2> QED
    BY <1>2, <2>2, <2>3, DictFacts
<1> QED
  BY <1>3, <1>4, <1>5, <1>6

\* The schema that is updated, and its dictionary
LEMMA SchemaFacts ==
    ASSUME Control, update.at \in { "decide", "table", "reverse", "prism", "pack" }
           \/ (update.at = "link" /\ update.n # 0)
           \/ (update.at = "schema" /\ update.n <= Len(SchemaOrder))
    PROVE  Schema \in Schemas /\ update.n \in 1 .. Len(SchemaOrder)
<1>1. update.n \in 1 .. Len(SchemaOrder)
  BY OrderFacts DEF Control
<1> QED
  BY <1>1, OrderFacts DEF Schema

-----------------------------------------------------------------------------
(* Steps *)

Edit == \E file \in Sources : EditSource(file) \/ RemoveSource(file)

\* Sources change by the user's hand alone.
LEMMA Unedited ==
    ASSUME DeployNext, ~Edit
    PROVE  UNCHANGED << content, mtime, dir_mtime, edits, unstamped, torn >>
  BY DEF DeployNext, Edit, StartUpdate, LinkConfig, ReadSchemaList, UpdateSchema, FinishUpdate,
         EndUpdate, Decide, BuildTable, BuildReverseDb, BuildPrism, BuildPack, DictIsReady, Tick,
         Crash, sourceVars, noteVars

\* Versions are given out in order, and no time of writing is ahead of the clock.
LEMMA ClockStep ==
    ASSUME Clock, DeployNext
    PROVE  Clock'
<1>1. CASE Edit
  <2>1. PICK file \in Sources : EditSource(file) \/ RemoveSource(file)
    BY <1>1 DEF Edit
  <2>2. UNCHANGED << now, last_build_time >> /\ edits' = edits + 1
    BY <2>1 DEF EditSource, RemoveSource
  <2>3. content' \in [ Sources -> Nat ] /\ \A f \in Sources : content'[f] \in 0 .. (edits' + 1)
    BY <2>1, <2>2 DEF Clock, Numbers, EditSource, RemoveSource
  <2>4. mtime' \in [ Sources -> Nat ] /\ \A f \in Sources : mtime'[f] \in 1 .. now
    <3>1. CASE EditSource(file)
      <4>1. PICK g \in Sources : mtime[g] \in 1 .. now
        BY DEF Clock
      <4>2. now \in 1 .. now
        BY <4>1 DEF Clock
      <4>3. mtime' = [ mtime EXCEPT ![file] = now ]
        BY <3>1 DEF EditSource
      <4> QED
        BY <4>2, <4>3 DEF Clock
    <3>2. CASE RemoveSource(file)
      BY <3>2 DEF Clock, RemoveSource
    <3> QED
      BY <2>1, <3>1, <3>2
  <2>5. dir_mtime' \in Nat
    BY <2>1 DEF Clock, EditSource, RemoveSource
  <2> QED
    BY <2>2, <2>3, <2>4, <2>5 DEF Clock, Numbers
<1>2. CASE ~Edit
  <2>1. UNCHANGED << content, mtime, dir_mtime, edits >>
    BY <1>2, Unedited
  <2>2. now' \in { now, now + 1 } /\ last_build_time' \in { last_build_time, now }
    BY <1>2 DEF DeployNext, Edit, StartUpdate, LinkConfig, ReadSchemaList, UpdateSchema,
         FinishUpdate, Decide, BuildTable, BuildReverseDb, BuildPrism, BuildPack, DictIsReady,
         Tick, Crash, sourceVars
  <2>4. now' \in Nat /\ now <= now' /\ last_build_time' \in Nat
    BY <2>2 DEF Clock
  <2>3. \A f \in Sources : mtime[f] \in 1 .. now'
    BY <2>4 DEF Clock
  <2> QED
    BY <2>1, <2>4, <2>3 DEF Clock, Numbers
<1> QED
  BY <1>1, <1>2

\* What the helpers of an update leave of it
LEMMA UpdateFields ==
    ASSUME Control
    PROVE  /\ \A at : Goto(at) => update'.at = at /\ UNCHANGED << update.n, update.ok, update.silent >>
           /\ \A at : Silently(at) =>
                update'.at = at /\ update'.silent /\ UNCHANGED << update.n, update.ok >>
           /\ \A ok : NextSchema(ok) =>
                /\ update'.at = "schema" /\ update'.n = update.n + 1
                /\ update'.ok = (update.ok /\ ok) /\ UNCHANGED update.silent
           /\ \A ok : EndUpdate(ok) => update'.at = "idle" /\ update'.n = 0 /\ update'.ok = ok
                                     /\ UNCHANGED update.silent
  BY DEF Control, Goto, Silently, NextSchema, EndUpdate

\* The update is at one of its places, with the schema that it takes there.
LEMMA ControlStep ==
    ASSUME Control, Linking, DeployNext
    PROVE  Control'
<1> DEFINE N == Len(SchemaOrder)
<1>n. N \in Nat
  BY OrderFacts
<1>t. ASSUME NEW at \in Places, NEW n \in Nat, NEW ok \in BOOLEAN,
             update' \in { [ at |-> at, n |-> n, ok |-> ok, silent |-> silent ] : silent \in BOOLEAN },
             at \in { "idle", "list" } => n = 0, at = "link" => n \in 0 .. N,
             at = "schema" => n \in 1 .. (N + 1),
             at \in { "decide", "table", "reverse", "prism", "pack" } => n \in 1 .. N
      PROVE  Control'
  BY <1>t DEF Control
<1>u. /\ update \in [ at : Places, n : Nat, ok : BOOLEAN, silent : BOOLEAN ]
      /\ update = [ at |-> update.at, n |-> update.n, ok |-> update.ok, silent |-> update.silent ]
  BY DEF Control
<1>1. ASSUME NEW at \in Places, Goto(at) \/ Silently(at),
             at = "list" => update.n = 0, at # "idle", at # "schema", at = "link" => update.n \in 0 .. N,
             at \in { "decide", "table", "reverse", "prism", "pack" } => update.n \in 1 .. N
      PROVE  Control'
  <2>1. update' \in { [ at |-> at, n |-> update.n, ok |-> update.ok, silent |-> silent ] : silent \in BOOLEAN }
    BY <1>1, <1>u DEF Goto, Silently
  <2> QED
    BY <1>1, <1>u, <2>1, <1>t
<1>2. ASSUME NEW ok \in BOOLEAN, NextSchema(ok), update.n \in 1 .. N PROVE Control'
  <2>1. update' = [ at |-> "schema", n |-> update.n + 1, ok |-> update.ok /\ ok, silent |-> update.silent ]
    BY <1>2, <1>u DEF NextSchema
  <2>2. update.n + 1 \in 1 .. (N + 1)
    BY <1>2, <1>n
  <2> HIDE DEF N
  <2> QED
    BY <1>u, <2>1, <2>2 DEF Control, Places, N
<1>3. ASSUME NEW ok \in BOOLEAN, EndUpdate(ok) PROVE Control'
  <2>1. update' = [ at |-> "idle", n |-> 0, ok |-> ok, silent |-> update.silent ]
    BY <1>3, <1>u DEF EndUpdate
  <2> QED
    BY <1>u, <2>1 DEF Control, Places
<1>4. CASE UNCHANGED update
  BY <1>4 DEF Control
<1>5. ASSUME NEW full_check, StartUpdate(full_check) PROVE Control'
  <2>1. \/ update' = [ at |-> "link", n |-> 0, ok |-> TRUE, silent |-> FALSE ]
        \/ update' = [ at |-> "list", n |-> 0, ok |-> TRUE, silent |-> FALSE ]
    BY <1>5 DEF StartUpdate
  <2>2. 0 \in 0 .. N
    BY <1>n
  <2>3. "link" \in Places /\ "list" \in Places
    BY DEF Places
  <2>4. PICK at \in { "link", "list" } : update' = [ at |-> at, n |-> 0, ok |-> TRUE, silent |-> FALSE ]
    BY <2>1
  <2> HIDE DEF N
  <2> QED
    BY <2>2, <2>3, <2>4, <1>t
<1>6. CASE LinkConfig
  <2>1. Goto(job.after) \/ Silently(job.after)
    BY <1>6 DEF LinkConfig
  <2>2. /\ job.after \in { "list", "decide" } /\ update.n \in 0 .. N
        /\ job.after = "list" <=> update.n = 0
    BY <1>6, <1>n DEF LinkConfig, Linking, Control
  <2>3. update.n # 0 => update.n \in 1 .. N
    BY <1>n, <2>2
  <2> HIDE DEF N
  <2> QED
    BY <1>1, <2>1, <2>2, <2>3 DEF Places
<1>7. CASE ReadSchemaList
  <2>1. CASE EndUpdate(FALSE)
    BY <2>1, <1>3
  <2>2. CASE ~EndUpdate(FALSE)
    <3>1. update' = [ at |-> "schema", n |-> 1, ok |-> update.ok, silent |-> update.silent ]
      BY <1>7, <1>u, <2>2 DEF ReadSchemaList
    <3> QED
      BY <1>n, <1>u, <3>1 DEF Control, Places
  <2> QED
    BY <2>1, <2>2
<1>8. CASE UpdateSchema
  <2>1. update.n \in 1 .. N
    BY <1>8, SchemaFacts DEF UpdateSchema
  <2>2. NextSchema(FALSE) \/ Goto("link") \/ Goto("decide")
    BY <1>8 DEF UpdateSchema, ConfigFileUpdate
  <2>3. update.n \in 0 .. N
    BY <1>n, <2>1
  <2>4. "link" \in Places /\ "decide" \in Places
    BY DEF Places
  <2> HIDE DEF N
  <2>5. CASE NextSchema(FALSE)
    BY <1>2, <2>1, <2>5
  <2>6. CASE Goto("link")
    BY <1>1, <2>3, <2>4, <2>6
  <2>7. CASE Goto("decide")
    BY <1>1, <2>1, <2>4, <2>7
  <2> QED
    BY <2>2, <2>5, <2>6, <2>7
<1>9. CASE FinishUpdate
  BY <1>9, <1>3, <1>u DEF FinishUpdate
<1>10. CASE Decide \/ BuildTable \/ BuildReverseDb \/ BuildPrism \/ BuildPack \/ DictIsReady
  <2>1. update.n \in 1 .. N
    BY <1>10 DEF Control, Decide, BuildTable, BuildReverseDb, BuildPrism, BuildPack, DictIsReady
  <2>2. \/ \E ok \in BOOLEAN : NextSchema(ok)
        \/ \E at \in { "table", "reverse", "prism", "pack" } : Goto(at) \/ Silently(at)
        \/ UNCHANGED update
    BY <1>10 DEF Decide, BuildTable, BuildReverseDb, BuildPrism, BuildPack, DictIsReady
  <2> QED
    BY <1>1, <1>2, <1>4, <2>1, <2>2 DEF Places
<1>11. CASE Edit \/ Tick
  BY <1>4, <1>11 DEF Edit, EditSource, RemoveSource, Tick
<1>12. CASE Crash
  BY <1>12 DEF Crash, Control, Places
<1> QED
  BY <1>5, <1>6, <1>7, <1>8, <1>9, <1>10, <1>11, <1>12 DEF DeployNext, Edit

\* The times that a configuration has are of sources of it.
LEMMA RecordFacts ==
    ASSUME NEW c \in Configs, NEW config \in ConfigRecord(c), NEW f \in DOMAIN config.stamps
    PROVE  /\ f \in ConfigSources[c] /\ f \in Sources
           /\ config.made[f] \in Nat /\ config.stamps[f] \in Nat
<1>1. PICK files \in SUBSET ConfigSources[c] : config.stamps \in [ files -> Nat ]
  BY DEF ConfigRecord
<1>2. config.made \in [ ConfigSources[c] -> Nat ]
  BY DEF ConfigRecord
<1>3. f \in files
  BY <1>1
<1> QED
  BY <1>1, <1>2, <1>3, ConfigFacts

\* An edit shows in the time of writing, or the source is noted.
LEMMA StampTellsOn ==
    ASSUME Clock, NEW file \in Sources, EditSource(file) \/ RemoveSource(file),
           NEW f \in Sources, NEW made \in Nat, NEW stamp \in Nat, StampTells(made, stamp, f)
    PROVE  StampTells(made, stamp, f)'
<1>1. torn \subseteq torn'
  BY DEF EditSource, RemoveSource, Note
<1>2. /\ unstamped' \in { unstamped \cup {file}, unstamped \ {file} }
      /\ file \notin unstamped' => mtime[file] # now
  BY DEF EditSource, RemoveSource, Note
<1>3. mtime[f] \in 1 .. now /\ now \in Nat
  BY DEF Clock
<1>4. CASE f # file
  <2>1. content'[f] = content[f] /\ mtime'[f] = mtime[f]
    BY <1>4 DEF Clock, EditSource, RemoveSource
  <2>2. f \in unstamped' <=> f \in unstamped
    BY <1>2, <1>4
  <2> QED
    BY <1>1, <2>1, <2>2 DEF StampTells, Exists
<1>5. CASE f = file /\ EditSource(file)
  <2>1. mtime'[f] = now
    BY <1>5 DEF Clock, EditSource
  <2> QED
    BY <1>1, <1>2, <1>3, <1>5, <2>1 DEF StampTells, Exists
<1>6. CASE f = file /\ RemoveSource(file)
  <2>1. content'[f] = 0 /\ mtime'[f] = mtime[f]
    BY <1>6 DEF Clock, RemoveSource
  <2> QED
    BY <1>1, <1>3, <2>1 DEF StampTells, Exists
<1> QED
  BY <1>4, <1>5, <1>6

\* Configurations are written by LinkConfig, to the end of the process.
LEMMA CompiledStays ==
    ASSUME DeployNext, ~LinkConfig, ~Crash
    PROVE  UNCHANGED compiled
  BY DEF DeployNext, StartUpdate, ReadSchemaList, UpdateSchema, FinishUpdate, EndUpdate, Decide,
         BuildTable, BuildReverseDb, BuildPrism, BuildPack, DictIsReady, EditSource, RemoveSource,
         Tick, builtVars

\* What is written for a configuration, to its end or not, has stamps of its sources.
LEMMA WrittenTells ==
    ASSUME Clock, Control, Linking, update.at = "link",
           NEW config \in Unfinished \cup {Linked(ConfigSources[job.of], TRUE)}, config # Absent
    PROVE  /\ job.of \in Configs /\ config \in ConfigRecord(job.of)
           /\ config.whole => DOMAIN config.stamps = ConfigSources[job.of]
           /\ \A f \in DOMAIN config.stamps :
                StampTells(config.made[f], config.stamps[f], f) /\ config.stamps[f] = Stamp(f)
<1>1. job.of \in Configs
  <2>1. CASE update.n = 0
    BY <2>1, ConfigFacts DEF Linking
  <2>2. CASE update.n # 0
    BY <2>2, ConfigFacts, SchemaFacts DEF Linking
  <2> QED
    BY <2>1, <2>2
<1>2. ConfigSources[job.of] \subseteq Sources
  BY <1>1, ConfigFacts
<1>3. PICK files \in SUBSET ConfigSources[job.of], whole \in BOOLEAN :
        config = Linked(files, whole) /\ (whole => files = ConfigSources[job.of])
  BY DEF Unfinished
<1>4. /\ config.made = job.read /\ config.stamps = [ f \in files |-> Stamp(f) ]
      /\ config.whole = whole
      /\ config = [ made |-> config.made, stamps |-> config.stamps, whole |-> config.whole ]
  BY <1>3 DEF Linked, Stamps
<1>5. \A f \in files : Stamp(f) \in Nat
  BY <1>2 DEF Stamp, Clock
<1>6. config.stamps \in [ files -> Nat ] /\ job.read \in [ ConfigSources[job.of] -> Nat ]
  BY <1>4, <1>5 DEF Linking
<1>7. config \in ConfigRecord(job.of)
  BY <1>4, <1>6 DEF ConfigRecord
<1>8. ASSUME NEW f \in files
      PROVE  StampTells(config.made[f], config.stamps[f], f) /\ config.stamps[f] = Stamp(f)
  <2>1. config.made[f] = job.read[f] /\ config.stamps[f] = IF Exists(f) THEN mtime[f] ELSE 0
    BY <1>4 DEF Stamp
  <2>2. mtime[f] \in 1 .. now /\ now \in Nat
    BY <1>2 DEF Clock
  <2>3. /\ job.read[f] = content[f] \/ f \in unstamped
        /\ ~Exists(f) => job.read[f] = 0 \/ f \in torn
    BY DEF Linking
  <2>4. StampTells(job.read[f], IF Exists(f) THEN mtime[f] ELSE 0, f)
    BY <2>2, <2>3 DEF StampTells
  <2> QED
    BY <2>1, <2>4 DEF Stamp
<1> QED
  BY <1>1, <1>3, <1>4, <1>7, <1>8

\* One configuration is written at a time; saved to its end, or in silence.
LEMMA ConfigWritten ==
    ASSUME Control, Linking, DeployNext, compiled = [ c \in Configs |-> compiled[c] ],
           LinkConfig \/ ~UNCHANGED compiled
    PROVE  /\ update.at = "link" /\ job.of \in Configs
           /\ \E config \in Unfinished \cup {Linked(ConfigSources[job.of], TRUE), compiled[job.of]} :
                /\ compiled' = [ c \in Configs |-> IF c = job.of THEN config ELSE compiled[c] ]
                /\ LinkConfig => \/ Goto(job.after) /\ config = Linked(ConfigSources[job.of], TRUE)
                                 \/ Silently(job.after)
<1>1. LinkConfig \/ (Crash /\ ~UNCHANGED compiled)
  BY CompiledStays
<1>2. update.at = "link"
  BY <1>1 DEF LinkConfig, Crash
<1>3. job.of \in Configs
  <2>1. CASE update.n = 0
    BY <1>2, <2>1, ConfigFacts DEF Linking
  <2>2. CASE update.n # 0
    BY <1>2, <2>2, ConfigFacts, SchemaFacts DEF Linking
  <2> QED
    BY <2>1, <2>2
<1>4. ASSUME NEW v PROVE [ compiled EXCEPT ![job.of] = v ] =
                           [ c \in Configs |-> IF c = job.of THEN v ELSE compiled[c] ]
  OBVIOUS
<1>5. CASE LinkConfig
  <2>1. \E config \in Unfinished \cup {Linked(ConfigSources[job.of], TRUE), compiled[job.of]} :
          /\ compiled' = [ compiled EXCEPT ![job.of] = config ]
          /\ \/ Goto(job.after) /\ config = Linked(ConfigSources[job.of], TRUE)
             \/ Silently(job.after)
    BY <1>5 DEF LinkConfig
  <2> QED
    BY <1>2, <1>3, <1>4, <2>1
<1>6. CASE ~LinkConfig
  <2>1. \E config \in Unfinished : compiled' = [ compiled EXCEPT ![job.of] = config ]
    BY <1>1, <1>6 DEF Crash
  <2> QED
    BY <1>2, <1>3, <1>4, <1>6, <2>1
<1> QED
  BY <1>5, <1>6

\* Stamps go on telling: an edit changes the time of writing, or is noted.
LEMMA StampsTellStep ==
    ASSUME Clock, Control, StampsTell, Linking, DeployNext
    PROVE  StampsTell'
<1>1. CASE Edit
  <2>1. PICK file \in Sources : EditSource(file) \/ RemoveSource(file)
    BY <1>1 DEF Edit
  <2>2. UNCHANGED compiled
    BY <2>1 DEF EditSource, RemoveSource, builtVars
  <2>3. ASSUME NEW c \in Configs, compiled[c] # Absent, NEW f \in DOMAIN compiled[c].stamps
        PROVE  StampTells(compiled[c].made[f], compiled[c].stamps[f], f)'
    <3>1. /\ compiled[c] \in ConfigRecord(c)
          /\ StampTells(compiled[c].made[f], compiled[c].stamps[f], f)
      BY <2>3 DEF StampsTell
    <3>2. f \in Sources /\ compiled[c].made[f] \in Nat /\ compiled[c].stamps[f] \in Nat
      BY <3>1, RecordFacts
    <3>3. \A made, stamp \in Nat : StampTells(made, stamp, f) => StampTells(made, stamp, f)'
      BY <2>1, <3>2, StampTellsOn
    <3> QED
      BY <2>2, <3>1, <3>2, <3>3 DEF StampTells
  <2> QED
    BY <2>2, <2>3 DEF StampsTell
<1>2. CASE LinkConfig \/ ~UNCHANGED compiled
  <2>1. UNCHANGED << content, mtime, unstamped, torn >>
    BY <1>2, CompiledStays DEF LinkConfig, Crash, sourceVars, noteVars
  <2>2. PICK config \in Unfinished \cup {Linked(ConfigSources[job.of], TRUE), compiled[job.of]} :
          compiled' = [ c \in Configs |-> IF c = job.of THEN config ELSE compiled[c] ]
    BY <1>2, ConfigWritten DEF StampsTell
  <2>3. \A m, t, f : StampTells(m, t, f)' <=> StampTells(m, t, f)
    BY <2>1 DEF StampTells, Exists
  <2>4. compiled' = [ c \in Configs |-> compiled'[c] ]
    BY <2>2
  <2>5. ASSUME NEW c \in Configs, compiled'[c] # Absent
        PROVE  /\ compiled'[c] \in ConfigRecord(c)
               /\ compiled'[c].whole => DOMAIN compiled'[c].stamps = ConfigSources[c]
               /\ \A f \in DOMAIN compiled'[c].stamps :
                    StampTells(compiled'[c].made[f], compiled'[c].stamps[f], f)
    <3>1. CASE c = job.of /\ config # compiled[job.of]
      <4>1. config \in Unfinished \cup {Linked(ConfigSources[job.of], TRUE)} /\ config # Absent
        BY <2>2, <2>5, <3>1
      <4>2. update.at = "link"
        BY <1>2, ConfigWritten DEF StampsTell
      <4>3. compiled'[c] = config
        BY <2>2, <3>1
      <4> QED
        BY <3>1, <4>1, <4>2, <4>3, WrittenTells
    <3>2. CASE ~(c = job.of /\ config # compiled[job.of])
      <4>1. compiled'[c] = compiled[c]
        BY <2>2, <3>2
      <4> QED
        BY <2>5, <4>1 DEF StampsTell
    <3> QED
      BY <3>1, <3>2
  <2> QED
    BY <2>3, <2>4, <2>5 DEF StampsTell, ConfigRecord
<1>3. CASE ~Edit /\ UNCHANGED compiled
  BY <1>3, Unedited DEF StampsTell, StampTells, Exists, ConfigRecord
<1> QED
  BY <1>1, <1>2, <1>3

\* What was read for a configuration is there still when it is stamped, or is noted.
LEMMA LinkingStep ==
    ASSUME Clock, Control, Linking, DeployNext
    PROVE  Linking'
<1>1. CASE Edit /\ update.at = "link"
  <2>1. PICK file \in Sources : EditSource(file) \/ RemoveSource(file)
    BY <1>1 DEF Edit
  <2>2. UNCHANGED << update, job >>
    BY <2>1 DEF EditSource, RemoveSource
  <2>3. ASSUME NEW f \in ConfigSources[job.of]
        PROVE  /\ job.read[f] = content'[f] \/ f \in unstamped'
               /\ content'[f] = 0 => job.read[f] = 0 \/ f \in torn'
    <3>0. f \in Sources
      <4>1. job.of \in Configs
        BY <1>1, ConfigFacts, SchemaFacts DEF Linking
      <4> QED
        BY <4>1, ConfigFacts
    <3>1. /\ job.read[f] = content[f] \/ f \in unstamped
          /\ ~Exists(f) => job.read[f] = 0 \/ f \in torn
      BY <1>1 DEF Linking
    <3>2. CASE f = file
      <4>1. f \in unstamped' /\ torn \subseteq torn' /\ (Exists(f) => f \in torn')
        BY <1>1, <2>1, <3>2 DEF EditSource, RemoveSource, Note
      <4> QED
        BY <3>1, <4>1
    <3>3. CASE f # file
      <4>1. content'[f] = content[f]
        BY <2>1, <3>0, <3>3 DEF Clock, EditSource, RemoveSource
      <4>2. (f \in unstamped => f \in unstamped') /\ torn \subseteq torn'
        BY <2>1, <3>3 DEF EditSource, RemoveSource, Note
      <4> QED
        BY <3>1, <4>1, <4>2 DEF Exists
    <3> QED
      BY <3>2, <3>3
  <2> QED
    BY <2>2, <2>3 DEF Linking, Schema, Exists
<1>2. CASE Tick
  BY <1>2 DEF Tick, Linking, Schema, Exists, noteVars
<1>3. ASSUME NEW full_check, StartUpdate(full_check) PROVE Linking'
  <2>1. CASE ConfigNeedsUpdate("default")
    <3>1. /\ update' = [ at |-> "link", n |-> 0, ok |-> TRUE, silent |-> FALSE ]
          /\ job' = [ of |-> "default", read |-> Versions(ConfigSources["default"]), after |-> "list" ]
          /\ UNCHANGED content
      BY <1>3, <2>1 DEF StartUpdate, sourceVars
    <3>2. ConfigSources["default"] \subseteq Sources
      BY ConfigFacts
    <3> QED
      BY <3>1, <3>2 DEF Linking, Versions, Clock, Exists
  <2>2. CASE ~ConfigNeedsUpdate("default")
    BY <1>3, <2>2 DEF StartUpdate, Linking
  <2> QED
    BY <2>1, <2>2
<1>4. CASE UpdateSchema /\ update'.at = "link"
  <2>1. Schema \in Schemas /\ update.n \in 1 .. Len(SchemaOrder)
    BY <1>4, SchemaFacts DEF UpdateSchema
  <2>2. Goto("link") /\ job' = [ of |-> Schema, read |-> Versions(ConfigSources[Schema]), after |-> "decide" ]
    BY <1>4, UpdateFields DEF UpdateSchema, ConfigFileUpdate
  <2>3. UNCHANGED << update.n, content >>
    BY <1>4, <2>2, UpdateFields DEF UpdateSchema, sourceVars
  <2>4. Schema' = Schema /\ update'.n # 0
    BY <2>1, <2>3 DEF Schema
  <2>5. ConfigSources[Schema] \subseteq Sources
    BY <2>1, ConfigFacts
  <2> QED
    BY <2>2, <2>3, <2>4, <2>5 DEF Linking, Versions, Clock, Exists
<1>5. CASE LinkConfig
  <2>1. update'.at = job.after
    BY <1>5, UpdateFields DEF LinkConfig
  <2> QED
    BY <1>5, <2>1 DEF LinkConfig, Linking
<1>6. CASE ReadSchemaList \/ FinishUpdate \/ Decide \/ BuildTable \/ BuildReverseDb \/ BuildPrism
           \/ BuildPack \/ DictIsReady \/ Crash
  <2>1. CASE ReadSchemaList
    <3>1. update'.at \in { "idle", "schema" }
      BY <2>1, UpdateFields DEF Control, ReadSchemaList
    <3> QED
      BY <3>1 DEF Linking
  <2>2. CASE FinishUpdate
    BY <2>2, UpdateFields DEF FinishUpdate, Linking
  <2>3. CASE Decide \/ BuildTable \/ BuildReverseDb \/ BuildPrism \/ BuildPack \/ DictIsReady
    <3>1. \/ \E ok : NextSchema(ok)
          \/ \E at \in { "table", "reverse", "prism", "pack" } : Goto(at) \/ Silently(at)
          \/ UNCHANGED update
      BY <2>3 DEF Decide, BuildTable, BuildReverseDb, BuildPrism, BuildPack, DictIsReady
    <3>2. update.at # "link"
      BY <2>3 DEF Decide, BuildTable, BuildReverseDb, BuildPrism, BuildPack, DictIsReady
    <3> QED
      BY <3>1, <3>2, UpdateFields DEF Linking
  <2>4. CASE Crash
    BY <2>4 DEF Crash, Linking
  <2> QED
    BY <1>6, <2>1, <2>2, <2>3, <2>4
<1>7. CASE Edit /\ update.at # "link"
  BY <1>7 DEF Edit, EditSource, RemoveSource, Linking
<1>8. CASE UpdateSchema /\ update'.at # "link"
  BY <1>8 DEF Linking
<1> QED
  BY <1>1, <1>2, <1>3, <1>4, <1>5, <1>6, <1>7, <1>8 DEF DeployNext, Edit

-----------------------------------------------------------------------------
(* Sums, and what is built under them *)

LEMMA DictSumFacts ==
    ASSUME NEW d \in Tables, NEW sum \in DictSums(d)
    PROVE  /\ sum = << 0, sum[2] >> /\ sum[2] \in [ DictFiles[d] -> Numbers ]
           /\ DOMAIN sum[2] = DictFiles[d] /\ DictFiles[d] \subseteq Sources
           /\ TableFile[d] \in DictFiles[d] /\ sum[2][TableFile[d]] # 0
  BY DictFacts DEF DictSums

\* Versions that are past remain past: each is of its own edit.
LEMMA SumTellsOn ==
    ASSUME Clock, Edit, NEW d \in Tables, NEW vs \in [ DictFiles[d] -> Numbers ], NEW made
    PROVE  /\ vs \in [ DictFiles[d] -> Numbers' ]
           /\ Past(vs) => Past(vs)'
           /\ Of(made, vs) => Of(made, vs)'
           /\ SumTells(made, vs) => SumTells(made, vs)'
<1>0. PICK file \in Sources : EditSource(file) \/ RemoveSource(file)
  BY DEF Edit
<1>1. torn \subseteq torn' /\ edits' = edits + 1 /\ edits \in Nat
  BY <1>0 DEF EditSource, RemoveSource, Note, Clock
<1>2. DOMAIN vs = DictFiles[d] /\ DictFiles[d] \subseteq Sources
  BY DictFacts
<1>3. \A f \in Sources : content'[f] = content[f] \/ content'[f] \in { 0, edits + 2 }
  BY <1>0 DEF EditSource, RemoveSource, Clock
<1>4. vs \in [ DictFiles[d] -> Numbers' ]
  <2>1. \A n \in Numbers : n \in Numbers'
    BY <1>1 DEF Numbers
  <2> QED
    BY <2>1
<1>5. Past(vs) => Past(vs)'
  <2>1. SUFFICES ASSUME NEW f \in DOMAIN vs, vs[f] # 0, vs[f] # content[f]
                 PROVE  vs[f] # content'[f]
    BY DEF Past
  <2>2. vs[f] \in Numbers /\ f \in Sources
    BY <1>2
  <2>3. vs[f] # edits + 2
    BY <1>1, <2>2 DEF Numbers
  <2> QED
    BY <1>3, <2>1, <2>2, <2>3
<1>6. Of(made, vs) => Of(made, vs)'
  BY <1>1 DEF Of
<1> QED
  BY <1>4, <1>5, <1>6 DEF SumTells

\* A checksum of a dictionary remains one.
LEMMA DictSumsOn ==
    ASSUME Clock, Edit, NEW d \in Tables, NEW sum \in DictSums(d)
    PROVE  sum \in DictSums(d)'
<1>1. sum = << 0, sum[2] >> /\ sum[2] \in [ DictFiles[d] -> Numbers ] /\ sum[2][TableFile[d]] # 0
  BY DictSumFacts
<1>2. sum[2] \in [ DictFiles[d] -> Numbers' ]
  BY <1>1, SumTellsOn
<1> QED
  BY <1>1, <1>2 DEF DictSums

\* What tells of the sources does so after an edit.
LEMMA TellsOn ==
    ASSUME Clock, Edit
    PROVE  /\ \A d \in Dicts : \A r : TableTells(r, d) => TableTells(r, d)'
           /\ \A d \in Dicts : \A r : ReverseTells(r, d) => ReverseTells(r, d)'
           /\ \A s \in Schemas : \A r : PrismTells(r, s) => PrismTells(r, s)'
<1>0. ASSUME NEW d \in Dicts, NEW sum \in DictSums(d), NEW made, SumTells(made, sum[2])
      PROVE  sum \in DictSums(d)' /\ SumTells(made, sum[2])'
  <2>1. d \in Tables
    BY DictFacts
  <2>2. PICK vs : vs = sum[2] /\ vs \in [ DictFiles[d] -> Numbers ]
    BY <2>1, DictSumFacts
  <2>3. SumTells(made, vs)'
    <3>1. SumTells(made, vs)
      BY <1>0, <2>2
    <3>2. vs \in [ DictFiles[d] -> Numbers ]
      BY <2>2
    <3> QED
      BY <2>1, <3>1, <3>2, SumTellsOn
  <2>4. SumTells(made, sum[2])'
    BY <2>2, <2>3 DEF SumTells, Past, Of
  <2>5. sum \in DictSums(d)'
    BY <2>1, DictSumsOn
  <2> QED
    BY <2>4, <2>5
<1>1. ASSUME NEW d \in Dicts, NEW r, TableTells(r, d) PROVE TableTells(r, d)'
  BY <1>0, <1>1 DEF TableTells, Loads, SumTells, Past, Of
<1>2. ASSUME NEW d \in Dicts, NEW r, ReverseTells(r, d) PROVE ReverseTells(r, d)'
  BY <1>0, <1>2 DEF ReverseTells, Loads, SumTells, Past, Of
<1>3. ASSUME NEW s \in Schemas, NEW r, PrismTells(r, s) PROVE PrismTells(r, s)'
  BY <1>0, <1>3 DEF PrismTells, Loads, SumTells, Past, Of
<1> QED
  BY <1>1, <1>2, <1>3

\* Without an edit the same is true of the same.
LEMMA TellsStays ==
    ASSUME UNCHANGED << content, torn, edits >>
    PROVE  /\ \A d : DictSums(d)' = DictSums(d)
           /\ \A vs : Past(vs)' <=> Past(vs)
           /\ \A made, vs : (Of(made, vs)' <=> Of(made, vs)) /\ (SumTells(made, vs)' <=> SumTells(made, vs))
           /\ \A r, d : TableTells(r, d)' <=> TableTells(r, d)
           /\ \A r, d : ReverseTells(r, d)' <=> ReverseTells(r, d)
           /\ \A r, s : PrismTells(r, s)' <=> PrismTells(r, s)
<1>1. \A d : DictSums(d)' = DictSums(d)
  BY DEF DictSums, Numbers
<1>2. \A made, vs : (Past(vs)' <=> Past(vs)) /\ (Of(made, vs)' <=> Of(made, vs))
  BY DEF Past, Of
<1>3. \A made, vs : SumTells(made, vs)' <=> SumTells(made, vs)
  BY <1>2 DEF SumTells
<1> QED
  BY <1>1, <1>2, <1>3 DEF TableTells, ReverseTells, PrismTells

\* A file that was not finished
LEMMA UnwrittenTells ==
    /\ ~Loads(Unwritten)
    /\ \A d : TableTells(Unwritten, d) /\ ReverseTells(Unwritten, d)
    /\ \A s : PrismTells(Unwritten, s)
<1>1. ~Loads(Unwritten)
  BY DEF Loads, Unwritten
<1> QED
  BY <1>1 DEF TableTells, ReverseTells, PrismTells

-----------------------------------------------------------------------------
(* What the steps of the compiler do *)

DictJob(sum, files, syllabary, pack) ==
    [ of |-> job.of, sum |-> sum, schema_sum |-> job.schema_sum, prism |-> job.prism,
      files |-> files, syllabary |-> syllabary, pack |-> pack ]

\* The steps of the compiler change the syllabary and the pack in its job.
LEMMA JobFields ==
    ASSUME JobTells, NEW syllabary, NEW pack
    PROVE  /\ [ job EXCEPT !.syllabary = syllabary ] = DictJob(job.sum, job.files, syllabary, job.pack)
           /\ [ job EXCEPT !.pack = pack, !.syllabary = syllabary ] =
                DictJob(job.sum, job.files, syllabary, pack)
<1> DEFINE Job(of, sum, schema_sum, prism, files, syl, k) ==
      [ of |-> of, sum |-> sum, schema_sum |-> schema_sum, prism |-> prism,
        files |-> files, syllabary |-> syl, pack |-> k ]
<1>1. PICK of, sum, schema_sum, prism, files, syl, k :
        job = Job(of, sum, schema_sum, prism, files, syl, k)
  BY DEF JobTells
<1>2. /\ job.of = of /\ job.sum = sum /\ job.schema_sum = schema_sum /\ job.prism = prism
      /\ job.files = files /\ job.syllabary = syl /\ job.pack = k
  BY <1>1
<1>3. /\ [ job EXCEPT !.syllabary = syllabary ] = Job(of, sum, schema_sum, prism, files, syllabary, k)
      /\ [ job EXCEPT !.pack = pack, !.syllabary = syllabary ] =
           Job(of, sum, schema_sum, prism, files, syllabary, pack)
  <2>1. [ Job(of, sum, schema_sum, prism, files, syl, k) EXCEPT !.syllabary = syllabary ] =
           Job(of, sum, schema_sum, prism, files, syllabary, k)
    OBVIOUS
  <2>2. [ Job(of, sum, schema_sum, prism, files, syl, k) EXCEPT !.pack = pack, !.syllabary = syllabary ] =
           Job(of, sum, schema_sum, prism, files, syllabary, pack)
    <3> DEFINE J == [ of : {of}, sum : {sum}, schema_sum : {schema_sum}, prism : {prism},
                      files : {files}, syllabary : {syl, syllabary}, pack : {k, pack} ]
    <3>1. Job(of, sum, schema_sum, prism, files, syl, k) \in J
      OBVIOUS
    <3>2. ASSUME NEW r \in J
          PROVE  /\ [ r EXCEPT !.pack = pack, !.syllabary = syllabary ] \in J
                 /\ [ r EXCEPT !.pack = pack, !.syllabary = syllabary ].pack = pack
                 /\ [ r EXCEPT !.pack = pack, !.syllabary = syllabary ].syllabary = syllabary
      OBVIOUS
    <3>3. \A r \in J : r.pack = pack /\ r.syllabary = syllabary =>
            r = Job(of, sum, schema_sum, prism, files, syllabary, pack)
      OBVIOUS
    <3> HIDE DEF J, Job
    <3> QED
      BY <3>1, <3>2, <3>3
  <2> HIDE DEF Job
  <2> QED
    BY <1>1, <2>1, <2>2
<1> QED
  BY <1>2, <1>3 DEF DictJob

Replaced(files, names, name, file) ==
    [ n \in names |-> IF n = name THEN file ELSE files[n] ]

\* One file is replaced in a directory.
LEMMA Replacing ==
    ASSUME NEW names, NEW files, files = [ n \in names |-> files[n] ], NEW name, NEW file
    PROVE  [ files EXCEPT ![name] = file ] = Replaced(files, names, name, file)
  BY DEF Replaced

Table(sum, made, syllabary) ==
    [ whole |-> TRUE, sum |-> sum, made |-> made, syllabary |-> syllabary ]

\* The table of the dictionary is built of its sources or fails.
LEMMA BuildTableDoes ==
    ASSUME Control, SumsTell, Compiles, BuildTable
    PROVE  /\ Compiling /\ UNCHANGED << content, torn, edits, compiled, reverse, prisms, gap >>
           /\ \/ \E made :
                   /\ made = IF job.files = {} THEN <<>> ELSE Versions(job.files)
                   /\ tables' = Replaced(tables, Tables, Dict, Table(job.sum, made, made))
                   /\ job' = DictJob(job.sum, job.files, made, job.pack)
                   /\ Goto("reverse")
              \/ tables' = Replaced(tables, Tables, Dict, Unwritten) /\ NextSchema(FALSE)
<1> DEFINE made == IF job.files = {} THEN <<>> ELSE Versions(job.files)
<1>1. Compiling /\ JobTells
  BY DEF Compiles, Compiling, BuildTable
<1>2. tables = [ t \in Tables |-> tables[t] ]
  BY DEF SumsTell
<1>3. \/ /\ tables' = [ tables EXCEPT ![Dict] =
                [ whole |-> TRUE, sum |-> job.sum, made |-> made, syllabary |-> made ] ]
           /\ job' = [ job EXCEPT !.syllabary = made ]
           /\ Goto("reverse")
      \/ tables' = [ tables EXCEPT ![Dict] = Unwritten ] /\ NextSchema(FALSE)
  BY DEF BuildTable, NoSyllabary
<1>4. UNCHANGED << content, torn, edits, compiled, reverse, prisms, gap >>
  BY DEF BuildTable, sourceVars, noteVars
<1> HIDE DEF made
<1>5. \A file : [ tables EXCEPT ![Dict] = file ] = Replaced(tables, Tables, Dict, file)
  BY <1>2, Replacing
<1>6. [ job EXCEPT !.syllabary = made ] = DictJob(job.sum, job.files, made, job.pack)
  BY <1>1, JobFields
<1> QED
  BY <1>1, <1>3, <1>4, <1>5, <1>6 DEF Table, made

\* The reverse database is built of the table or fails.
LEMMA BuildReverseDbDoes ==
    ASSUME Control, SumsTell, Compiles, BuildReverseDb
    PROVE  /\ Compiling /\ UNCHANGED << content, torn, edits, compiled, tables, prisms, gap >>
           /\ \/ /\ reverse' = Replaced(reverse, Dicts, Dict,
                        [ whole |-> TRUE, sum |-> job.sum, made |-> tables[Dict].made ])
                 /\ Goto("prism") /\ UNCHANGED job
              \/ reverse' = Replaced(reverse, Dicts, Dict, Unwritten) /\ NextSchema(FALSE)
<1>1. Compiling /\ reverse = [ d \in Dicts |-> reverse[d] ]
  BY DEF SumsTell, Compiling, BuildReverseDb
<1>2. \A file : [ reverse EXCEPT ![Dict] = file ] = Replaced(reverse, Dicts, Dict, file)
  BY <1>1, Replacing
<1>3. UNCHANGED << content, torn, edits, compiled, tables, prisms, gap >>
  BY DEF BuildReverseDb, sourceVars, noteVars
<1>4. \/ /\ reverse' = [ reverse EXCEPT ![Dict] =
                [ whole |-> TRUE, sum |-> job.sum, made |-> tables[Dict].made ] ]
           /\ Goto("prism") /\ UNCHANGED job
      \/ reverse' = [ reverse EXCEPT ![Dict] = Unwritten ] /\ NextSchema(FALSE)
  BY DEF BuildReverseDb
<1> QED
  BY <1>1, <1>2, <1>3, <1>4

Prism(sum, schema_sum, made) ==
    [ whole |-> TRUE, sum |-> sum, schema_sum |-> schema_sum, made |-> made ]

\* The prism is kept, or built of the syllabary, or fails.
LEMMA BuildPrismDoes ==
    ASSUME Control, SumsTell, Compiles, BuildPrism
    PROVE  /\ Compiling /\ UNCHANGED << content, torn, edits, compiled, tables, reverse, gap >>
           /\ \/ ~job.prism /\ Goto("pack") /\ UNCHANGED << prisms, job >>
              \/ /\ job.prism
                 /\ prisms' = Replaced(prisms, Schemas, Schema,
                      Prism(job.sum, job.schema_sum, << tables[Dict].syllabary, compiled[Schema] >>))
                 /\ Goto("pack") /\ UNCHANGED job
              \/ /\ job.prism
                 /\ prisms' \in { prisms, Replaced(prisms, Schemas, Schema, Unwritten) }
                 /\ NextSchema(FALSE)
<1>1. Compiling /\ prisms = [ s \in Schemas |-> prisms[s] ]
  BY DEF SumsTell, Compiling, BuildPrism
<1>2. \A file : [ prisms EXCEPT ![Schema] = file ] = Replaced(prisms, Schemas, Schema, file)
  BY <1>1, Replacing
<1>3. UNCHANGED << content, torn, edits, compiled, tables, reverse, gap >>
  BY DEF BuildPrism, sourceVars, noteVars
<1>4. \/ ~job.prism /\ Goto("pack") /\ UNCHANGED << prisms, job >>
      \/ /\ job.prism
         /\ prisms' = [ prisms EXCEPT ![Schema] =
               Prism(job.sum, job.schema_sum, << tables[Dict].syllabary, compiled[Schema] >>) ]
         /\ Goto("pack") /\ UNCHANGED job
      \/ /\ job.prism
         /\ prisms' \in { prisms, [ prisms EXCEPT ![Schema] = Unwritten ] }
         /\ NextSchema(FALSE)
  BY DEF BuildPrism, Prism
<1> QED
  BY <1>1, <1>2, <1>3, <1>4

\* The pack that is next
Pack == PacksOf[Schema][job.pack]

\* It is one of the schema's, and so no dictionary.
LEMMA PackIsNext ==
    ASSUME Control, Compiling, JobTells, job.pack <= Len(PacksOf[Schema])
    PROVE  /\ Schema \in Schemas /\ Pack \in Range(PacksOf[Schema])
           /\ Pack \in Tables /\ Pack \notin Dicts
<1>1. Schema \in Schemas
  BY SchemaFacts DEF Compiling
<1>2. job.pack \in 1 .. Len(PacksOf[Schema])
  BY <1>1, PackFacts DEF JobTells
<1> QED
  BY <1>1, <1>2, PackFacts DEF Pack

\* A pack is passed over, kept, built or not finished; the next follows.
LEMMA BuildPackDoes ==
    ASSUME Control, SumsTell, Compiles, BuildPack
    PROVE  /\ Compiling /\ UNCHANGED << content, torn, edits, compiled, reverse, prisms >>
           /\ job.pack <= Len(PacksOf[Schema])
           /\ \/ /\ gap' /\ UNCHANGED << tables, update >>
                 /\ job' = DictJob(job.sum, job.files, <<>>, job.pack + 1)
              \/ /\ UNCHANGED gap
                 /\ job' = DictJob(job.sum, job.files, job.syllabary, job.pack + 1)
                 /\ \/ ~NeedsPack(Pack) /\ UNCHANGED << tables, update >>
                    \/ /\ tables' = Replaced(tables, Tables, Pack,
                              Table(PackChecksum(Pack), Versions(DictFiles[Pack]), job.syllabary))
                       /\ UNCHANGED update
                    \/ /\ tables' = Replaced(tables, Tables, Pack, Unwritten)
                       /\ Silently("pack")
<1>1. Compiling /\ JobTells
  BY DEF Compiles, Compiling, BuildPack
<1>2. \A file : [ tables EXCEPT ![Pack] = file ] = Replaced(tables, Tables, Pack, file)
  BY Replacing DEF SumsTell
<1>3. \A syllabary : NextPack(syllabary) =>
        job' = DictJob(job.sum, job.files, syllabary, job.pack + 1)
  BY <1>1, JobFields DEF NextPack
<1>4. UNCHANGED << content, torn, edits, compiled, reverse, prisms >> /\ job.pack <= Len(PacksOf[Schema])
  BY DEF BuildPack, sourceVars, noteVars
<1>5. \/ gap' /\ UNCHANGED << tables, update >> /\ NextPack(<<>>)
      \/ /\ UNCHANGED gap /\ NextPack(job.syllabary)
         /\ \/ ~NeedsPack(Pack) /\ UNCHANGED << tables, update >>
            \/ /\ tables' = [ tables EXCEPT ![Pack] =
                     Table(PackChecksum(Pack), Versions(DictFiles[Pack]), job.syllabary) ]
               /\ UNCHANGED update
            \/ tables' = [ tables EXCEPT ![Pack] = Unwritten ] /\ Silently("pack")
  BY DEF BuildPack, NoSyllabary, Pack, Table
<1> QED
  BY <1>1, <1>2, <1>3, <1>4, <1>5

\* When the process ends, the file that was being written is not finished.
LEMMA CrashDoes ==
    ASSUME SumsTell, Crash
    PROVE  /\ UNCHANGED << content, torn, edits, gap >> /\ update'.at = "idle"
           /\ ~update'.ok /\ (update.at = "link" \/ UNCHANGED compiled)
           /\ \/ UNCHANGED tables
              \/ update.at = "table" /\ tables' = Replaced(tables, Tables, Dict, Unwritten)
              \/ /\ update.at = "pack" /\ job.pack <= Len(PacksOf[Schema])
                 /\ tables' = Replaced(tables, Tables, Pack, Unwritten)
           /\ \/ UNCHANGED reverse
              \/ update.at = "reverse" /\ reverse' = Replaced(reverse, Dicts, Dict, Unwritten)
           /\ \/ UNCHANGED prisms
              \/ /\ update.at = "prism" /\ job.prism
                 /\ prisms' = Replaced(prisms, Schemas, Schema, Unwritten)
<1>1. /\ UNCHANGED << content, torn, edits, gap >> /\ (update.at = "link" \/ UNCHANGED compiled)
      /\ update' = [ at |-> "idle", n |-> 0, ok |-> FALSE, silent |-> FALSE ]
  BY DEF Crash, sourceVars
<1>2. /\ \A name, file : [ tables EXCEPT ![name] = file ] = Replaced(tables, Tables, name, file)
      /\ \A name, file : [ reverse EXCEPT ![name] = file ] = Replaced(reverse, Dicts, name, file)
      /\ \A name, file : [ prisms EXCEPT ![name] = file ] = Replaced(prisms, Schemas, name, file)
  BY Replacing DEF SumsTell
<1>3. \A written : tables' \in Left(tables, written) =>
        tables' = tables \/ \E name \in written : tables' = Replaced(tables, Tables, name, Unwritten)
  BY <1>2 DEF Left
<1>4. \A written : reverse' \in Left(reverse, written) =>
        reverse' = reverse \/ \E name \in written : reverse' = Replaced(reverse, Dicts, name, Unwritten)
  BY <1>2 DEF Left
<1>5. \A written : prisms' \in Left(prisms, written) =>
        prisms' = prisms \/ \E name \in written : prisms' = Replaced(prisms, Schemas, name, Unwritten)
  BY <1>2 DEF Left
<1>6. \/ UNCHANGED tables
      \/ update.at = "table" /\ tables' = Replaced(tables, Tables, Dict, Unwritten)
      \/ /\ update.at = "pack" /\ job.pack <= Len(PacksOf[Schema])
         /\ tables' = Replaced(tables, Tables, Pack, Unwritten)
  <2>1. CASE update.at = "table"
    <3>1. tables' \in Left(tables, {Dict})
      BY <2>1 DEF Crash
    <3> QED
      BY <2>1, <3>1, <1>3
  <2>2. CASE update.at = "pack" /\ job.pack <= Len(PacksOf[Schema])
    <3>1. tables' \in Left(tables, {Pack}) \/ tables' \in Left(tables, {})
      BY <2>2 DEF Crash, Pack
    <3> QED
      BY <2>2, <3>1, <1>3
  <2>3. CASE update.at # "table" /\ ~(update.at = "pack" /\ job.pack <= Len(PacksOf[Schema]))
    <3>1. tables' \in Left(tables, {})
      BY <2>3 DEF Crash
    <3> QED
      BY <3>1, <1>3
  <2> QED
    BY <2>1, <2>2, <2>3
<1>7. UNCHANGED reverse \/ (update.at = "reverse" /\ reverse' = Replaced(reverse, Dicts, Dict, Unwritten))
  BY <1>4 DEF Crash
<1>8. UNCHANGED prisms \/ (/\ update.at = "prism" /\ job.prism
                         /\ prisms' = Replaced(prisms, Schemas, Schema, Unwritten))
  BY <1>5 DEF Crash
<1> QED
  BY <1>1, <1>6, <1>7, <1>8

\* Other steps build nothing.
LEMMA BuiltStays ==
    ASSUME DeployNext, ~(BuildTable \/ BuildReverseDb \/ BuildPrism \/ BuildPack \/ Crash)
    PROVE  UNCHANGED << tables, reverse, prisms, gap >>
  BY DEF DeployNext, StartUpdate, LinkConfig, ReadSchemaList, UpdateSchema, FinishUpdate, Decide,
         DictIsReady, EditSource, RemoveSource, Tick, builtVars

\* Sums go on telling: of an edit their versions are past, and what is built has its own.
LEMMA SumsTellStep ==
    ASSUME Clock, Control, SumsTell, Compiles, DeployNext
    PROVE  SumsTell'
<1>1. CASE Edit
  <2>1. UNCHANGED << tables, reverse, prisms >>
    BY <1>1 DEF Edit, EditSource, RemoveSource, builtVars
  <2>2. \A d \in Dicts : TableTells(tables[d], d)'
    <3> SUFFICES ASSUME NEW d \in Dicts PROVE TableTells(tables[d], d)'
      OBVIOUS
    <3>1. PICK r : r = tables[d]
      OBVIOUS
    <3>2. TableTells(r, d)'
      BY <1>1, <3>1, TellsOn DEF SumsTell
    <3> QED
      BY <2>1, <3>1, <3>2 DEF TableTells, Loads, SumTells, Past, Of
  <2>3. \A d \in Dicts : ReverseTells(reverse[d], d)'
    <3> SUFFICES ASSUME NEW d \in Dicts PROVE ReverseTells(reverse[d], d)'
      OBVIOUS
    <3>1. PICK r : r = reverse[d]
      OBVIOUS
    <3>2. ReverseTells(r, d)'
      BY <1>1, <3>1, TellsOn DEF SumsTell
    <3> QED
      BY <2>1, <3>1, <3>2 DEF ReverseTells, Loads, SumTells, Past, Of
  <2>4. \A s \in Schemas : PrismTells(prisms[s], s)'
    <3> SUFFICES ASSUME NEW s \in Schemas PROVE PrismTells(prisms[s], s)'
      OBVIOUS
    <3>1. PICK r : r = prisms[s]
      OBVIOUS
    <3>2. PrismTells(r, s)'
      BY <1>1, <3>1, TellsOn DEF SumsTell
    <3> QED
      BY <2>1, <3>1, <3>2 DEF PrismTells, Loads, SumTells, Past, Of
  <2> QED
    BY <2>1, <2>2, <2>3, <2>4 DEF SumsTell
\* Without an edit it is enough that what is built anew tells.
<1>2. ASSUME UNCHANGED << content, torn, edits >>,
             tables' = [ t \in Tables |-> tables'[t] ], reverse' = [ d \in Dicts |-> reverse'[d] ],
             prisms' = [ s \in Schemas |-> prisms'[s] ],
             \A d \in Dicts : tables'[d] = tables[d] \/ TableTells(tables'[d], d),
             \A d \in Dicts : reverse'[d] = reverse[d] \/ ReverseTells(reverse'[d], d),
             \A s \in Schemas : prisms'[s] = prisms[s] \/ PrismTells(prisms'[s], s)
      PROVE  SumsTell'
  <2>1. \A d \in Dicts : TableTells(tables'[d], d) /\ ReverseTells(reverse'[d], d)
    BY <1>2 DEF SumsTell
  <2>2. \A s \in Schemas : PrismTells(prisms'[s], s)
    BY <1>2 DEF SumsTell
  <2>3. ASSUME NEW d \in Dicts
        PROVE  TableTells(tables[d], d)' /\ ReverseTells(reverse[d], d)'
    <3>1. PICK t, r : t = tables'[d] /\ r = reverse'[d]
      OBVIOUS
    <3>2. TableTells(t, d)' /\ ReverseTells(r, d)'
      BY <1>2, <2>1, <3>1, TellsStays
    <3> QED
      BY <3>1, <3>2 DEF TableTells, ReverseTells, Loads, SumTells, Past, Of
  <2>4. ASSUME NEW s \in Schemas PROVE PrismTells(prisms[s], s)'
    <3>1. PICK r : r = prisms'[s]
      OBVIOUS
    <3>2. PrismTells(r, s)'
      BY <1>2, <2>2, <3>1, TellsStays
    <3> QED
      BY <3>1, <3>2 DEF PrismTells, Loads, SumTells, Past, Of
  <2> QED
    BY <1>2, <2>3, <2>4 DEF SumsTell
<1>3. /\ tables = [ t \in Tables |-> tables[t] ] /\ reverse = [ d \in Dicts |-> reverse[d] ]
      /\ prisms = [ s \in Schemas |-> prisms[s] ]
  BY DEF SumsTell
<1>4. ASSUME NEW files, NEW names, NEW name, NEW file
      PROVE  /\ Replaced(files, names, name, file) = [ n \in names |-> Replaced(files, names, name, file)[n] ]
             /\ \A n \in names : Replaced(files, names, name, file)[n] = IF n = name THEN file ELSE files[n]
  BY DEF Replaced
<1>5. \A d \in Dicts : d \in Tables
  BY DictFacts
<1>6. CASE BuildTable
  <2>1. /\ Compiling /\ UNCHANGED << content, torn, edits, reverse, prisms >>
        /\ \/ \E made :
                /\ made = IF job.files = {} THEN <<>> ELSE Versions(job.files)
                /\ tables' = Replaced(tables, Tables, Dict, Table(job.sum, made, made))
           \/ tables' = Replaced(tables, Tables, Dict, Unwritten)
    BY <1>6, BuildTableDoes
  <2>2. JobTells /\ TableToBuild /\ update.at = "table"
    BY <1>6, <2>1 DEF Compiles, BuildTable
  <2>3. ASSUME NEW made, made = IF job.files = {} THEN <<>> ELSE Versions(job.files)
        PROVE  TableTells(Table(job.sum, made, made), Dict)
    <3>1. SumTells(made, job.sum[2])
      <4>1. CASE job.files # {}
        <5>1. job.files = DictFiles[Dict]
          BY <2>2, <4>1 DEF JobTells
        <5>2. SumTells(Versions(DictFiles[Dict]), job.sum[2])
          BY <2>2, <4>1 DEF TableToBuild
        <5> QED
          BY <2>3, <4>1, <5>1, <5>2
      <4>2. CASE job.files = {}
        <5>1. job.sum[2][TableFile[Dict]] # content[TableFile[Dict]]
          BY <2>2, <4>2 DEF TableToBuild
        <5>2. TableFile[Dict] \in DOMAIN job.sum[2] /\ job.sum[2][TableFile[Dict]] # 0
          BY <1>5, <2>2, DictSumFacts DEF JobTells
        <5>3. Past(job.sum[2])
          BY <5>1, <5>2 DEF Past
        <5> QED
          BY <5>3 DEF SumTells
      <4> QED
        BY <4>1, <4>2
    <3>2. job.sum \in DictSums(Dict)
      BY <2>2 DEF JobTells
    <3> QED
      BY <3>1, <3>2 DEF TableTells, Table
  <2>4. PICK file : tables' = Replaced(tables, Tables, Dict, file) /\ TableTells(file, Dict)
    BY <2>1, <2>3, UnwrittenTells
  <2> QED
    BY <1>2, <1>3, <1>4, <1>5, <2>1, <2>4
<1>7. CASE BuildReverseDb
  <2>1. /\ Compiling /\ UNCHANGED << content, torn, edits, tables, prisms >>
        /\ \/ reverse' = Replaced(reverse, Dicts, Dict,
                   [ whole |-> TRUE, sum |-> job.sum, made |-> tables[Dict].made ])
           \/ reverse' = Replaced(reverse, Dicts, Dict, Unwritten)
    BY <1>7, BuildReverseDbDoes
  <2>2. JobTells /\ Built /\ update.at = "reverse"
    BY <1>7, <2>1 DEF Compiles, BuildReverseDb
  <2>3. ReverseTells([ whole |-> TRUE, sum |-> job.sum, made |-> tables[Dict].made ], Dict)
    <3>1. TableTells(tables[Dict], Dict) /\ Loads(tables[Dict]) /\ tables[Dict].sum = job.sum
      BY <2>2 DEF SumsTell, JobTells, Built
    <3> QED
      BY <3>1 DEF TableTells, ReverseTells
  <2>4. PICK file : reverse' = Replaced(reverse, Dicts, Dict, file) /\ ReverseTells(file, Dict)
    BY <2>1, <2>3, UnwrittenTells
  <2> QED
    BY <1>2, <1>3, <1>4, <1>5, <2>1, <2>4
<1>8. CASE BuildPrism
  <2> DEFINE new == Prism(job.sum, job.schema_sum, << tables[Dict].syllabary, compiled[Schema] >>)
  <2>1. /\ Compiling /\ UNCHANGED << content, torn, edits, tables, reverse >>
        /\ \/ UNCHANGED prisms
           \/ prisms' = Replaced(prisms, Schemas, Schema, new)
           \/ prisms' = Replaced(prisms, Schemas, Schema, Unwritten)
    BY <1>8, BuildPrismDoes
  <2>2. JobTells /\ Built /\ update.at = "prism"
    BY <1>8, <2>1 DEF Compiles, BuildPrism
  <2>3. PrismTells(new, Schema)
    <3>1. TableTells(tables[Dict], Dict) /\ Loads(tables[Dict]) /\ tables[Dict].sum = job.sum
      BY <2>2 DEF SumsTell, JobTells, Built
    <3>2. job.schema_sum = compiled[Schema] /\ Dict \in Dicts /\ Dict = DictOf[Schema]
      BY <2>2 DEF JobTells, Dict
    <3> QED
      BY <3>1, <3>2 DEF TableTells, PrismTells, Prism
  <2> HIDE DEF new
  <2>4. UNCHANGED prisms \/ \E file : prisms' = Replaced(prisms, Schemas, Schema, file) /\ PrismTells(file, Schema)
    BY <2>1, <2>3, UnwrittenTells
  <2> QED
    BY <1>2, <1>3, <1>4, <1>5, <2>1, <2>4
<1>9. CASE BuildPack
  <2>1. /\ Compiling /\ UNCHANGED << content, torn, edits, reverse, prisms >>
        /\ job.pack <= Len(PacksOf[Schema])
        /\ UNCHANGED tables \/ \E file : tables' = Replaced(tables, Tables, Pack, file)
    BY <1>9, BuildPackDoes
  <2>2. Pack \notin Dicts
    BY <2>1, PackIsNext DEF Compiles
  <2> QED
    BY <1>2, <1>3, <1>4, <1>5, <2>1, <2>2
<1>10. CASE Crash
  <2>1. /\ UNCHANGED << content, torn, edits >>
        /\ UNCHANGED tables \/ \E name : tables' = Replaced(tables, Tables, name, Unwritten)
        /\ UNCHANGED reverse \/ \E name : reverse' = Replaced(reverse, Dicts, name, Unwritten)
        /\ UNCHANGED prisms \/ \E name : prisms' = Replaced(prisms, Schemas, name, Unwritten)
    BY <1>10, CrashDoes
  <2>2. /\ tables' = [ t \in Tables |-> tables'[t] ]
        /\ \A d \in Dicts : tables'[d] = tables[d] \/ TableTells(tables'[d], d)
    BY <1>3, <1>4, <1>5, <2>1, UnwrittenTells
  <2>3. /\ reverse' = [ d \in Dicts |-> reverse'[d] ]
        /\ \A d \in Dicts : reverse'[d] = reverse[d] \/ ReverseTells(reverse'[d], d)
    BY <1>3, <1>4, <2>1, UnwrittenTells
  <2>4. /\ prisms' = [ s \in Schemas |-> prisms'[s] ]
        /\ \A s \in Schemas : prisms'[s] = prisms[s] \/ PrismTells(prisms'[s], s)
    BY <1>3, <1>4, <2>1, UnwrittenTells
  <2> QED
    BY <1>2, <2>1, <2>2, <2>3, <2>4
<1>11. CASE ~Edit /\ ~(BuildTable \/ BuildReverseDb \/ BuildPrism \/ BuildPack \/ Crash)
  BY <1>2, <1>3, <1>11, Unedited, BuiltStays
<1> QED
  BY <1>1, <1>6, <1>7, <1>8, <1>9, <1>10, <1>11

-----------------------------------------------------------------------------
(* The compiler of a dictionary *)

\* It is on its way until it has finished with the schema.
LEMMA CompilingFrom ==
    ASSUME Control, Linking, DeployNext, Compiling'
    PROVE  /\ Decide \/ BuildTable \/ BuildReverseDb \/ BuildPrism \/ BuildPack \/ Edit \/ Tick
           /\ Schema' = Schema /\ Dict' = Dict
<1>1. \/ Decide \/ BuildTable \/ BuildReverseDb \/ BuildPrism \/ BuildPack \/ Edit \/ Tick
  <2>1. ASSUME NEW full_check, StartUpdate(full_check) PROVE FALSE
    BY <2>1 DEF StartUpdate, Compiling
  <2>2. CASE LinkConfig
    BY <2>2, UpdateFields DEF LinkConfig, Linking, Compiling
  <2>3. CASE ReadSchemaList
    <3>1. update'.at \in { "idle", "schema" }
      BY <2>3, UpdateFields DEF Control, ReadSchemaList
    <3> QED
      BY <3>1 DEF Compiling
  <2>4. CASE UpdateSchema
    <3>1. NextSchema(FALSE) \/ Goto("link") \/ Goto("decide")
      BY <2>4 DEF UpdateSchema, ConfigFileUpdate
    <3>2. update'.at \in { "schema", "link", "decide" }
      BY <3>1, UpdateFields
    <3> QED
      BY <3>2 DEF Compiling
  <2>5. CASE FinishUpdate
    BY <2>5, UpdateFields DEF FinishUpdate, Compiling
  <2>6. CASE DictIsReady
    BY <2>6, UpdateFields DEF DictIsReady, Compiling
  <2>7. CASE Crash
    BY <2>7 DEF Crash, Compiling
  <2> QED
    BY <2>1, <2>2, <2>3, <2>4, <2>5, <2>6, <2>7 DEF DeployNext, Edit
<1>2. \/ \E ok : NextSchema(ok)
      \/ \E at : Goto(at) \/ Silently(at)
      \/ UNCHANGED update
  BY <1>1 DEF Decide, BuildTable, BuildReverseDb, BuildPrism, BuildPack, Edit, EditSource,
       RemoveSource, Tick
<1>3. update'.n = update.n
  BY <1>2, UpdateFields DEF Compiling
<1> QED
  BY <1>1, <1>3 DEF Schema, Dict

\* What is to be built for the sum
DecidedJob(sum, files, syllabary) ==
    [ of |-> Dict, sum |-> sum, schema_sum |-> compiled[Schema],
      prism |-> NeedsPrism(sum, compiled[Schema]), files |-> files, syllabary |-> syllabary,
      pack |-> 1 ]

\* There is something to be compiled: from the sources, or from the table that is left.
LEMMA DecideDoes ==
    ASSUME Control, Decide, Compiling'
    PROVE  /\ UNCHANGED << content, torn, edits, compiled, tables, reverse, prisms, gap >>
           /\ Schema \in Schemas /\ compiled[Schema] # Absent /\ Dict \in Dicts
           /\ \E sum, files, syllabary :
                /\ \/ /\ Exists(TableFile[Dict])
                      /\ sum = DictFileChecksum(Dict, 0) /\ files = DictFiles[Dict]
                   \/ /\ ~Exists(TableFile[Dict]) /\ Loads(tables[Dict])
                      /\ sum = tables[Dict].sum /\ files = {}
                /\ Loads(tables[Dict]) => syllabary = tables[Dict].syllabary
                /\ job' = DecidedJob(sum, files, syllabary)
                /\ Goto(IF NeedsTable(Dict, sum) THEN "table" ELSE "prism")
<1>1. ~NextSchema(TRUE) /\ ~NextSchema(FALSE)
  BY UpdateFields DEF Compiling
<1>2. UNCHANGED << content, torn, edits, compiled, tables, reverse, prisms, gap >>
  BY DEF Decide, sourceVars, builtVars, noteVars
<1>3. Schema \in Schemas
  BY SchemaFacts DEF Decide
<1>4. compiled[Schema] # Absent /\ Dict # NoDict
  BY <1>1 DEF Decide
<1>5. Dict \in Dicts
  BY <1>3, <1>4, DictFacts DEF Dict
<1> DEFINE sum == IF Exists(TableFile[Dict]) THEN DictFileChecksum(Dict, 0) ELSE tables[Dict].sum
           files == IF Exists(TableFile[Dict]) THEN DictFiles[Dict] ELSE {}
           syllabary == IF Loads(tables[Dict]) THEN tables[Dict].syllabary ELSE NoSyllabary
<1>6. /\ \/ Exists(TableFile[Dict])
         \/ ~Exists(TableFile[Dict]) /\ Loads(tables[Dict])
      /\ job' = DecidedJob(sum, files, syllabary)
      /\ Goto(IF NeedsTable(Dict, sum) THEN "table" ELSE "prism")
  BY <1>1 DEF Decide, DecidedJob
<1>7. /\ \/ /\ Exists(TableFile[Dict])
            /\ sum = DictFileChecksum(Dict, 0) /\ files = DictFiles[Dict]
         \/ /\ ~Exists(TableFile[Dict]) /\ Loads(tables[Dict])
            /\ sum = tables[Dict].sum /\ files = {}
      /\ Loads(tables[Dict]) => syllabary = tables[Dict].syllabary
  BY <1>6
<1> HIDE DEF sum, files, syllabary
<1> QED
  BY <1>2, <1>3, <1>4, <1>5, <1>6, <1>7

\* What is decided is true of the sources and of the files that are kept.
LEMMA DecideCompiles ==
    ASSUME Clock, Control, SumsTell, Decide, Compiling', Schema' = Schema, Dict' = Dict
    PROVE  (JobTells /\ TableToBuild /\ Built)'
<1>1. /\ UNCHANGED << content, torn, edits, compiled, tables, reverse, prisms, gap >>
      /\ Schema \in Schemas /\ compiled[Schema] # Absent /\ Dict \in Dicts
  BY DecideDoes
<1>2. PICK sum, files, syllabary :
        /\ \/ /\ Exists(TableFile[Dict])
              /\ sum = DictFileChecksum(Dict, 0) /\ files = DictFiles[Dict]
           \/ /\ ~Exists(TableFile[Dict]) /\ Loads(tables[Dict])
              /\ sum = tables[Dict].sum /\ files = {}
        /\ Loads(tables[Dict]) => syllabary = tables[Dict].syllabary
        /\ job' = DecidedJob(sum, files, syllabary)
        /\ Goto(IF NeedsTable(Dict, sum) THEN "table" ELSE "prism")
  BY DecideDoes
<1>3. /\ Dict \in Tables /\ DictFiles[Dict] \subseteq Sources /\ TableFile[Dict] \in DictFiles[Dict]
  BY <1>1, DictFacts
<1>4. sum \in DictSums(Dict)
  <2>1. CASE Exists(TableFile[Dict])
    <3> DEFINE vs == Versions(DictFiles[Dict])
    <3>1. vs \in [ DictFiles[Dict] -> Numbers ]
      BY <1>3 DEF Clock, Versions
    <3>2. vs[TableFile[Dict]] # 0
      BY <1>3, <2>1 DEF Exists, Versions
    <3>3. sum = << 0, vs >>
      BY <1>2, <2>1 DEF DictFileChecksum
    <3> HIDE DEF vs
    <3> QED
      BY <3>1, <3>2, <3>3 DEF DictSums
  <2>2. CASE ~Exists(TableFile[Dict])
    BY <1>1, <1>2, <2>2 DEF SumsTell, TableTells
  <2> QED
    BY <2>1, <2>2
<1>5. /\ job' = [ of |-> job'.of, sum |-> job'.sum, schema_sum |-> job'.schema_sum, prism |-> job'.prism,
                  files |-> job'.files, syllabary |-> job'.syllabary, pack |-> job'.pack ]
      /\ job'.sum = sum /\ job'.schema_sum = compiled[Schema] /\ job'.files = files
      /\ job'.prism = NeedsPrism(sum, compiled[Schema]) /\ job'.syllabary = syllabary /\ job'.pack = 1
  BY <1>2 DEF DecidedJob
<1>6. update'.at = IF NeedsTable(Dict, sum) THEN "table" ELSE "prism"
  BY <1>2, UpdateFields
<1>7. JobTells'
  <2>1. NeedsPrism(sum, compiled[Schema]) \in BOOLEAN
    BY DEF NeedsPrism
  <2>2. sum \in DictSums(Dict)'
    BY <1>1, <1>4 DEF DictSums, Numbers
  <2>3. files \in { DictFiles[Dict], {} }
    BY <1>2
  <2> QED
    BY <1>1, <1>5, <2>1, <2>2, <2>3 DEF JobTells
<1>8. TableToBuild'
  <2>1. CASE Exists(TableFile[Dict])
    <3>1. Versions(DictFiles[Dict])' = Versions(DictFiles[Dict])
      BY <1>1 DEF Versions
    <3>2. SumTells(Versions(DictFiles[Dict]), sum[2])'
      <4>1. PICK vs : vs = Versions(DictFiles[Dict])
        OBVIOUS
      <4>2. sum[2] = vs
        BY <1>2, <2>1, <4>1 DEF DictFileChecksum
      <4>3. vs \in [ DictFiles[Dict] -> Nat ]
        BY <1>3, <4>1 DEF Versions, Clock
      <4>4. \A f \in DOMAIN vs : vs[f] = vs[f] \/ (vs[f] = 0 /\ f \in torn')
        OBVIOUS
      <4>5. vs \in [ DOMAIN vs -> Nat ]
        BY <4>3
      <4> QED
        BY <3>1, <4>1, <4>2, <4>4, <4>5 DEF SumTells, Of
    <3>3. job'.files # {}
      BY <1>2, <1>3, <1>5, <2>1
    <3> QED
      BY <1>5, <3>2, <3>3 DEF TableToBuild
  <2>2. CASE ~Exists(TableFile[Dict])
    <3>1. sum[2][TableFile[Dict]] # content[TableFile[Dict]]
      BY <1>3, <1>4, <2>2, DictSumFacts DEF Exists
    <3> QED
      BY <1>1, <1>2, <1>5, <2>2, <3>1 DEF TableToBuild, Loads
  <2> QED
    BY <2>1, <2>2
<1>9. Built'
  <2>3. ~job'.prism =>
          /\ Loads(prisms[Schema]) /\ prisms[Schema].sum = sum
          /\ prisms[Schema].schema_sum = compiled[Schema]
    BY <1>5 DEF NeedsPrism
  <2>1. CASE NeedsTable(Dict, sum)
    BY <1>1, <1>5, <1>6, <2>1, <2>3 DEF Built, Loads
  <2>2. CASE ~NeedsTable(Dict, sum)
    <3>1. update'.at = "prism"
      BY <1>6, <2>2
    <3>2. /\ Loads(tables[Dict]) /\ tables[Dict].sum = sum /\ syllabary = tables[Dict].syllabary
          /\ Loads(reverse[Dict]) /\ reverse[Dict].sum = sum
      BY <1>2, <2>2 DEF NeedsTable
    <3> QED
      BY <1>1, <1>5, <2>3, <3>1, <3>2 DEF Built, Loads
  <2> QED
    BY <2>1, <2>2
<1> QED
  BY <1>7, <1>8, <1>9

\* The steps that keep the job, but for its syllabary and the pack that is next
LEMMA JobStays ==
    ASSUME JobTells, Schema' = Schema, Dict' = Dict, UNCHANGED << edits, compiled >>,
           \/ UNCHANGED job
           \/ \E syllabary : job' = DictJob(job.sum, job.files, syllabary, job.pack)
           \/ \E syllabary : job' = DictJob(job.sum, job.files, syllabary, job.pack + 1)
    PROVE  /\ JobTells'
           /\ UNCHANGED << job.sum, job.schema_sum, job.prism, job.files >>
<1>1. UNCHANGED << job.sum, job.schema_sum, job.prism, job.files >>
  BY DEF DictJob
<1>2. job' = [ of |-> job'.of, sum |-> job'.sum, schema_sum |-> job'.schema_sum, prism |-> job'.prism,
               files |-> job'.files, syllabary |-> job'.syllabary, pack |-> job'.pack ]
  <2>1. CASE UNCHANGED job
    BY <2>1 DEF JobTells
  <2>2. CASE \E syllabary, pack : job' = DictJob(job.sum, job.files, syllabary, pack)
    BY <2>2 DEF DictJob
  <2> QED
    BY <2>1, <2>2
<1>3. job'.pack \in Nat \ {0}
  <2>1. job'.pack \in { job.pack, job.pack + 1 }
    BY DEF DictJob
  <2>2. job.pack \in Nat \ {0}
    BY DEF JobTells
  <2> QED
    BY <2>1, <2>2
<1>4. job.sum \in DictSums(Dict)'
  BY DEF JobTells, DictSums, Numbers
<1> QED
  BY <1>1, <1>2, <1>3, <1>4 DEF JobTells

\* It remains so when the sources change before the table is built.
LEMMA EditCompiles ==
    ASSUME Clock, Control, JobTells, TableToBuild, Built, Edit
    PROVE  (JobTells /\ TableToBuild /\ Built)'
<1>1. PICK file \in Sources : EditSource(file) \/ RemoveSource(file)
  BY DEF Edit
<1>2. UNCHANGED << update, job, compiled, tables, reverse, prisms, gap >>
  BY <1>1 DEF EditSource, RemoveSource, builtVars
<1>3. Schema' = Schema /\ Dict' = Dict
  BY <1>2 DEF Schema, Dict
<1>4. PICK vs : vs = job.sum[2] /\ vs \in [ DictFiles[Dict] -> Numbers ] /\ vs[TableFile[Dict]] # 0
  BY DictFacts, DictSumFacts DEF JobTells
<1>5. Dict \in Tables /\ DictFiles[Dict] \subseteq Sources /\ TableFile[Dict] \in DictFiles[Dict]
  BY DictFacts DEF JobTells
<1>6. JobTells'
  <2>1. job.sum \in DictSums(Dict)'
    <3>1. PICK d, sum : d = Dict /\ sum = job.sum
      OBVIOUS
    <3>2. sum \in DictSums(d)'
      BY <1>5, <3>1, DictSumsOn DEF JobTells
    <3> QED
      BY <1>3, <3>1, <3>2 DEF DictSums
  <2> QED
    BY <1>2, <1>3, <2>1 DEF JobTells
<1>7. \A f \in Sources : f # file => content'[f] = content[f]
  BY <1>1 DEF EditSource, RemoveSource, Clock
<1>8. content'[file] \in { 0, edits + 2 } /\ content'[file] # content[file]
  BY <1>1 DEF EditSource, RemoveSource, Clock, Numbers, Exists
<1>9. torn \subseteq torn' /\ (update.at = "table" /\ file \in job.files /\ ~Exists(file) => file \in torn')
  BY <1>1 DEF EditSource, RemoveSource, Note
<1>10. TableToBuild'
  <2>1. SUFFICES ASSUME update.at = "table" PROVE TableToBuild'
    BY <1>2 DEF TableToBuild
  <2>2. CASE job.files # {}
    <3>1. job.files = DictFiles[Dict] /\ SumTells(Versions(DictFiles[Dict]), vs)
      BY <1>4, <2>1, <2>2 DEF TableToBuild, JobTells
    <3>2. CASE Past(vs)
      <4>1. Past(vs)'
        BY <1>4, <1>5, <3>2, SumTellsOn
      <4> QED
        BY <1>2, <1>4, <2>2, <4>1 DEF TableToBuild, SumTells, Past
    <3>3. CASE ~Past(vs)
      <4>1. \A f \in DictFiles[Dict] : content[f] = vs[f] \/ (vs[f] = 0 /\ f \in torn)
        BY <1>4, <3>1, <3>3 DEF SumTells, Of, Versions
      <4>2. CASE file \in DictFiles[Dict] /\ vs[file] # 0
        <5>1. \E f \in DOMAIN vs : vs[f] # 0 /\ vs[f] # content'[f]
          BY <1>4, <1>8, <4>1, <4>2
        <5> QED
          BY <1>2, <1>4, <2>2, <5>1 DEF TableToBuild, SumTells, Past
      <4>3. CASE ~(file \in DictFiles[Dict] /\ vs[file] # 0)
        <5>1. \A f \in DictFiles[Dict] : content'[f] = vs[f] \/ (vs[f] = 0 /\ f \in torn')
          BY <1>5, <1>7, <1>9, <2>1, <3>1, <4>1, <4>3 DEF Exists
        <5>2. \A f \in DictFiles[Dict] : content'[f] \in Nat
          BY <1>1, <1>5 DEF Clock, EditSource, RemoveSource
        <5>3. SumTells(Versions(DictFiles[Dict]), vs)'
          BY <1>3, <1>4, <5>1, <5>2 DEF SumTells, Of, Versions
        <5> QED
          BY <1>2, <1>3, <1>4, <2>2, <5>3 DEF TableToBuild, SumTells, Past, Of, Versions
      <4> QED
        BY <4>2, <4>3
    <3> QED
      BY <3>2, <3>3
  <2>3. CASE job.files = {}
    <3>1. /\ Loads(tables[Dict]) /\ tables[Dict].sum = job.sum
          /\ job.sum[2][TableFile[Dict]] # content[TableFile[Dict]]
      BY <2>1, <2>3 DEF TableToBuild
    <3>2. vs[TableFile[Dict]] \in Numbers /\ TableFile[Dict] \in Sources /\ edits \in Nat
      BY <1>4, <1>5 DEF Clock
    <3>3. vs[TableFile[Dict]] # content'[TableFile[Dict]]
      BY <1>4, <1>7, <1>8, <3>1, <3>2 DEF Numbers
    <3> QED
      BY <1>2, <1>3, <1>4, <2>3, <3>1, <3>3 DEF TableToBuild, Loads
  <2> QED
    BY <2>2, <2>3
<1>11. Built'
  BY <1>2, <1>3 DEF Built, Loads
<1> QED
  BY <1>6, <1>10, <1>11

\* The compiler knows what it works on, and what it has built.
LEMMA CompilesStep ==
    ASSUME Clock, Control, Linking, SumsTell, Compiles, DeployNext
    PROVE  Compiles'
<1> SUFFICES ASSUME Compiling'
             PROVE  (JobTells /\ TableToBuild /\ Built)'
  BY DEF Compiles
<1>1. /\ Decide \/ BuildTable \/ BuildReverseDb \/ BuildPrism \/ BuildPack \/ Edit \/ Tick
      /\ Schema' = Schema /\ Dict' = Dict
  BY CompilingFrom
<1>2. ASSUME ~Decide PROVE Compiling /\ JobTells /\ TableToBuild /\ Built
  <2>1. CASE BuildTable \/ BuildReverseDb \/ BuildPrism \/ BuildPack
    BY <2>1 DEF Compiles, Compiling, BuildTable, BuildReverseDb, BuildPrism, BuildPack
  <2>2. CASE Edit \/ Tick
    BY <2>2 DEF Compiles, Compiling, Edit, EditSource, RemoveSource, Tick
  <2> QED
    BY <1>1, <1>2, <2>1, <2>2
<1>3. ~NextSchema(FALSE)
  BY UpdateFields DEF Compiling
<1>4. (Dict \in Dicts /\ Schema \in Schemas) \/ Decide
  BY <1>2, SchemaFacts DEF JobTells, Compiling
<1>5. \A d \in Dicts : d \in Tables
  BY DictFacts
<1>6. CASE Decide
  BY <1>1, <1>6, DecideCompiles
<1>7. CASE BuildTable /\ ~Decide
  <2>1. /\ UNCHANGED << content, torn, edits, compiled, reverse, prisms, gap >>
        /\ \E made :
                /\ tables' = Replaced(tables, Tables, Dict, Table(job.sum, made, made))
                /\ job' = DictJob(job.sum, job.files, made, job.pack)
                /\ Goto("reverse")
    BY <1>3, <1>7, BuildTableDoes
  <2>2. PICK made :
                /\ tables' = Replaced(tables, Tables, Dict, Table(job.sum, made, made))
                /\ job' = DictJob(job.sum, job.files, made, job.pack)
                /\ update'.at = "reverse"
    BY <2>1, UpdateFields
  <2>3. JobTells' /\ UNCHANGED << job.sum, job.schema_sum, job.prism >>
    BY <1>1, <1>2, <1>7, <2>1, <2>2, JobStays
  <2>4. tables'[Dict] = Table(job.sum, made, made) /\ job'.syllabary = made /\ job'.pack = job.pack
    BY <1>4, <1>5, <1>7, <2>2, <1>2 DEF Replaced, DictJob, JobTells
  <2>5. Built'
    <3>1. /\ job.pack = 1
          /\ ~job.prism => /\ Loads(prisms[Schema]) /\ prisms[Schema].sum = job.sum
                           /\ prisms[Schema].schema_sum = job.schema_sum
      BY <1>2, <1>7 DEF Built, BuildTable
    <3>2. Loads(tables'[Dict]) /\ tables'[Dict].sum = job.sum /\ tables'[Dict].syllabary = made
      BY <2>4 DEF Table, Loads
    <3> QED
      BY <1>1, <2>1, <2>2, <2>3, <2>4, <3>1, <3>2 DEF Built, Loads
  <2> QED
    BY <2>2, <2>3, <2>5 DEF TableToBuild
<1>8. CASE BuildReverseDb /\ ~Decide
  <2>1. /\ UNCHANGED << content, torn, edits, compiled, tables, prisms, gap, job >>
        /\ reverse' = Replaced(reverse, Dicts, Dict,
                        [ whole |-> TRUE, sum |-> job.sum, made |-> tables[Dict].made ])
        /\ update'.at = "prism" /\ update.at = "reverse"
    BY <1>3, <1>8, BuildReverseDbDoes, UpdateFields DEF BuildReverseDb
  <2>2. JobTells'
    BY <1>1, <1>2, <1>8, <2>1, JobStays
  <2>3. Loads(reverse'[Dict]) /\ reverse'[Dict].sum = job.sum
    BY <1>2, <1>8, <2>1 DEF Replaced, Loads, JobTells
  <2>4. Built'
    BY <1>1, <1>2, <1>8, <2>1, <2>3 DEF Built, Loads
  <2> QED
    BY <2>1, <2>2, <2>4 DEF TableToBuild
<1>9. CASE BuildPrism /\ ~Decide
  <2>1. /\ UNCHANGED << content, torn, edits, compiled, tables, reverse, gap, job >>
        /\ \/ ~job.prism /\ UNCHANGED prisms
           \/ prisms' = Replaced(prisms, Schemas, Schema,
                      Prism(job.sum, job.schema_sum, << tables[Dict].syllabary, compiled[Schema] >>))
        /\ update'.at = "pack" /\ update.at = "prism"
    BY <1>3, <1>9, BuildPrismDoes, UpdateFields DEF BuildPrism
  <2>2. JobTells'
    BY <1>1, <1>2, <1>9, <2>1, JobStays
  <2>3. Loads(prisms'[Schema]) /\ prisms'[Schema].sum = job.sum /\ prisms'[Schema].schema_sum = job.schema_sum
    BY <1>2, <1>4, <1>9, <2>1 DEF Replaced, Loads, Prism, Built
  <2>4. Built'
    BY <1>1, <1>2, <1>9, <2>1, <2>3 DEF Built, Loads
  <2> QED
    BY <2>1, <2>2, <2>4 DEF TableToBuild
<1>10. CASE BuildPack /\ ~Decide
  <2>1. /\ UNCHANGED << content, torn, edits, compiled, reverse, prisms >>
        /\ update.at = "pack" /\ update'.at = "pack"
        /\ Compiling /\ job.pack <= Len(PacksOf[Schema])
        /\ \/ gap' /\ \E syllabary : job' = DictJob(job.sum, job.files, syllabary, job.pack + 1)
           \/ UNCHANGED gap /\ job' = DictJob(job.sum, job.files, job.syllabary, job.pack + 1)
        /\ UNCHANGED tables \/ \E file : tables' = Replaced(tables, Tables, Pack, file)
    BY <1>10, BuildPackDoes, UpdateFields DEF BuildPack
  <2>2. JobTells' /\ UNCHANGED << job.sum, job.schema_sum, job.prism >>
    BY <1>1, <1>2, <1>10, <2>1, JobStays
  <2>3. tables'[Dict] = tables[Dict]
    BY <1>2, <1>5, <1>10, <2>1, PackIsNext DEF Replaced, JobTells
  <2>4. gap' \/ (~gap /\ job'.syllabary = job.syllabary)
    BY <2>1 DEF DictJob
  <2>5. Built'
    BY <1>1, <1>2, <1>10, <2>1, <2>2, <2>3, <2>4 DEF Built, Loads
  <2> QED
    BY <2>1, <2>2, <2>5 DEF TableToBuild
<1>11. CASE Edit /\ ~Decide
  BY <1>2, <1>11, EditCompiles
<1>12. CASE Tick /\ ~Decide
  <2>1. UNCHANGED << content, torn, edits, update, compiled, tables, reverse, prisms, gap, job >>
    BY <1>12 DEF Tick, builtVars, noteVars
  <2>2. JobTells'
    BY <1>1, <1>2, <1>12, <2>1, JobStays
  <2>3. Built'
    BY <1>1, <1>2, <1>12, <2>1 DEF Built, Loads
  <2>4. TableToBuild'
    BY <1>1, <1>2, <1>12, <2>1 DEF TableToBuild, SumTells, Past, Of, Versions, Loads
  <2> QED
    BY <2>2, <2>3, <2>4
<1> QED
  BY <1>1, <1>6, <1>7, <1>8, <1>9, <1>10, <1>11, <1>12

-----------------------------------------------------------------------------
(* Packs *)

LEMMA PackTellsStays ==
    ASSUME UNCHANGED << content, torn, edits >>
    PROVE  \A r, t : PackTells(r, t)' <=> PackTells(r, t)
  BY TellsStays DEF PackTells, Loads, Past, Of

\* A pack keeps the syllables of its dictionary, until that is built of other versions.
LEMMA PacksTellStep ==
    ASSUME Clock, Control, SumsTell, Compiles, PacksTell, DeployNext
    PROVE  PacksTell'
<1>d. \A s \in Schemas : \A p \in Range(PacksOf[s]) :
        /\ p \in Tables /\ p \notin Dicts /\ DictOf[s] \in Dicts /\ DictOf[s] \in Tables
  BY PackFacts, DictFacts
<1>r. ASSUME NEW files, NEW names, NEW name, NEW file, NEW n \in names
      PROVE  Replaced(files, names, name, file)[n] = IF n = name THEN file ELSE files[n]
  BY DEF Replaced
<1>s. \A s \in Schemas : \A p \in Range(PacksOf[s]) : Loads(tables[p]) =>
        /\ tables[p].sum[1] \in DictSums(DictOf[s])
        /\ gap \/ PackTells(tables[p], tables[DictOf[s]])
  BY DEF PacksTell
\* Packs and dictionaries that are replaced
<1>t. ASSUME UNCHANGED << content, torn, edits >>, gap => gap',
             \A s \in Schemas : \A p \in Range(PacksOf[s]) : Loads(tables'[p]) =>
               \/ /\ tables'[p] = tables[p]
                  /\ gap' \/ (PackTells(tables[p], tables[DictOf[s]])
                                => PackTells(tables[p], tables'[DictOf[s]]))
               \/ /\ tables'[p].sum[1] \in DictSums(DictOf[s])
                  /\ gap' \/ PackTells(tables'[p], tables'[DictOf[s]])
      PROVE  PacksTell'
  <2>1. ASSUME NEW s \in Schemas, NEW p \in Range(PacksOf[s]), Loads(tables[p])'
        PROVE  /\ (tables[p].sum[1] \in DictSums(DictOf[s]))'
               /\ (gap \/ PackTells(tables[p], tables[DictOf[s]]))'
    <3>1. PICK r, t : r = tables'[p] /\ t = tables'[DictOf[s]]
      OBVIOUS
    <3>2. Loads(r)
      BY <2>1, <3>1 DEF Loads
    <3>3. /\ r.sum[1] \in DictSums(DictOf[s])
          /\ gap' \/ PackTells(r, t)
      BY <1>s, <1>t, <3>1, <3>2
    <3>4. gap' \/ PackTells(r, t)'
      BY <1>t, <3>3, PackTellsStays
    <3>5. gap' \/ PackTells(tables[p], tables[DictOf[s]])'
      BY <3>1, <3>4 DEF PackTells, Loads, Past, Of
    <3>6. (tables[p].sum[1] \in DictSums(DictOf[s]))'
      BY <1>t, <3>1, <3>3 DEF DictSums, Numbers
    <3> QED
      BY <3>5, <3>6
  <2> QED
    BY <2>1 DEF PacksTell
<1>1. CASE Edit
  <2>1. UNCHANGED << tables, gap >>
    BY <1>1 DEF Edit, EditSource, RemoveSource, builtVars
  <2>2. ASSUME NEW s \in Schemas, NEW p \in Range(PacksOf[s]), Loads(tables[p])'
        PROVE  /\ (tables[p].sum[1] \in DictSums(DictOf[s]))'
               /\ (gap \/ PackTells(tables[p], tables[DictOf[s]]))'
    <3>1. PICK r, t, sum, vs : r = tables[p] /\ t = tables[DictOf[s]] /\ sum = r.sum[1] /\ vs = sum[2]
      OBVIOUS
    <3>2. /\ sum \in DictSums(DictOf[s])
          /\ gap \/ PackTells(r, t)
      BY <1>s, <2>1, <2>2, <3>1 DEF Loads
    <3>3. vs \in [ DictFiles[DictOf[s]] -> Numbers ]
      BY <1>d, <3>1, <3>2, DictSumFacts
    <3>4. sum \in DictSums(DictOf[s])'
      BY <1>1, <1>d, <3>2, DictSumsOn
    <3>5. PICK made : made = r.syllabary
      OBVIOUS
    <3>6. (Of(made, vs) => Of(made, vs)') /\ (Past(vs) => Past(vs)')
      BY <1>1, <1>d, <3>3, SumTellsOn
    <3>7. gap' \/ PackTells(r, t)'
      BY <2>1, <3>1, <3>2, <3>5, <3>6 DEF PackTells, Loads, Past, Of
    <3>8. gap' \/ PackTells(tables[p], tables[DictOf[s]])'
      BY <2>1, <3>1, <3>7 DEF PackTells, Loads, Past, Of
    <3> QED
      BY <2>1, <3>1, <3>2, <3>4, <3>8 DEF DictSums
  <2> QED
    BY <2>2 DEF PacksTell
<1>2. CASE BuildTable
  <2>1. /\ Compiling /\ UNCHANGED << content, torn, edits, gap >>
        /\ \/ \E made :
                /\ made = IF job.files = {} THEN <<>> ELSE Versions(job.files)
                /\ tables' = Replaced(tables, Tables, Dict, Table(job.sum, made, made))
           \/ tables' = Replaced(tables, Tables, Dict, Unwritten)
    BY <1>2, BuildTableDoes
  <2>2. JobTells
    BY <2>1 DEF Compiles
  <2>3. PICK file :
          /\ tables' = Replaced(tables, Tables, Dict, file)
          /\ Loads(file) => file.made = IF job.files = {} THEN <<>> ELSE Versions(job.files)
    <3>1. \A sum, made : Table(sum, made, made).made = made
      BY DEF Table
    <3> QED
      BY <2>1, <3>1, UnwrittenTells
  <2>4. ASSUME NEW d \in Dicts, NEW r, r.sum[1] \in DictSums(d), PackTells(r, tables[d])
        PROVE  PackTells(r, tables'[d])
    <3>1. CASE d # Dict
      BY <1>r, <2>3, <2>4, <3>1, DictFacts
    <3>2. CASE d = Dict
      <4>1. tables'[d] = file
        BY <1>r, <2>3, <3>2, DictFacts
      <4>2. PICK vs : vs = r.sum[1][2] /\ vs \in [ DictFiles[d] -> Numbers ]
        BY <2>4, DictFacts, DictSumFacts
      <4>3. Past(vs) /\ Loads(file) => file.made # vs
        <5>1. SUFFICES ASSUME Past(vs), Loads(file) PROVE file.made # vs
          OBVIOUS
        <5>2. PICK f \in DictFiles[d] : vs[f] # content[f]
          BY <4>2, <5>1 DEF Past
        <5>3. CASE job.files = {}
          <6>1. file.made = <<>>
            BY <2>3, <5>1, <5>3
          <6>2. DOMAIN vs # {} /\ DOMAIN << >> = {}
            BY <4>2, <5>2
          <6> QED
            BY <6>1, <6>2
        <5>4. CASE job.files # {}
          <6>1. file.made = Versions(DictFiles[d])
            BY <2>2, <2>3, <3>2, <5>1, <5>4 DEF JobTells
          <6> QED
            BY <5>2, <6>1 DEF Versions
        <5> QED
          BY <5>3, <5>4
      <4> QED
        BY <2>4, <4>1, <4>2, <4>3 DEF PackTells
    <3> QED
      BY <3>1, <3>2
  <2>5. \A s \in Schemas : \A p \in Range(PacksOf[s]) : tables'[p] = tables[p]
    BY <1>d, <1>r, <2>2, <2>3 DEF JobTells
  <2> QED
    BY <1>d, <1>s, <1>t, <2>1, <2>4, <2>5
<1>3. CASE BuildPack
  <2>1. /\ Compiling /\ UNCHANGED << content, torn, edits >>
        /\ job.pack <= Len(PacksOf[Schema])
        /\ \/ gap' /\ UNCHANGED tables
           \/ /\ UNCHANGED gap
              /\ \/ UNCHANGED tables
                 \/ tables' = Replaced(tables, Tables, Pack,
                              Table(PackChecksum(Pack), Versions(DictFiles[Pack]), job.syllabary))
                 \/ tables' = Replaced(tables, Tables, Pack, Unwritten)
    BY <1>3, BuildPackDoes
  <2>2. JobTells /\ Built /\ update.at = "pack"
    BY <1>3, <2>1 DEF Compiles, BuildPack
  <2>3. /\ Schema \in Schemas /\ Pack \in Range(PacksOf[Schema]) /\ Pack \in Tables /\ Pack \notin Dicts
    BY <2>1, <2>2, PackIsNext
  <2>4. CASE UNCHANGED tables
    BY <1>t, <2>1, <2>4
  <2>5. CASE UNCHANGED gap /\ tables' = Replaced(tables, Tables, Pack, Unwritten)
    <3>1. \A n \in Tables : tables'[n] = IF n = Pack THEN Unwritten ELSE tables[n]
      BY <1>r, <2>5
    <3> QED
      BY <1>d, <1>t, <2>1, <2>3, <2>5, <3>1, UnwrittenTells
  <2>6. CASE /\ UNCHANGED gap
             /\ tables' = Replaced(tables, Tables, Pack,
                              Table(PackChecksum(Pack), Versions(DictFiles[Pack]), job.syllabary))
    <3>1. PICK file : file = Table(PackChecksum(Pack), Versions(DictFiles[Pack]), job.syllabary)
      OBVIOUS
    <3>2. \A n \in Tables : tables'[n] = IF n = Pack THEN file ELSE tables[n]
      BY <1>r, <2>6, <3>1
    <3>3. file.sum[1] = job.sum /\ file.syllabary = job.syllabary
      BY <3>1 DEF Table, PackChecksum, DictFileChecksum
    <3>4. gap \/ PackTells(file, tables[Dict])
      <4>1. SUFFICES ASSUME ~gap PROVE PackTells(file, tables[Dict])
        OBVIOUS
      <4>2. Dict \in Dicts /\ Dict \in Tables
        BY <2>2, DictFacts DEF JobTells
      <4>3. /\ Loads(tables[Dict]) /\ tables[Dict].sum = job.sum
            /\ job.syllabary = tables[Dict].syllabary
        BY <2>2, <4>1 DEF Built
      <4>4. /\ tables[Dict].syllabary = tables[Dict].made
            /\ SumTells(tables[Dict].made, job.sum[2])
        BY <4>2, <4>3 DEF SumsTell, TableTells
      <4>5. job.sum[2] \in [ DictFiles[Dict] -> Numbers ]
        BY <2>2, <4>2, DictSumFacts DEF JobTells
      <4>6. Of(job.sum[2], job.sum[2])
        BY <4>5 DEF Of, Numbers, Clock
      <4> QED
        BY <3>3, <4>3, <4>4, <4>6 DEF PackTells, SumTells
    <3>5. \A s \in Schemas : Pack \in Range(PacksOf[s]) => DictOf[s] = Dict
      BY <2>3, PackFacts DEF Dict
    <3>6. job.sum \in DictSums(Dict) /\ Dict \in Dicts /\ Dict \in Tables
      BY <2>2, DictFacts DEF JobTells
    <3>7. tables'[Dict] = tables[Dict]
      BY <2>3, <3>2, <3>6
    <3>8. ASSUME NEW s \in Schemas, NEW p \in Range(PacksOf[s]), p = Pack
          PROVE  /\ tables'[p].sum[1] \in DictSums(DictOf[s])
                 /\ gap' \/ PackTells(tables'[p], tables'[DictOf[s]])
      BY <2>3, <2>6, <3>2, <3>3, <3>4, <3>5, <3>6, <3>7, <3>8
    <3>9. \A s \in Schemas : \A p \in Range(PacksOf[s]) : p # Pack =>
            tables'[p] = tables[p] /\ tables'[DictOf[s]] = tables[DictOf[s]]
      BY <1>d, <2>3, <3>2
    <3> QED
      BY <1>t, <2>1, <2>6, <3>8, <3>9
  <2> QED
    BY <2>1, <2>4, <2>5, <2>6
<1>4. CASE Crash
  <2>1. /\ UNCHANGED << content, torn, edits, gap >>
        /\ UNCHANGED tables \/ \E name : tables' = Replaced(tables, Tables, name, Unwritten)
    BY <1>4, CrashDoes
  <2>2. \A n \in Tables : tables'[n] \in { tables[n], Unwritten }
    BY <1>r, <2>1
  <2>3. \A r, t : PackTells(r, t) => PackTells(r, Unwritten)
    BY UnwrittenTells DEF PackTells
  <2>4. \A s \in Schemas : \A p \in Range(PacksOf[s]) :
          /\ tables'[p] \in { tables[p], Unwritten }
          /\ PackTells(tables[p], tables[DictOf[s]]) => PackTells(tables[p], tables'[DictOf[s]])
    BY <1>d, <2>2, <2>3
  <2> QED
    BY <1>t, <2>1, <2>4, UnwrittenTells
<1>5. CASE ~Edit /\ ~(BuildTable \/ BuildPack \/ Crash)
  <2>1. UNCHANGED << content, torn, edits, tables, gap >>
    <3>1. CASE BuildReverseDb \/ BuildPrism
      BY <3>1, BuildReverseDbDoes, BuildPrismDoes
    <3>2. CASE ~(BuildReverseDb \/ BuildPrism)
      BY <1>5, <3>2, Unedited, BuiltStays
    <3> QED
      BY <3>1, <3>2
  <2> QED
    BY <1>t, <2>1
<1> QED
  BY <1>1, <1>2, <1>3, <1>4, <1>5

-----------------------------------------------------------------------------
(* What an update has done *)

\* An update that goes on well and is not overtaken by an edit
GoesOn == update.ok' /\ overtaken' = {} /\ ~(\E full_check \in BOOLEAN : StartUpdate(full_check))

\* Nothing that the update depends on changes while it goes on.
LEMMA UpdateGoesOn ==
    ASSUME Control, DeployNext, GoesOn
    PROVE  /\ update.ok /\ overtaken = {} /\ ~Edit /\ ~Crash
           /\ UNCHANGED << content, mtime, torn, edits >>
           /\ (gap => gap') /\ (update.silent => update'.silent)
<1>1. ~Edit
  BY DEF GoesOn, Edit, EditSource, RemoveSource, Note
<1>2. ~Crash
  BY DEF GoesOn, Crash
<1>3. UNCHANGED << content, mtime, torn, edits >>
  BY <1>1, Unedited
<1>4. overtaken = {}
  BY <1>1, <1>2 DEF GoesOn, DeployNext, Edit, LinkConfig, ReadSchemaList, UpdateSchema, FinishUpdate,
       EndUpdate, Decide, BuildTable, BuildReverseDb, BuildPrism, BuildPack, DictIsReady, Tick, noteVars
<1>5. gap => gap'
  BY <1>1, <1>2 DEF GoesOn, DeployNext, Edit, LinkConfig, ReadSchemaList, UpdateSchema, FinishUpdate,
       Decide, BuildTable, BuildReverseDb, BuildPrism, BuildPack, DictIsReady, Tick
<1>6. \/ \E at : Goto(at) \/ Silently(at)
      \/ \E ok : NextSchema(ok)
      \/ EndUpdate(FALSE) \/ EndUpdate(update.ok)
      \/ UNCHANGED update
      \/ update' = [ update EXCEPT !.at = "schema", !.n = 1 ]
  BY <1>1, <1>2 DEF GoesOn, DeployNext, Edit, LinkConfig, ReadSchemaList, UpdateSchema, ConfigFileUpdate,
       FinishUpdate, Decide, BuildTable, BuildReverseDb, BuildPrism, BuildPack, DictIsReady, Tick
<1>7. update' = [ update EXCEPT !.at = "schema", !.n = 1 ] =>
        update'.ok = update.ok /\ update'.silent = update.silent
  BY DEF Control
<1>8. update.ok /\ (update.silent => update'.silent)
  BY <1>6, <1>7, UpdateFields DEF GoesOn
<1> QED
  BY <1>1, <1>2, <1>3, <1>4, <1>5, <1>8

\* What the update has finished with changes with its schema.
LEMMA DoneStays ==
    ASSUME update.at # "idle", update'.at # "idle", UNCHANGED update.n
    PROVE  Done' = Done
  BY DEF Done

\* Each schema is updated once.
LEMMA DoneNext ==
    ASSUME Control, update.at \notin { "idle", "list" }, update.n \in 1 .. Len(SchemaOrder)
    PROVE  /\ Schema \notin Done
           /\ update'.at = "schema" /\ update'.n = update.n + 1 => Done' = Done \cup {Schema}
<1>1. Len(SchemaOrder) \in Nat
  BY OrderFacts
<1>2. Schema \notin Done
  BY <1>1, OrderFacts DEF Done, Schema
<1>3. ASSUME update'.at = "schema", update'.n = update.n + 1
      PROVE  Done' = Done \cup {Schema}
  <2>1. 1 .. Len(SchemaOrder) \cap 1 .. (update'.n - 1) =
          (1 .. Len(SchemaOrder) \cap 1 .. (update.n - 1)) \cup { update.n }
    BY <1>1, <1>3
  <2> QED
    BY <1>3, <2>1 DEF Done, Schema
<1> QED
  BY <1>2, <1>3

\* A configuration that is kept agrees still.
LEMMA StampsAgreeStays ==
    ASSUME UNCHANGED << content, mtime >>, NEW c, compiled'[c] = compiled[c], StampsAgree(c)
    PROVE  StampsAgree(c)'
  BY DEF StampsAgree, Stamp, Exists

\* So do the files of a schema's dictionary that are kept.
LEMMA SumsAgreeStays ==
    ASSUME UNCHANGED content, NEW s, compiled'[s] = compiled[s],
           Whole(s) /\ DictOf[s] # NoDict /\ Exists(TableFile[DictOf[s]]) =>
             /\ tables'[DictOf[s]] = tables[DictOf[s]] /\ reverse'[DictOf[s]] = reverse[DictOf[s]]
             /\ prisms'[s] = prisms[s],
           SumsAgree(s)
    PROVE  SumsAgree(s)'
  BY DEF SumsAgree, DictFileChecksum, Versions, Exists, Loads, Whole

\* And its packs, when they and the dictionary are kept, or they are built anew.
LEMMA PacksAgreeStays ==
    ASSUME NEW s, compiled'[s] = compiled[s],
           Whole(s) => tables'[DictOf[s]] = tables[DictOf[s]],
           \A p \in Range(PacksOf[s]) :
             tables'[p] = tables[p] \/ (Whole(s) => PackAgrees(p, DictOf[s])'),
           PacksAgree(s)
    PROVE  PacksAgree(s)'
  BY DEF PacksAgree, PackAgrees, Loads, Whole

\* Nothing is built.
LEMMA DoneAgreeStays ==
    ASSUME UNCHANGED << content, mtime >>, gap => gap', update.silent => update'.silent,
           \A s \in Done' : SchemaAgrees(s) /\ compiled'[s] = compiled[s],
           UNCHANGED << tables, reverse, prisms >>
    PROVE  DoneAgree'
<1> SUFFICES ASSUME NEW s \in Done'
             PROVE  /\ SumsAgree(s)'
                    /\ gap' \/ PacksAgree(s)'
                    /\ update'.silent \/ StampsAgree(s)'
  BY DEF DoneAgree, SchemaAgrees
<1>1. SumsAgree(s)'
  BY SumsAgreeStays DEF SchemaAgrees
<1>2. PacksAgree(s) => PacksAgree(s)'
  BY PacksAgreeStays
<1>3. StampsAgree(s) => StampsAgree(s)'
  BY StampsAgreeStays
<1> QED
  BY <1>1, <1>2, <1>3 DEF SchemaAgrees

\* The steps between what the compiler of a dictionary does
LEMMA ConfigProgress ==
    ASSUME Clock, Control, StampsTell, Linking, Progress, DeployNext, GoesOn,
           LinkConfig \/ ReadSchemaList \/ UpdateSchema \/ FinishUpdate \/ Tick
    PROVE  (DoneAgree /\ ConfigsAgree /\ JobAgrees /\ PacksBuilt)'
<1>1. /\ update.ok /\ overtaken = {} /\ UNCHANGED << content, mtime >>
      /\ (gap => gap') /\ (update.silent => update'.silent)
  BY UpdateGoesOn
<1>2. DoneAgree /\ ConfigsAgree /\ JobAgrees /\ PacksBuilt
  BY <1>1 DEF Progress
<1>3. UNCHANGED << tables, reverse, prisms, gap >>
  BY DEF LinkConfig, ReadSchemaList, UpdateSchema, FinishUpdate, Tick, builtVars
<1>4. ~LinkConfig => UNCHANGED compiled
  BY UpdateGoesOn, CompiledStays
<1>5. CASE LinkConfig
  <2>1. PICK c \in Configs : c = job.of /\ update.at = "link"
    BY <1>5, ConfigWritten DEF StampsTell
  <2>2. /\ c = IF update.n = 0 THEN "default" ELSE Schema
        /\ job.after = IF update.n = 0 THEN "list" ELSE "decide"
    BY <2>1 DEF Linking
  <2>3. update'.at = job.after /\ update'.n = update.n
    BY <1>5, UpdateFields DEF LinkConfig
  <2>w. PICK config \in Unfinished \cup {Linked(ConfigSources[c], TRUE), compiled[c]} :
          /\ compiled' = [ e \in Configs |-> IF e = c THEN config ELSE compiled[e] ]
          /\ config = Linked(ConfigSources[c], TRUE) \/ Silently(job.after)
    <3>1. compiled = [ e \in Configs |-> compiled[e] ]
      BY DEF StampsTell
    <3>2. PICK config \in Unfinished \cup {Linked(ConfigSources[job.of], TRUE), compiled[job.of]} :
            /\ compiled' = [ e \in Configs |-> IF e = job.of THEN config ELSE compiled[e] ]
            /\ config = Linked(ConfigSources[job.of], TRUE) \/ Silently(job.after)
      BY <1>5, <3>1, ConfigWritten
    <3> QED
      BY <2>1, <3>2
  <2>4. \A e \in Configs : e # c => compiled'[e] = compiled[e]
    BY <2>w
  <2>5. Schema' = Schema /\ Done' = Done
    BY <2>1, <2>2, <2>3, DoneStays DEF Schema
  <2>6. update'.silent \/ StampsAgree(c)'
    <3>1. CASE Silently(job.after)
      BY <3>1, UpdateFields
    <3>2. CASE config = Linked(ConfigSources[c], TRUE)
      <4>1. compiled'[c] = config
        BY <2>w
      <4>2. config # Absent
        <5>1. /\ config.made = job.read /\ config.stamps = Stamps(ConfigSources[c])
              /\ config = [ made |-> job.read, stamps |-> Stamps(ConfigSources[c]), whole |-> TRUE ]
          BY <3>2 DEF Linked
        <5>2. job.read \in [ ConfigSources[c] -> Nat ] /\ ConfigSources[c] \subseteq Sources
          BY <2>1, ConfigFacts DEF Linking
        <5>3. Stamps(ConfigSources[c]) \in [ ConfigSources[c] -> Nat ]
          <6>1. \A f \in ConfigSources[c] : Stamp(f) \in Nat
            BY <5>2 DEF Stamp, Clock
          <6> QED
            BY <6>1 DEF Stamps
        <5>4. config \in ConfigRecord(c)
          <6>1. Stamps(ConfigSources[c]) \in UNION { [ files -> Nat ] : files \in SUBSET ConfigSources[c] }
            BY <5>3
          <6>2. \A made \in [ ConfigSources[c] -> Nat ],
                  stamps \in UNION { [ files -> Nat ] : files \in SUBSET ConfigSources[c] } :
                  [ made |-> made, stamps |-> stamps, whole |-> TRUE ] \in ConfigRecord(c)
            BY DEF ConfigRecord
          <6> QED
            BY <5>1, <5>2, <6>1, <6>2
        <5> QED
          BY <5>4, ConfigFacts
      <4>3. \A f \in DOMAIN config.stamps : config.stamps[f] = Stamp(f)
        BY <3>2 DEF Linked, Stamps
      <4>4. \A f : Stamp(f)' = Stamp(f)
        BY <1>1 DEF Stamp, Exists
      <4> QED
        BY <4>1, <4>2, <4>3, <4>4 DEF StampsAgree
    <3> QED
      BY <2>w, <3>1, <3>2
  <2>7. \A s \in Done : s # c /\ s \in Schemas
    <3>1. Done = {} \/ update.n # 0
      BY <2>1, OrderFacts DEF Done
    <3>2. Done \subseteq Schemas
      BY OrderFacts DEF Done
    <3>3. update.n # 0 => update.n \in 1 .. Len(SchemaOrder)
      BY <2>1, SchemaFacts
    <3> QED
      BY <2>1, <2>2, <3>1, <3>2, <3>3, DoneNext
  <2>8. DoneAgree'
    BY <1>1, <1>2, <1>3, <2>4, <2>5, <2>7, ConfigFacts, DoneAgreeStays DEF DoneAgree
  <2>9. ConfigsAgree'
    <3>1. CASE update.n = 0
      BY <2>2, <2>3, <2>6, <3>1 DEF ConfigsAgree, Compiling
    <3>2. CASE update.n # 0
      <4>1. "default" \in Configs /\ "default" # c
        BY <2>1, <2>2, <3>2, ConfigFacts, SchemaFacts
      <4>2. update.silent \/ StampsAgree("default")
        BY <1>2, <3>2 DEF ConfigsAgree
      <4>3. update'.silent \/ StampsAgree("default")'
        BY <1>1, <2>4, <4>1, <4>2, StampsAgreeStays
      <4>4. update'.silent \/ StampsAgree(Schema)'
        BY <2>2, <2>5, <2>6, <3>2 DEF StampsAgree, Stamp, Exists
      <4> QED
        BY <4>3, <4>4 DEF ConfigsAgree
    <3> QED
      BY <3>1, <3>2
  <2> QED
    BY <2>2, <2>3, <2>8, <2>9 DEF JobAgrees, PacksBuilt, Compiling
\* Of the others, those that go on to the next schema have not built the last one.
<1>6. ASSUME UNCHANGED compiled, update'.at \notin { "table", "reverse", "prism", "pack" },
             \A s \in Done' : SchemaAgrees(s),
             update'.silent \/ StampsAgree("default") \/ (update'.at = "link" /\ update'.n = 0),
             update'.at = "decide" => update'.silent \/ (Schema' = Schema /\ StampsAgree(Schema))
      PROVE  (DoneAgree /\ ConfigsAgree /\ JobAgrees /\ PacksBuilt)'
  <2>1. DoneAgree'
    BY <1>1, <1>3, <1>6, DoneAgreeStays
  <2>2. ConfigsAgree'
    <3>1. \A c : StampsAgree(c) => StampsAgree(c)'
      BY <1>1, <1>6, StampsAgreeStays
    <3>2. update'.at = "decide" => update'.silent \/ StampsAgree(Schema)'
      BY <1>1, <1>6 DEF StampsAgree, Stamp, Exists
    <3> QED
      BY <1>6, <3>1, <3>2 DEF ConfigsAgree, Compiling
  <2> QED
    BY <1>6, <2>1, <2>2 DEF JobAgrees, PacksBuilt, Compiling
<1>7. CASE ReadSchemaList
  <2>1. ~EndUpdate(FALSE)
    BY UpdateFields DEF GoesOn
  <2>2. update' = [ update EXCEPT !.at = "schema", !.n = 1 ] /\ update.at = "list"
    BY <1>7, <2>1 DEF ReadSchemaList
  <2>3. update'.at = "schema" /\ update'.n = 1 /\ update'.silent = update.silent
    BY <2>2 DEF Control
  <2>4. Done' = {}
    BY <2>3, OrderFacts DEF Done
  <2>5. UNCHANGED compiled
    BY <1>4, <1>7 DEF ReadSchemaList, LinkConfig
  <2> QED
    BY <1>2, <1>6, <2>2, <2>3, <2>4, <2>5 DEF ConfigsAgree
<1>8. CASE UpdateSchema
  <2>1. ~NextSchema(FALSE) /\ update.at = "schema"
    BY <1>8, UpdateFields DEF GoesOn, UpdateSchema
  <2>2. Goto("link") \/ (Goto("decide") /\ ~ConfigNeedsUpdate(Schema))
    BY <1>8, <2>1 DEF UpdateSchema, ConfigFileUpdate
  <2>3. update'.at \in { "link", "decide" } /\ update'.n = update.n /\ update'.silent = update.silent
    BY <2>2, UpdateFields
  <2>4. Done' = Done /\ Schema' = Schema
    BY <2>1, <2>3, DoneStays DEF Schema
  <2>5. UNCHANGED compiled
    BY <1>8 DEF UpdateSchema, builtVars
  <2>6. update.silent \/ StampsAgree("default")
    BY <1>2, <2>1 DEF ConfigsAgree
  <2>7. update'.at = "decide" => StampsAgree(Schema)
    BY <2>2, UpdateFields DEF ConfigNeedsUpdate, StampsAgree
  <2>8. \A s \in Done' : SchemaAgrees(s)
    BY <1>2, <2>4 DEF DoneAgree
  <2> QED
    BY <1>6, <2>3, <2>4, <2>5, <2>6, <2>7, <2>8
<1>9. CASE FinishUpdate
  <2>1. /\ update'.at = "idle" /\ update'.silent = update.silent /\ update.at = "schema"
        /\ update.n > Len(SchemaOrder) \/ Cut("default")
        /\ UNCHANGED compiled
    BY <1>9, UpdateFields DEF FinishUpdate, builtVars
  <2>2. Done' \subseteq Done
    <3>1. CASE Cut("default")
      <4>1. Done' = {}
        BY <2>1, <3>1 DEF Done, Cut
      <4> QED
        BY <4>1
    <3>2. CASE ~Cut("default")
      <4>1. update.n = Len(SchemaOrder) + 1 /\ Len(SchemaOrder) \in Nat
        BY <2>1, <3>2, OrderFacts DEF Control
      <4>2. 1 .. Len(SchemaOrder) \cap 1 .. (update.n - 1) = 1 .. Len(SchemaOrder)
        BY <4>1
      <4>3. Done = { SchemaOrder[i] : i \in 1 .. Len(SchemaOrder) }
        BY <2>1, <4>2 DEF Done
      <4>4. { SchemaOrder[i] : i \in 1 .. Len(SchemaOrder) } = Schemas
        BY OrderFacts
      <4>5. Done' \subseteq Schemas
        BY <2>1 DEF Done
      <4> QED
        BY <4>3, <4>4, <4>5
    <3> QED
      BY <3>1, <3>2
  <2>3. update.silent \/ StampsAgree("default")
    BY <1>2, <2>1 DEF ConfigsAgree
  <2> QED
    BY <1>2, <1>6, <2>1, <2>2, <2>3 DEF DoneAgree
<1>10. CASE Tick
  <2>1. UNCHANGED << compiled, update, job, gap >>
    BY <1>10 DEF Tick, builtVars
  <2>2. Done' = Done /\ Schema' = Schema /\ Dict' = Dict
    BY <2>1 DEF Done, Cut, Schema, Dict
  <2>3. DoneAgree'
    BY <1>1, <1>2, <1>3, <2>1, <2>2, DoneAgreeStays DEF DoneAgree
  <2>4. ConfigsAgree'
    BY <1>1, <1>2, <2>1, <2>2 DEF ConfigsAgree, Compiling, StampsAgree, Stamp, Exists
  <2>5. JobAgrees'
    BY <1>1, <1>2, <2>1, <2>2 DEF JobAgrees, Compiling, DictFileChecksum, Versions, Exists, Whole
  <2>6. PacksBuilt'
    BY <1>2, <1>3, <2>1, <2>2 DEF PacksBuilt, PackAgrees, Loads
  <2> QED
    BY <2>3, <2>4, <2>5, <2>6
<1> QED
  BY <1>5, <1>7, <1>8, <1>9, <1>10

\* The compiler of a dictionary
LEMMA DictProgress ==
    ASSUME Clock, Control, Linking, SumsTell, Compiles, Progress, DeployNext, GoesOn,
           Decide \/ BuildTable \/ BuildReverseDb \/ BuildPrism \/ BuildPack \/ DictIsReady
    PROVE  (DoneAgree /\ ConfigsAgree /\ JobAgrees /\ PacksBuilt)'
<1>1. /\ update.ok /\ overtaken = {} /\ UNCHANGED << content, mtime >>
      /\ (gap => gap') /\ (update.silent => update'.silent)
  BY UpdateGoesOn
<1>2. DoneAgree /\ ConfigsAgree /\ JobAgrees /\ PacksBuilt
  BY <1>1 DEF Progress
<1>3. ~NextSchema(FALSE)
  BY UpdateFields DEF GoesOn
<1>4. /\ Schema \in Schemas /\ update.n \in 1 .. Len(SchemaOrder) /\ Schema \notin Done
      /\ Done \subseteq Schemas /\ update.at \in { "decide", "table", "reverse", "prism", "pack" }
  <2>1. update.at \in { "decide", "table", "reverse", "prism", "pack" }
    BY DEF Decide, BuildTable, BuildReverseDb, BuildPrism, BuildPack, DictIsReady
  <2>2. Schema \in Schemas /\ update.n \in 1 .. Len(SchemaOrder)
    BY <2>1, SchemaFacts
  <2>3. Schema \notin Done
    BY <2>1, <2>2, DoneNext
  <2>4. Done \subseteq Schemas
    BY OrderFacts DEF Done
  <2> QED
    BY <2>1, <2>2, <2>3, <2>4
<1>5. UNCHANGED compiled
  BY UpdateGoesOn, CompiledStays DEF Decide, BuildTable, BuildReverseDb, BuildPrism, BuildPack, DictIsReady, LinkConfig
<1>6. /\ update.silent \/ StampsAgree("default")
      /\ update.silent \/ StampsAgree(Schema)
  BY <1>2, <1>4 DEF ConfigsAgree, Compiling
<1>7. \A s \in Done : SchemaAgrees(s)
  BY <1>2 DEF DoneAgree
\* The schema has been updated.
<1>8. ASSUME NextSchema(TRUE), UNCHANGED << tables, reverse, prisms >>,
             SumsAgree(Schema), gap \/ PacksAgree(Schema)
      PROVE  (DoneAgree /\ ConfigsAgree /\ JobAgrees /\ PacksBuilt)'
  <2>1. update'.at = "schema" /\ Done' = Done \cup {Schema}
    BY <1>4, <1>8, DoneNext, UpdateFields
  <2>2. DoneAgree'
    BY <1>1, <1>5, <1>6, <1>7, <1>8, <2>1, DoneAgreeStays DEF SchemaAgrees
  <2>3. ConfigsAgree'
    BY <1>1, <1>5, <1>6, <2>1, StampsAgreeStays DEF ConfigsAgree, Compiling
  <2> QED
    BY <2>1, <2>2, <2>3 DEF JobAgrees, PacksBuilt, Compiling
\* Or the compiler goes on.
<1>9. ASSUME Compiling'
      PROVE  /\ Done' = Done /\ Schema' = Schema /\ Dict' = Dict /\ ConfigsAgree'
  <2>1. Schema' = Schema /\ Dict' = Dict
    BY <1>9, CompilingFrom
  <2>2. \/ \E ok : NextSchema(ok)
        \/ \E at : Goto(at) \/ Silently(at)
        \/ UNCHANGED update
    BY DEF Decide, BuildTable, BuildReverseDb, BuildPrism, BuildPack, DictIsReady
  <2>3. update'.n = update.n
    BY <1>9, <2>2, UpdateFields DEF Compiling
  <2>4. Done' = Done
    BY <1>4, <1>9, <2>3, DoneStays DEF Compiling
  <2>5. (StampsAgree("default") => StampsAgree("default")') /\ (StampsAgree(Schema) => StampsAgree(Schema)')
    BY <1>1, <1>5, <2>1 DEF StampsAgree, Stamp, Exists
  <2> QED
    BY <1>1, <1>6, <2>1, <2>4, <2>5 DEF ConfigsAgree
<1>10. ASSUME NEW s \in Done, SumsAgree(s)', gap' \/ PacksAgree(s)'
       PROVE  SchemaAgrees(s)'
  <2>1. StampsAgree(s) => StampsAgree(s)'
    BY <1>1, <1>5, StampsAgreeStays
  <2> QED
    BY <1>1, <1>7, <1>10, <2>1 DEF SchemaAgrees
<1>11. CASE Decide
  <2>1. UNCHANGED << tables, reverse, prisms, gap >>
    BY <1>11 DEF Decide, builtVars
  <2>2. CASE Compiling'
    <3>1. /\ Dict \in Dicts
          /\ \E sum, files, syllabary :
                /\ \/ Exists(TableFile[Dict]) /\ sum = DictFileChecksum(Dict, 0)
                   \/ ~Exists(TableFile[Dict]) /\ files = {}
                /\ job' = DecidedJob(sum, files, syllabary)
                /\ Goto(IF NeedsTable(Dict, sum) THEN "table" ELSE "prism")
      BY <1>11, <2>2, DecideDoes
    <3>2. PICK sum, files, syllabary :
                /\ \/ Exists(TableFile[Dict]) /\ sum = DictFileChecksum(Dict, 0)
                   \/ ~Exists(TableFile[Dict]) /\ files = {}
                /\ job' = DecidedJob(sum, files, syllabary)
                /\ Goto(IF NeedsTable(Dict, sum) THEN "table" ELSE "prism")
      BY <3>1
    <3>3. job'.sum = sum /\ job'.files = files
      BY <3>2 DEF DecidedJob
    <3>4. update'.at = IF NeedsTable(Dict, sum) THEN "table" ELSE "prism"
      BY <3>2, UpdateFields
    <3>5. ASSUME Exists(TableFile[Dict]), update'.at = "table", NEW s \in Done, DictOf[s] = Dict
          PROVE  ~Whole(s)
      <4>1. NeedsTable(Dict, DictFileChecksum(Dict, 0))
        BY <3>2, <3>4, <3>5
      <4>2. Dict # NoDict /\ SumsAgree(s)
        BY <1>7, <3>1, DictFacts DEF SchemaAgrees
      <4> QED
        BY <3>5, <4>1, <4>2 DEF SumsAgree, NeedsTable
    <3>6. DoneAgree'
      BY <1>1, <1>5, <1>7, <1>9, <2>1, <2>2, DoneAgreeStays
    <3>7. JobAgrees'
      BY <1>1, <1>5, <1>9, <2>2, <3>2, <3>3, <3>4, <3>5
        DEF JobAgrees, DictFileChecksum, Versions, Exists, Whole
    <3>8. PacksBuilt'
      BY <3>4 DEF PacksBuilt
    <3> QED
      BY <1>9, <2>2, <3>6, <3>7, <3>8
  <2>3. CASE ~Compiling'
    <3>1. /\ ~Whole(Schema) \/ Dict = NoDict
          /\ NextSchema(TRUE)
      BY <1>3, <1>11, <2>3, UpdateFields DEF Decide, Compiling
    <3>2. SumsAgree(Schema)
      BY <3>1 DEF SumsAgree, Dict
    <3>3. PacksAgree(Schema)
      BY <1>4, <3>1, PackFacts, DictFacts DEF PacksAgree, Dict
    <3> QED
      BY <1>8, <2>1, <3>1, <3>2, <3>3
  <2> QED
    BY <2>2, <2>3
<1>12. ASSUME ~Decide, Compiling
       PROVE  /\ JobTells /\ TableToBuild /\ Built /\ Dict \in Dicts /\ Dict \in Tables /\ Dict # NoDict
              /\ Dict = DictOf[Schema]
  BY <1>12, DictFacts DEF Compiles, JobTells, Dict
<1>r. ASSUME NEW files, NEW names, NEW name, NEW file, NEW n \in names
      PROVE  Replaced(files, names, name, file)[n] = IF n = name THEN file ELSE files[n]
  BY DEF Replaced
<1>d. \A s \in Schemas :
        /\ DictOf[s] # NoDict => DictOf[s] \in Dicts /\ DictOf[s] \in Tables
        /\ \A p \in Range(PacksOf[s]) :
             p \in Tables /\ p \notin Dicts /\ DictOf[s] \in Dicts /\ DictOf[s] \in Tables
  BY PackFacts, DictFacts
\* The others that have the dictionary are out of the way when it is built anew.
<1>13. ASSUME ~Decide, Compiling, update.at \in { "table", "reverse" }, NEW s \in Done, DictOf[s] = Dict
       PROVE  ~Whole(s) \/ ~Exists(TableFile[Dict])
  BY <1>2, <1>13 DEF JobAgrees
<1>14. CASE BuildTable /\ ~Decide
  <2>1. Compiling /\ UNCHANGED << reverse, prisms, gap >> /\ update.at = "table"
    BY <1>14, BuildTableDoes DEF BuildTable
  <2>2. PICK made :
          /\ tables' = Replaced(tables, Tables, Dict, Table(job.sum, made, made))
          /\ job' = DictJob(job.sum, job.files, made, job.pack)
          /\ Goto("reverse")
    BY <1>3, <1>14, BuildTableDoes
  <2>3. update'.at = "reverse" /\ Compiling' /\ job'.sum = job.sum /\ job'.files = job.files
    BY <2>2, UpdateFields DEF Compiling, DictJob
  <2>4. PICK file : file = Table(job.sum, made, made)
    OBVIOUS
  <2>5. Loads(file) /\ file.sum = job.sum
    BY <2>4 DEF Loads, Table
  <2>6. \A n \in Tables : tables'[n] = IF n = Dict THEN file ELSE tables[n]
    BY <1>r, <2>2, <2>4
  <2>7. ASSUME NEW s \in Done PROVE SumsAgree(s)' /\ (gap' \/ PacksAgree(s)')
    <3>1. SumsAgree(s)'
      BY <1>1, <1>4, <1>5, <1>7, <1>d, <1>13, <1>14, <2>1, <2>6, SumsAgreeStays DEF SchemaAgrees
    <3>2. ASSUME PacksAgree(s) PROVE PacksAgree(s)'
      <4>1. \A p \in Range(PacksOf[s]) : tables'[p] = tables[p]
        BY <1>4, <1>12, <1>14, <1>d, <2>1, <2>6
      <4>2. CASE DictOf[s] # Dict \/ ~Whole(s)
        <5>1. CASE ~Whole(s)
          BY <1>5, <5>1 DEF PacksAgree, Whole
        <5>2. CASE Range(PacksOf[s]) = {}
          BY <5>2 DEF PacksAgree
        <5>3. CASE Whole(s) /\ Range(PacksOf[s]) # {}
          BY <1>4, <1>5, <1>d, <2>6, <3>2, <4>1, <4>2, <5>3, PacksAgreeStays
        <5> QED
          BY <5>1, <5>2, <5>3
      <4>3. CASE DictOf[s] = Dict /\ Whole(s)
        <5>1. ~Exists(TableFile[Dict])
          BY <1>13, <1>14, <2>1, <4>3
        <5>2. Loads(tables[Dict]) /\ tables[Dict].sum = job.sum
          BY <1>2, <1>12, <1>14, <2>1, <5>1 DEF JobAgrees, TableToBuild
        <5>3. tables'[Dict] = file
          BY <1>12, <1>14, <2>1, <2>6
        <5> QED
          BY <1>5, <2>5, <3>2, <4>1, <4>3, <5>2, <5>3 DEF PacksAgree, PackAgrees, Loads, Whole
      <4> QED
        BY <4>2, <4>3
    <3>3. gap \/ PacksAgree(s)
      BY <1>7 DEF SchemaAgrees
    <3> QED
      BY <1>1, <3>1, <3>2, <3>3
  <2>8. DoneAgree'
    BY <1>9, <1>10, <2>3, <2>7 DEF DoneAgree
  <2>9. JobAgrees'
    BY <1>1, <1>2, <1>5, <1>9, <2>1, <2>3 DEF JobAgrees, DictFileChecksum, Versions, Exists, Whole
  <2> QED
    BY <1>9, <2>3, <2>8, <2>9 DEF PacksBuilt
<1>15. CASE BuildReverseDb /\ ~Decide
  <2>1. Compiling /\ UNCHANGED << tables, prisms, gap >> /\ update.at = "reverse"
    BY <1>15, BuildReverseDbDoes DEF BuildReverseDb
  <2>2. PICK file : reverse' = Replaced(reverse, Dicts, Dict, file) /\ Goto("prism") /\ UNCHANGED job
    BY <1>3, <1>15, BuildReverseDbDoes
  <2>3. update'.at = "prism" /\ Compiling'
    BY <2>2, UpdateFields DEF Compiling
  <2>4. \A n \in Dicts : n # Dict => reverse'[n] = reverse[n]
    BY <1>r, <2>2
  <2>5. ASSUME NEW s \in Done PROVE SumsAgree(s)' /\ (gap' \/ PacksAgree(s)')
    <3>1. SumsAgree(s)'
      BY <1>1, <1>4, <1>5, <1>7, <1>d, <1>13, <1>15, <2>1, <2>4, SumsAgreeStays DEF SchemaAgrees
    <3>2. PacksAgree(s) => PacksAgree(s)'
      BY <1>5, <2>1, PacksAgreeStays
    <3> QED
      BY <1>1, <1>7, <3>1, <3>2 DEF SchemaAgrees
  <2>6. DoneAgree'
    BY <1>9, <1>10, <2>3, <2>5 DEF DoneAgree
  <2>7. JobAgrees'
    BY <1>1, <1>2, <1>5, <1>9, <2>1, <2>2, <2>3 DEF JobAgrees, DictFileChecksum, Versions, Exists, Whole
  <2> QED
    BY <1>9, <2>3, <2>6, <2>7 DEF PacksBuilt
<1>16. CASE BuildPrism /\ ~Decide
  <2>1. Compiling /\ UNCHANGED << tables, reverse, gap >> /\ update.at = "prism"
    BY <1>16, BuildPrismDoes DEF BuildPrism
  <2>2. /\ UNCHANGED prisms \/ \E file : prisms' = Replaced(prisms, Schemas, Schema, file)
        /\ Goto("pack") /\ UNCHANGED job
    BY <1>3, <1>16, BuildPrismDoes
  <2>3. update'.at = "pack" /\ Compiling'
    BY <2>2, UpdateFields DEF Compiling
  <2>4. \A s \in Done : prisms'[s] = prisms[s]
    BY <1>4, <1>r, <2>2
  <2>5. ASSUME NEW s \in Done PROVE SumsAgree(s)' /\ (gap' \/ PacksAgree(s)')
    <3>1. SumsAgree(s)'
      BY <1>1, <1>5, <1>7, <2>1, <2>4, SumsAgreeStays DEF SchemaAgrees
    <3>2. PacksAgree(s) => PacksAgree(s)'
      BY <1>5, <2>1, PacksAgreeStays
    <3> QED
      BY <1>1, <1>7, <3>1, <3>2 DEF SchemaAgrees
  <2>6. DoneAgree'
    BY <1>9, <1>10, <2>3, <2>5 DEF DoneAgree
  <2>7. JobAgrees'
    BY <1>1, <1>2, <1>9, <2>1, <2>2, <2>3 DEF JobAgrees, DictFileChecksum, Versions, Exists, Whole
  <2>8. PacksBuilt'
    <3>1. job'.pack = 1
      BY <1>12, <1>16, <2>1, <2>2 DEF Built
    <3>2. \A k \in DOMAIN PacksOf[Schema] : ~(k < 1)
      BY <1>4, PackFacts
    <3> QED
      BY <1>9, <2>3, <3>1, <3>2 DEF PacksBuilt
  <2> QED
    BY <1>9, <2>3, <2>6, <2>7, <2>8
<1>17. CASE BuildPack /\ ~Decide
  <2>1. /\ Compiling /\ UNCHANGED << reverse, prisms >> /\ update.at = "pack"
        /\ job.pack <= Len(PacksOf[Schema])
        /\ \/ gap' /\ UNCHANGED tables
           \/ ~NeedsPack(Pack) /\ UNCHANGED tables
           \/ tables' = Replaced(tables, Tables, Pack,
                         Table(PackChecksum(Pack), Versions(DictFiles[Pack]), job.syllabary))
           \/ tables' = Replaced(tables, Tables, Pack, Unwritten)
        /\ UNCHANGED update \/ Silently("pack")
        /\ \E syllabary : job' = DictJob(job.sum, job.files, syllabary, job.pack + 1)
    BY <1>17, BuildPackDoes DEF BuildPack
  <2>2. /\ update'.at = "pack" /\ Compiling'
        /\ job'.sum = job.sum /\ job'.files = job.files /\ job'.pack = job.pack + 1
    BY <2>1, UpdateFields DEF Compiling, DictJob
  <2>3. JobTells /\ Built /\ Dict \in Dicts /\ Dict \in Tables
    BY <1>12, <1>17, <2>1
  <2>4. Pack \in Range(PacksOf[Schema]) /\ Pack \in Tables /\ Pack \notin Dicts
    BY <2>1, <2>3, PackIsNext
  <2>5. \A n \in Tables : n # Pack => tables'[n] = tables[n]
    BY <1>r, <2>1
  <2>6. Loads(tables[Dict]) /\ tables[Dict].sum = job.sum /\ tables'[Dict] = tables[Dict]
    BY <2>1, <2>3, <2>4, <2>5 DEF Built
  <2>p. PICK p, d : p = Pack /\ d = Dict
    OBVIOUS
  <2>7. gap' \/ PackAgrees(p, d)'
    <3>1. PICK file : file = Table(PackChecksum(Pack), Versions(DictFiles[Pack]), job.syllabary)
      OBVIOUS
    <3>2. file.sum[1] = job.sum
      BY <3>1 DEF Table, PackChecksum, DictFileChecksum
    <3>3. tables'[p].sum[1] = job.sum \/ ~Loads(tables'[p]) \/ gap'
      <4>1. CASE ~NeedsPack(Pack) /\ UNCHANGED tables
        BY <2>p, <4>1 DEF NeedsPack, PackChecksum, DictFileChecksum
      <4>2. CASE tables' = Replaced(tables, Tables, Pack, file)
        BY <1>r, <2>4, <2>p, <3>2, <4>2
      <4>3. CASE tables' = Replaced(tables, Tables, Pack, Unwritten)
        BY <1>r, <2>4, <2>p, <4>3, UnwrittenTells
      <4> QED
        BY <2>1, <2>p, <3>1, <4>1, <4>2, <4>3
    <3> QED
      BY <2>6, <2>p, <3>3 DEF PackAgrees, Loads
  <2>8. ASSUME NEW q \in Tables, q # p, PackAgrees(q, d) PROVE PackAgrees(q, d)'
    BY <2>5, <2>6, <2>8, <2>p DEF PackAgrees, Loads
  <2>9. ASSUME NEW s \in Done PROVE SumsAgree(s)' /\ (gap' \/ PacksAgree(s)')
    <3>1. SumsAgree(s)'
      BY <1>1, <1>4, <1>5, <1>7, <1>d, <2>1, <2>4, <2>5, SumsAgreeStays DEF SchemaAgrees
    <3>2. gap' \/ \A q \in Range(PacksOf[s]) : q = p => PackAgrees(q, DictOf[s])'
      <4>1. CASE p \notin Range(PacksOf[s])
        BY <4>1
      <4>2. CASE p \in Range(PacksOf[s])
        <5>1. DictOf[s] = d
          BY <1>4, <2>4, <2>p, <4>2, PackFacts DEF Dict
        <5> QED
          BY <2>7, <5>1 DEF PackAgrees, Loads
      <4> QED
        BY <4>1, <4>2
    <3>3. \A q \in Range(PacksOf[s]) : q # p => tables'[q] = tables[q]
      BY <1>4, <1>d, <2>5, <2>p
    <3>4. Range(PacksOf[s]) # {} => tables'[DictOf[s]] = tables[DictOf[s]]
      BY <1>4, <1>d, <2>4, <2>5
    <3>5. gap \/ PacksAgree(s)
      BY <1>7 DEF SchemaAgrees
    <3>6. gap' \/ PacksAgree(s)'
      BY <1>1, <1>5, <3>2, <3>3, <3>4, <3>5 DEF PacksAgree, PackAgrees, Loads, Whole
    <3> QED
      BY <3>1, <3>6
  <2>10. DoneAgree'
    BY <1>9, <1>10, <2>2, <2>9 DEF DoneAgree
  <2>11. JobAgrees'
    BY <1>1, <1>2, <1>9, <2>1, <2>2 DEF JobAgrees, DictFileChecksum, Versions, Exists, Whole
  <2>q. PICK ps : ps = PacksOf[Schema]
    OBVIOUS
  <2>12. gap' \/ \A k \in DOMAIN ps : k < job.pack + 1 => PackAgrees(ps[k], d)'
    <3>1. ASSUME ~gap', NEW k \in DOMAIN ps, k < job.pack + 1
          PROVE  PackAgrees(ps[k], d)'
      <4>1. PICK q : q = ps[k]
        OBVIOUS
      <4>2. q \in Tables /\ k \in Nat /\ job.pack \in Nat
        BY <1>4, <1>d, <2>3, <2>q, <3>1, <4>1, PackFacts DEF JobTells
      <4>3. CASE q = p
        BY <2>7, <3>1, <4>1, <4>3 DEF PackAgrees, Loads
      <4>4. CASE q # p
        <5>1. k # job.pack
          BY <2>p, <2>q, <4>1, <4>4 DEF Pack
        <5>2. PackAgrees(ps[k], d)
          BY <1>1, <1>2, <2>1, <2>p, <2>q, <3>1, <4>2, <5>1 DEF PacksBuilt
        <5>3. PackAgrees(q, d)'
          BY <2>8, <4>1, <4>2, <4>4, <5>2
        <5> QED
          BY <4>1, <5>3 DEF PackAgrees, Loads
      <4> QED
        BY <4>3, <4>4
    <3> QED
      BY <3>1
  <2>13. PacksBuilt'
    BY <1>9, <2>2, <2>p, <2>q, <2>12 DEF PacksBuilt, PackAgrees, Loads
  <2> QED
    BY <1>9, <2>2, <2>10, <2>11, <2>13
<1>18. CASE DictIsReady /\ ~Decide
  <2>1. /\ update.at = "pack" /\ (job.pack > Len(PacksOf[Schema]) \/ Cut(Schema)) /\ NextSchema(TRUE)
        /\ UNCHANGED << tables, reverse, prisms >> /\ Compiling
    BY <1>18 DEF DictIsReady, builtVars, Compiling
  <2>2. JobTells /\ Built /\ Dict = DictOf[Schema] /\ Dict # NoDict
    BY <1>12, <1>18, <2>1
  <2>3. SumsAgree(Schema)
    BY <1>2, <2>1, <2>2 DEF SumsAgree, Built, JobTells, JobAgrees
  <2>4. gap \/ PacksAgree(Schema)
    <3>0. ~Whole(Schema) => PacksAgree(Schema)
      BY DEF PacksAgree
    <3>1. Whole(Schema) => \A k \in DOMAIN PacksOf[Schema] : k < job.pack
      BY <1>4, <2>1, <2>2, PackFacts DEF JobTells, Whole, Cut
    <3>2. \A q \in Range(PacksOf[Schema]) : \E k \in DOMAIN PacksOf[Schema] : q = PacksOf[Schema][k]
      BY DEF Range
    <3> QED
      BY <1>2, <2>1, <2>2, <3>0, <3>1, <3>2 DEF PacksBuilt, PacksAgree
  <2> QED
    BY <1>8, <2>1, <2>3, <2>4
<1> QED
  BY <1>11, <1>14, <1>15, <1>16, <1>17, <1>18

\* What the update has finished with agrees with the sources.
LEMMA ProgressStep ==
    ASSUME Clock, Control, StampsTell, Linking, SumsTell, Compiles, Progress, DeployNext
    PROVE  Progress'
<1>1. CASE \E full_check \in BOOLEAN : StartUpdate(full_check)
  <2>1. /\ UNCHANGED << content, mtime, compiled >> /\ update'.n = 0
        /\ \/ update'.at = "link"
           \/ update'.at = "list" /\ ~ConfigNeedsUpdate("default")
    BY <1>1 DEF StartUpdate, sourceVars, builtVars
  <2>2. Done' = {}
    BY <2>1, OrderFacts DEF Done
  <2>3. update'.at = "list" => StampsAgree("default")'
    BY <2>1 DEF ConfigNeedsUpdate, StampsAgree, Stamp, Exists
  <2> QED
    BY <2>1, <2>2, <2>3 DEF Progress, DoneAgree, ConfigsAgree, JobAgrees, PacksBuilt, Compiling
<1>2. CASE GoesOn
  <2>1. ~Edit /\ ~Crash
    BY <1>2, UpdateGoesOn
  <2>2. CASE LinkConfig \/ ReadSchemaList \/ UpdateSchema \/ FinishUpdate \/ Tick
    BY <1>2, <2>2, ConfigProgress DEF Progress
  <2>3. CASE Decide \/ BuildTable \/ BuildReverseDb \/ BuildPrism \/ BuildPack \/ DictIsReady
    BY <1>2, <2>3, DictProgress DEF Progress
  <2> QED
    BY <1>2, <2>1, <2>2, <2>3 DEF DeployNext, Edit, GoesOn
<1>3. CASE ~(update'.ok /\ overtaken' = {})
  BY <1>3 DEF Progress
<1> QED
  BY <1>1, <1>2, <1>3 DEF GoesOn

-----------------------------------------------------------------------------
(* When there is nothing to be done *)

LEMMA QuietWas ==
    ASSUME Clock, Control, Linking, DeployNext, QuietNow', ~FinishUpdate
    PROVE  /\ QuietNow /\ ~Edit
           /\ UNCHANGED << content, mtime >> /\ ~EndUpdate(FALSE)
<1>1. ASSUME NEW file \in Sources, EditSource(file) \/ RemoveSource(file) PROVE FALSE
  <2>1. ~Updating /\ now > last_build_time /\ file \in Watched
    <3>1. overtaken' # {} /\ UNCHANGED update
      BY <1>1 DEF EditSource, RemoveSource, Note
    <3>2. ~Updating
      BY <3>1 DEF QuietNow, Updating
    <3>3. missed' = {}
      BY DEF QuietNow
    <3>4. ~(now <= last_build_time) /\ file \in Watched
      BY <1>1, <3>2, <3>3 DEF EditSource, RemoveSource, Note
    <3> QED
      BY <3>2, <3>4 DEF Clock
  <2>2. last_build_time' = last_build_time
    BY <1>1 DEF EditSource, RemoveSource
  <2>3. CASE EditSource(file)
    <3>1. content'[file] # 0 /\ mtime'[file] = now
      BY <2>3 DEF EditSource, Clock
    <3>2. file \in Watched /\ Exists(file)' /\ mtime'[file] > last_build_time'
      BY <2>1, <2>2, <3>1 DEF Exists
    <3> QED
      BY <3>2 DEF QuietNow, DetectModifications, Exists
  <2>4. CASE RemoveSource(file)
    BY <2>1, <2>2, <2>4 DEF RemoveSource, QuietNow, DetectModifications
  <2> QED
    BY <1>1, <2>3, <2>4
<1>2. ~Edit
  BY <1>1 DEF Edit
<1>3. UNCHANGED << content, mtime, dir_mtime >>
  BY <1>2, Unedited
<1>4. ~EndUpdate(FALSE)
  BY DEF EndUpdate, QuietNow
<1>5. UNCHANGED last_build_time
  BY <1>2 DEF DeployNext, Edit, StartUpdate, LinkConfig, ReadSchemaList, UpdateSchema, Decide,
       BuildTable, BuildReverseDb, BuildPrism, BuildPack, DictIsReady, Tick, Crash
<1>6. DetectModifications' <=> DetectModifications
  BY <1>3, <1>5 DEF DetectModifications, Exists
<1>7. sound /\ missed = {} /\ (Updating => overtaken = {})
  <2>1. ASSUME NEW full_check, StartUpdate(full_check)
        PROVE  UNCHANGED << sound, missed >> /\ ~Updating
    BY <2>1 DEF StartUpdate
  <2>2. CASE Crash
    BY <2>2 DEF Crash, QuietNow
  <2>3. CASE ~(\E full_check \in BOOLEAN : StartUpdate(full_check)) /\ ~Crash
    <3>1. UNCHANGED << sound, missed, overtaken >>
      BY <1>2, <1>4, <2>3 DEF DeployNext, Edit, LinkConfig, ReadSchemaList, UpdateSchema, Decide,
           BuildTable, BuildReverseDb, BuildPrism, BuildPack, DictIsReady, Tick, noteVars
    <3>2. Updating => Updating'
      <4>1. \/ \E at : at # "idle" /\ (Goto(at) \/ Silently(at))
            \/ \E ok : NextSchema(ok)
            \/ update' = [ update EXCEPT !.at = "schema", !.n = 1 ]
            \/ UNCHANGED update
        <5>1. CASE LinkConfig
          <6>1. job.after # "idle"
            BY <5>1 DEF Linking, LinkConfig
          <6> QED
            BY <5>1, <6>1 DEF LinkConfig
        <5>2. CASE ~LinkConfig
          BY <1>2, <1>4, <2>3, <5>2 DEF DeployNext, Edit, ReadSchemaList, UpdateSchema,
               ConfigFileUpdate, Decide, BuildTable, BuildReverseDb, BuildPrism, BuildPack,
               DictIsReady, Tick
        <5> QED
          BY <5>1, <5>2
      <4>2. update' = [ update EXCEPT !.at = "schema", !.n = 1 ] => update'.at = "schema"
        BY DEF Control
      <4> QED
        BY <4>1, <4>2, UpdateFields DEF Updating
    <3> QED
      BY <3>1, <3>2 DEF QuietNow
  <2> QED
    BY <2>1, <2>2, <2>3 DEF QuietNow
<1> QED
  BY <1>2, <1>3, <1>4, <1>6, <1>7 DEF QuietNow

\* When there is nothing to be done it remains so, but for edits, which are detected.
LEMMA QuietStep ==
    ASSUME Clock, Control, StampsTell, Linking, SumsTell, Compiles, Progress, Quiet, DeployNext
    PROVE  Quiet'
<1> SUFFICES ASSUME QuietNow' PROVE NothingToDo'
  BY DEF Quiet
<1>1. CASE FinishUpdate
  <2>1. /\ update'.at = "idle" /\ UNCHANGED overtaken
        /\ sound' = (update'.ok /\ ~update'.silent) /\ missed' = overtaken
    BY <1>1, UpdateFields DEF FinishUpdate, EndUpdate
  <2>2. update'.ok /\ ~update'.silent /\ overtaken' = {}
    BY <2>1 DEF QuietNow
  <2>3. (DoneAgree /\ ConfigsAgree)'
    BY <2>2, ProgressStep DEF Progress
  <2>4. StampsAgree("default")'
    BY <2>1, <2>2, <2>3 DEF ConfigsAgree
  <2>5. ASSUME ~Cut("default")', NEW s \in Schemas PROVE StampsAgree(s)' /\ SumsAgree(s)'
    <3>1. s \in Done'
      BY <2>1, <2>5 DEF Done
    <3> QED
      BY <2>2, <2>3, <3>1 DEF DoneAgree, SchemaAgrees
  <2> QED
    BY <2>1, <2>4, <2>5 DEF NothingToDo
<1>2. ASSUME ~FinishUpdate
      PROVE  NothingToDo /\ UNCHANGED << content, mtime >> /\ ~EndUpdate(FALSE) /\ ~Edit
  BY <1>2, QuietWas DEF Quiet
\* Without the whole list schemas may be written, but not the list.
<1>l. ASSUME ~FinishUpdate
      PROVE  /\ compiled'["default"] = compiled["default"]
             /\ ~Cut("default") => ~LinkConfig /\ UNCHANGED compiled
  <2>1. CASE LinkConfig \/ ~UNCHANGED compiled
    <3>1. /\ update.at = "link"
          /\ \E config : compiled' = [ c \in Configs |-> IF c = job.of THEN config ELSE compiled[c] ]
      BY <2>1, ConfigWritten DEF StampsTell
    <3>2. update.n # 0 /\ Cut("default")
      BY <1>2, <1>l, <3>1 DEF NothingToDo
    <3>3. job.of \in Schemas
      BY <3>1, <3>2, SchemaFacts DEF Linking
    <3>4. job.of # "default"
      BY <3>3, ConfigFacts
    <3> QED
      BY <3>1, <3>2, <3>4, ConfigFacts
  <2>2. CASE ~LinkConfig /\ UNCHANGED compiled
    BY <2>2
  <2> QED
    BY <2>1, <2>2
<1>m. ASSUME ~FinishUpdate
      PROVE  StampsAgree("default")' /\ (Cut("default")' <=> Cut("default"))
  <2>1. StampsAgree("default")'
    BY <1>2, <1>l, <1>m, StampsAgreeStays DEF NothingToDo
  <2> QED
    BY <1>l, <1>m, <2>1 DEF Cut
<1>3. ASSUME ~FinishUpdate, Cut("default")
      PROVE  NothingToDo'
  <2>1. ASSUME update'.at = "link" PROVE update'.n # 0
    <3>1. ASSUME NEW full_check, StartUpdate(full_check) PROVE FALSE
      <4>1. ~ConfigNeedsUpdate("default")
        BY <1>2, <1>3 DEF NothingToDo, StampsAgree, ConfigNeedsUpdate
      <4> QED
        BY <2>1, <3>1, <4>1 DEF StartUpdate
    <3>2. CASE LinkConfig
      <4>1. update'.at = job.after /\ update.at = "link"
        BY <3>2, UpdateFields DEF LinkConfig
      <4> QED
        BY <2>1, <4>1 DEF Linking
    <3>3. CASE UpdateSchema
      <4>1. update.n \in 1 .. Len(SchemaOrder)
        BY <3>3, SchemaFacts DEF UpdateSchema
      <4>2. NextSchema(FALSE) \/ Goto("link") \/ Goto("decide")
        BY <3>3 DEF UpdateSchema, ConfigFileUpdate
      <4>3. update'.n # 0
        <5>1. update'.n = update.n
          BY <2>1, <4>2, UpdateFields
        <5> QED
          BY <4>1, <5>1, OrderFacts
      <4> QED
        BY <4>3
    <3>4. CASE Tick
      BY <1>2, <1>3, <2>1, <3>4 DEF Tick, NothingToDo
    <3>5. CASE ReadSchemaList
      <4>1. update' = [ update EXCEPT !.at = "schema", !.n = 1 ]
        BY <1>2, <1>3, <3>5 DEF ReadSchemaList
      <4> QED
        BY <2>1, <4>1 DEF Control
    <3>6. CASE Crash
      BY <2>1, <3>6 DEF Crash
    <3>7. CASE Decide \/ BuildTable \/ BuildReverseDb \/ BuildPrism \/ BuildPack \/ DictIsReady
      <4>1. \/ \E ok : NextSchema(ok)
            \/ \E at \in { "table", "reverse", "prism", "pack" } : Goto(at) \/ Silently(at)
            \/ UNCHANGED update
        BY <3>7 DEF Decide, BuildTable, BuildReverseDb, BuildPrism, BuildPack, DictIsReady
      <4>2. update.at # "link"
        BY <3>7 DEF Decide, BuildTable, BuildReverseDb, BuildPrism, BuildPack, DictIsReady
      <4> QED
        BY <2>1, <4>1, <4>2, UpdateFields
    <3> QED
      BY <1>2, <1>3, <3>1, <3>2, <3>3, <3>4, <3>5, <3>6, <3>7 DEF DeployNext, Edit
  <2> QED
    BY <1>3, <1>m, <2>1 DEF NothingToDo
\* With it nothing is written that a whole configuration needs.
<1>4. ASSUME ~FinishUpdate, ~Cut("default"),
             \A s \in Schemas : Whole(s) /\ DictOf[s] # NoDict /\ Exists(TableFile[DictOf[s]]) =>
               /\ tables'[DictOf[s]] = tables[DictOf[s]] /\ reverse'[DictOf[s]] = reverse[DictOf[s]]
               /\ prisms'[s] = prisms[s],
             update'.at # "link",
             update'.at \in { "table", "reverse" } /\ Exists(TableFile[Dict])' =>
               \A s \in Schemas : DictOf[s] = Dict' => ~Whole(s),
             update'.at = "prism" /\ job'.prism => ~Exists(TableFile[Dict])' \/ ~Whole(Schema')
      PROVE  NothingToDo'
  <2>1. UNCHANGED compiled
    BY <1>4, <1>l
  <2>2. \A s \in Schemas : StampsAgree(s)'
    BY <1>2, <1>4, <2>1, StampsAgreeStays DEF NothingToDo
  <2>3. \A s \in Schemas : SumsAgree(s)'
    BY <1>2, <1>4, <2>1, SumsAgreeStays DEF NothingToDo
  <2>4. \A s : Whole(s)' <=> Whole(s)
    BY <2>1 DEF Whole
  <2>5. update'.at \in { "table", "reverse" } /\ Exists(TableFile[Dict])' =>
          \A s \in Schemas : DictOf[s] = Dict' => ~Whole(s)'
    BY <1>4, <2>4
  <2>6. update'.at = "prism" /\ job'.prism => ~Exists(TableFile[Dict])' \/ ~Whole(Schema)'
    BY <1>4, <2>1 DEF Whole
  <2> QED
    BY <1>4, <1>m, <2>2, <2>3, <2>5, <2>6 DEF NothingToDo
<1>r. ASSUME NEW files, NEW names, NEW name, NEW file, NEW n \in names
      PROVE  Replaced(files, names, name, file)[n] = IF n = name THEN file ELSE files[n]
  BY DEF Replaced
<1>d. \A d \in Dicts : d \in Tables
  BY DictFacts
<1>5. ASSUME NEW full_check, StartUpdate(full_check), ~FinishUpdate, ~Cut("default")
      PROVE  NothingToDo'
  <2>1. ~ConfigNeedsUpdate("default")
    BY <1>2, <1>5 DEF NothingToDo, StampsAgree, ConfigNeedsUpdate
  <2>2. update'.at = "list" /\ UNCHANGED << tables, reverse, prisms >>
    BY <1>5, <2>1 DEF StartUpdate, builtVars
  <2> QED
    BY <1>4, <1>5, <2>2
<1>6. ASSUME ReadSchemaList \/ DictIsReady, ~FinishUpdate, ~Cut("default") PROVE NothingToDo'
  <2>1. UNCHANGED << tables, reverse, prisms >>
    BY <1>6 DEF ReadSchemaList, DictIsReady, builtVars
  <2>2. update'.at = "schema"
    <3>1. \/ NextSchema(TRUE)
          \/ update' = [ update EXCEPT !.at = "schema", !.n = 1 ]
      BY <1>2, <1>6 DEF ReadSchemaList, DictIsReady
    <3>2. update' = [ update EXCEPT !.at = "schema", !.n = 1 ] => update'.at = "schema"
      BY DEF Control
    <3> QED
      BY <3>1, <3>2, UpdateFields
  <2> QED
    BY <1>4, <1>6, <2>1, <2>2
<1>7. ASSUME UpdateSchema, ~FinishUpdate, ~Cut("default") PROVE NothingToDo'
  <2>1. Schema \in Schemas /\ update.at = "schema"
    BY <1>7, SchemaFacts DEF UpdateSchema
  <2>2. ~ConfigNeedsUpdate(Schema)
    BY <1>2, <1>7, <2>1 DEF NothingToDo, StampsAgree, ConfigNeedsUpdate
  <2>3. NextSchema(FALSE) \/ Goto("decide")
    BY <1>7, <2>2 DEF UpdateSchema, ConfigFileUpdate
  <2>4. update'.at \in { "schema", "decide" } /\ UNCHANGED << tables, reverse, prisms >>
    BY <1>7, <2>3, UpdateFields DEF UpdateSchema, builtVars
  <2> QED
    BY <1>4, <1>7, <2>4
\* A dictionary that is to be built is not one of a whole configuration.
<1>8. ASSUME Decide, ~FinishUpdate, ~Cut("default") PROVE NothingToDo'
  <2>1. UNCHANGED << tables, reverse, prisms >>
    BY <1>8 DEF Decide, builtVars
  <2>2. CASE Compiling'
    <3>1. /\ Schema \in Schemas /\ compiled[Schema] # Absent /\ Dict \in Dicts /\ Dict # NoDict
          /\ \E sum, files, syllabary :
                /\ Exists(TableFile[Dict]) => sum = DictFileChecksum(Dict, 0)
                /\ job' = DecidedJob(sum, files, syllabary)
                /\ Goto(IF NeedsTable(Dict, sum) THEN "table" ELSE "prism")
      BY <1>8, <2>2, DecideDoes, DictFacts
    <3>2. PICK sum, files, syllabary :
                /\ Exists(TableFile[Dict]) => sum = DictFileChecksum(Dict, 0)
                /\ job' = DecidedJob(sum, files, syllabary)
                /\ Goto(IF NeedsTable(Dict, sum) THEN "table" ELSE "prism")
      BY <3>1
    <3>3. /\ update'.at = IF NeedsTable(Dict, sum) THEN "table" ELSE "prism"
          /\ job'.prism = NeedsPrism(sum, compiled[Schema]) /\ update'.n = update.n
      BY <3>2, UpdateFields DEF DecidedJob
    <3>4. ASSUME Exists(TableFile[Dict]), NEW s \in Schemas, DictOf[s] = Dict, Whole(s)
          PROVE  ~NeedsTable(Dict, sum) /\ (s = Schema => ~NeedsPrism(sum, compiled[Schema]))
      <4>1. SumsAgree(s)
        BY <1>2, <1>8 DEF NothingToDo
      <4> QED
        BY <3>1, <3>2, <3>4, <4>1 DEF SumsAgree, NeedsTable, NeedsPrism
    <3>5. Dict' = Dict /\ Schema' = Schema
      BY <3>3 DEF Dict, Schema
    <3>6. Exists(TableFile[Dict])' <=> Exists(TableFile[Dict])
      BY <1>2, <1>8, <3>5 DEF Exists
    <3>7. update'.at = "table" /\ Exists(TableFile[Dict])' =>
            \A s \in Schemas : DictOf[s] = Dict' => ~Whole(s)
      BY <3>3, <3>4, <3>5, <3>6
    <3>8. update'.at = "prism" /\ job'.prism => ~Exists(TableFile[Dict])' \/ ~Whole(Schema')
      <4>1. DictOf[Schema] = Dict
        BY DEF Dict
      <4> QED
        BY <3>1, <3>3, <3>4, <3>5, <3>6, <4>1
    <3> QED
      BY <1>4, <1>8, <2>1, <3>3, <3>7, <3>8
  <2>3. CASE ~Compiling'
    <3>1. update'.at = "schema"
      BY <1>8, <2>3, UpdateFields DEF Decide, Compiling
    <3> QED
      BY <1>4, <1>8, <2>1, <3>1
  <2> QED
    BY <2>2, <2>3
\* Where the compiler goes on
<1>9. ASSUME Compiling, ~FinishUpdate, UNCHANGED update.n
      PROVE  Dict' = Dict /\ Schema' = Schema /\ (Exists(TableFile[Dict])' <=> Exists(TableFile[Dict]))
  <2>1. Dict' = Dict /\ Schema' = Schema
    BY <1>9 DEF Dict, Schema
  <2> QED
    BY <1>2, <1>9, <2>1 DEF Exists
<1>10. ASSUME BuildTable, ~FinishUpdate, ~Cut("default") PROVE NothingToDo'
  <2>1. /\ update.at = "table" /\ UNCHANGED << reverse, prisms >> /\ Compiling
        /\ \E file : tables' = Replaced(tables, Tables, Dict, file)
        /\ Goto("reverse") \/ NextSchema(FALSE)
    BY <1>10, BuildTableDoes DEF BuildTable
  <2>2. Exists(TableFile[Dict]) => \A s \in Schemas : DictOf[s] = Dict => ~Whole(s)
    BY <1>2, <1>10, <2>1 DEF NothingToDo
  <2>3. \A s \in Schemas : Whole(s) /\ DictOf[s] # NoDict /\ Exists(TableFile[DictOf[s]]) =>
          tables'[DictOf[s]] = tables[DictOf[s]]
    BY <1>d, <1>r, <2>1, <2>2, DictFacts
  <2>4. update'.at = "schema" \/ (update'.at = "reverse" /\ UNCHANGED update.n)
    BY <2>1, UpdateFields
  <2>5. update'.at = "reverse" /\ Exists(TableFile[Dict])' =>
          \A s \in Schemas : DictOf[s] = Dict' => ~Whole(s)
    BY <1>9, <1>10, <2>1, <2>2, <2>4
  <2> QED
    BY <1>4, <1>10, <2>1, <2>3, <2>4, <2>5
<1>11. ASSUME BuildReverseDb, ~FinishUpdate, ~Cut("default") PROVE NothingToDo'
  <2>1. /\ update.at = "reverse" /\ UNCHANGED << tables, prisms >> /\ Compiling
        /\ \E file : reverse' = Replaced(reverse, Dicts, Dict, file)
        /\ Goto("prism") \/ NextSchema(FALSE)
    BY <1>11, BuildReverseDbDoes DEF BuildReverseDb
  <2>2. Exists(TableFile[Dict]) => \A s \in Schemas : DictOf[s] = Dict => ~Whole(s)
    BY <1>2, <1>11, <2>1 DEF NothingToDo
  <2>3. \A s \in Schemas : Whole(s) /\ DictOf[s] # NoDict /\ Exists(TableFile[DictOf[s]]) =>
          reverse'[DictOf[s]] = reverse[DictOf[s]]
    BY <1>r, <2>1, <2>2, DictFacts
  <2>4. update'.at = "schema" \/ (update'.at = "prism" /\ UNCHANGED update.n)
    BY <2>1, UpdateFields
  <2>5. update'.at = "prism" => ~Exists(TableFile[Dict])' \/ ~Whole(Schema')
    <3>1. Schema \in Schemas /\ DictOf[Schema] = Dict
      BY <2>1, SchemaFacts DEF Dict
    <3> QED
      BY <1>9, <1>11, <2>1, <2>2, <2>4, <3>1
  <2> QED
    BY <1>4, <1>11, <2>1, <2>3, <2>4, <2>5
<1>12. ASSUME BuildPrism, ~FinishUpdate, ~Cut("default") PROVE NothingToDo'
  <2>1. /\ update.at = "prism" /\ UNCHANGED << tables, reverse >>
        /\ \/ UNCHANGED prisms
           \/ job.prism /\ \E file : prisms' = Replaced(prisms, Schemas, Schema, file)
        /\ Goto("pack") \/ NextSchema(FALSE)
    BY <1>12, BuildPrismDoes DEF BuildPrism
  <2>2. job.prism => ~Exists(TableFile[Dict]) \/ ~Whole(Schema)
    BY <1>2, <1>12, <2>1 DEF NothingToDo
  <2>3. \A s \in Schemas : Whole(s) /\ DictOf[s] # NoDict /\ Exists(TableFile[DictOf[s]]) =>
          prisms'[s] = prisms[s]
    BY <1>r, <2>1, <2>2 DEF Dict
  <2>4. update'.at \in { "schema", "pack" }
    BY <2>1, UpdateFields
  <2> QED
    BY <1>4, <1>12, <2>1, <2>3, <2>4
<1>13. ASSUME BuildPack, ~FinishUpdate, ~Cut("default") PROVE NothingToDo'
  <2>1. /\ update.at = "pack" /\ UNCHANGED << reverse, prisms >> /\ Compiling
        /\ job.pack <= Len(PacksOf[Schema])
        /\ UNCHANGED tables \/ \E file : tables' = Replaced(tables, Tables, Pack, file)
        /\ UNCHANGED update \/ Silently("pack")
    BY <1>13, BuildPackDoes DEF BuildPack
  <2>2. Pack \notin Dicts
    BY <2>1, PackIsNext DEF Compiles
  <2>3. \A d \in Dicts : tables'[d] = tables[d]
    BY <1>d, <1>r, <2>1, <2>2
  <2>4. update'.at = "pack"
    BY <2>1, UpdateFields
  <2> QED
    BY <1>4, <1>13, <2>1, <2>3, <2>4, DictFacts
<1>14. ASSUME Tick, ~FinishUpdate, ~Cut("default") PROVE NothingToDo'
  <2>1. UNCHANGED << tables, reverse, prisms, update, job >>
    BY <1>14 DEF Tick, builtVars
  <2>2. Dict' = Dict /\ Schema' = Schema
    BY <2>1 DEF Dict, Schema
  <2>3. Exists(TableFile[Dict])' <=> Exists(TableFile[Dict])
    BY <1>2, <1>14, <2>2 DEF Exists
  <2>4. /\ update.at # "link"
        /\ update.at \in { "table", "reverse" } /\ Exists(TableFile[Dict]) =>
             \A s \in Schemas : DictOf[s] = Dict => ~Whole(s)
        /\ update.at = "prism" /\ job.prism => ~Exists(TableFile[Dict]) \/ ~Whole(Schema)
    BY <1>2, <1>14 DEF NothingToDo
  <2> QED
    BY <1>4, <1>14, <2>1, <2>2, <2>3, <2>4
<1>15. ASSUME Crash, ~FinishUpdate, ~Cut("default") PROVE NothingToDo'
  <2>1. /\ update'.at = "idle"
        /\ \/ UNCHANGED tables
           \/ update.at = "table" /\ tables' = Replaced(tables, Tables, Dict, Unwritten)
           \/ /\ update.at = "pack" /\ job.pack <= Len(PacksOf[Schema])
              /\ tables' = Replaced(tables, Tables, Pack, Unwritten)
        /\ \/ UNCHANGED reverse
           \/ update.at = "reverse" /\ reverse' = Replaced(reverse, Dicts, Dict, Unwritten)
        /\ \/ UNCHANGED prisms
           \/ /\ update.at = "prism" /\ job.prism
              /\ prisms' = Replaced(prisms, Schemas, Schema, Unwritten)
    BY <1>15, CrashDoes
  <2>2. /\ update.at \in { "table", "reverse" } /\ Exists(TableFile[Dict]) =>
             \A s \in Schemas : DictOf[s] = Dict => ~Whole(s)
        /\ update.at = "prism" /\ job.prism => ~Exists(TableFile[Dict]) \/ ~Whole(Schema)
    BY <1>2, <1>15 DEF NothingToDo
  <2>3. update.at = "pack" /\ job.pack <= Len(PacksOf[Schema]) => Pack \notin Dicts
    BY PackIsNext DEF Compiles, Compiling
  <2>4. ASSUME NEW s \in Schemas, Whole(s), DictOf[s] # NoDict, Exists(TableFile[DictOf[s]])
        PROVE  /\ tables'[DictOf[s]] = tables[DictOf[s]] /\ reverse'[DictOf[s]] = reverse[DictOf[s]]
               /\ prisms'[s] = prisms[s]
    <3>1. DictOf[s] \in Dicts /\ DictOf[s] \in Tables
      BY <2>4, DictFacts
    <3>2. tables'[DictOf[s]] = tables[DictOf[s]]
      BY <1>r, <2>1, <2>2, <2>3, <2>4, <3>1
    <3>3. reverse'[DictOf[s]] = reverse[DictOf[s]]
      BY <1>r, <2>1, <2>2, <2>4, <3>1
    <3>4. prisms'[s] = prisms[s]
      BY <1>r, <2>1, <2>2, <2>4 DEF Dict
    <3> QED
      BY <3>2, <3>3, <3>4
  <2> QED
    BY <1>4, <1>15, <2>1, <2>4
<1> QED
  BY <1>1, <1>2, <1>l, <1>3, <1>5, <1>6, <1>7, <1>8, <1>10, <1>11, <1>12, <1>13, <1>14, <1>15
    DEF DeployNext, Edit

-----------------------------------------------------------------------------
(* What a deployment achieves *)

LEMMA DeployStart ==
    ASSUME DeployInit
    PROVE  DeployInv
<1>1. Clock
  BY DEF DeployInit, Clock, Numbers
<1>2. Control
  BY DEF DeployInit, Control, Places
<1>3. StampsTell /\ Linking
  BY DEF DeployInit, StampsTell, Linking
<1>4. SumsTell
  <2>1. /\ tables = [ t \in Tables |-> Unwritten ] /\ reverse = [ d \in Dicts |-> Unwritten ]
        /\ prisms = [ s \in Schemas |-> Unwritten ]
    BY DEF DeployInit
  <2>2. \A d \in Dicts : TableTells(tables[d], d) /\ ReverseTells(reverse[d], d)
    BY <2>1, DictFacts, UnwrittenTells
  <2>3. \A s \in Schemas : PrismTells(prisms[s], s)
    BY <2>1, UnwrittenTells
  <2> QED
    BY <2>1, <2>2, <2>3 DEF SumsTell
<1>5. Compiles
  BY DEF DeployInit, Compiles, Compiling
<1>6. PacksTell
  <2>1. \A s \in Schemas : \A p \in Range(PacksOf[s]) : ~Loads(tables[p])
    BY PackFacts, UnwrittenTells DEF DeployInit
  <2> QED
    BY <2>1 DEF PacksTell
<1>7. Progress /\ Quiet
  BY DEF DeployInit, Progress, Quiet, QuietNow
<1> QED
  BY <1>1, <1>2, <1>3, <1>4, <1>5, <1>6, <1>7 DEF DeployInv

\* Every step keeps the invariant.
LEMMA DeployStep ==
    ASSUME DeployInv, [DeployNext]_deployVars
    PROVE  DeployInv'
<1>1. CASE DeployNext
  BY <1>1, ClockStep, ControlStep, StampsTellStep, LinkingStep, SumsTellStep, CompilesStep,
     PacksTellStep, ProgressStep, QuietStep DEF DeployInv
<1>2. CASE UNCHANGED deployVars
  <2>1. UNCHANGED << content, mtime, dir_mtime, now, compiled, tables, reverse, prisms,
                     last_build_time, update, job, edits, sound, unstamped, overtaken, missed,
                     torn, gap >>
    BY <1>2 DEF deployVars, sourceVars, builtVars, noteVars
  <2>2. (Clock /\ Control)' <=> (Clock /\ Control)
    BY <2>1 DEF Clock, Control, Numbers
  <2>3. (StampsTell /\ Linking)' <=> (StampsTell /\ Linking)
    BY <2>1 DEF StampsTell, StampTells, Linking, ConfigRecord, Schema, Exists
  <2>4. SumsTell' <=> SumsTell
    BY <2>1 DEF SumsTell, TableTells, ReverseTells, PrismTells, DictSums, Numbers, SumTells, Past, Of,
         Loads
  <2>5. Compiles' <=> Compiles
    BY <2>1 DEF Compiles, Compiling, JobTells, TableToBuild, Built, DictSums, Numbers, SumTells,
         Past, Of, Loads, Dict, Schema, Versions
  <2>6. PacksTell' <=> PacksTell
    BY <2>1 DEF PacksTell, PackTells, DictSums, Numbers, Past, Of, Loads
  <2>7. Progress' <=> Progress
    BY <2>1 DEF Progress, DoneAgree, Done, SchemaAgrees, SumsAgree, PacksAgree, PackAgrees,
         StampsAgree, ConfigsAgree, JobAgrees, PacksBuilt, Compiling, Dict, Schema, Exists, Loads,
         Versions, Stamp, DictFileChecksum, Cut, Whole
  <2>8. Quiet' <=> Quiet
    BY <2>1 DEF Quiet, QuietNow, NothingToDo, DetectModifications, Updating, SumsAgree, StampsAgree,
         Dict, Schema, Exists, Loads, Versions, Stamp, DictFileChecksum, Cut, Whole
  <2> QED
    BY <2>2, <2>3, <2>4, <2>5, <2>6, <2>7, <2>8 DEF DeployInv
<1> QED
  BY <1>1, <1>2

\* What agrees by its stamps and sums is made of what is there.
LEMMA AgreeingIsCurrent ==
    ASSUME DeployInv, unstamped = {}, TornAreThere,
           StampsAgree("default"),
           ~Cut("default") => \A s \in Schemas : StampsAgree(s) /\ SumsAgree(s)
    PROVE  IsCurrent
<1>1. Clock /\ StampsTell /\ SumsTell
  BY DEF DeployInv
<1>2. ASSUME NEW c \in Configs, StampsAgree(c), ~Cut(c) PROVE ConfigIsCurrent(c)
  <2>1. /\ compiled[c] # Absent /\ DOMAIN compiled[c].stamps = ConfigSources[c]
        /\ compiled[c] \in ConfigRecord(c) /\ Whole(c)
        /\ \A f \in ConfigSources[c] : StampTells(compiled[c].made[f], compiled[c].stamps[f], f)
    BY <1>1, <1>2 DEF StampsAgree, StampsTell, Cut, Whole
  <2>2. compiled[c].made \in [ ConfigSources[c] -> Nat ]
    BY <2>1 DEF ConfigRecord
  <2>3. ASSUME NEW f \in ConfigSources[c] PROVE compiled[c].made[f] = content[f]
    <3>1. compiled[c].stamps[f] = IF Exists(f) THEN mtime[f] ELSE 0
      BY <1>2, <2>1 DEF StampsAgree, Stamp
    <3> QED
      BY <2>1, <3>1 DEF StampTells, TornAreThere, Exists
  <2> QED
    BY <2>1, <2>2, <2>3 DEF ConfigIsCurrent, Versions
<1>3. ASSUME NEW s \in Schemas, Whole(s), SumsAgree(s) PROVE DictIsCurrent(s)
  <2> DEFINE d == DictOf[s]
  <2>1. SUFFICES ASSUME d # NoDict, Exists(TableFile[d]) PROVE DictIsCurrent(s)
    BY DEF DictIsCurrent
  <2>2. PICK vs : vs = Versions(DictFiles[d])
    OBVIOUS
  <2>3. d \in Dicts /\ DictFiles[d] \subseteq Sources
    BY <2>1, DictFacts
  <2>4. DOMAIN vs = DictFiles[d] /\ vs \in [ DictFiles[d] -> Nat ] /\ \A f \in DictFiles[d] : vs[f] = content[f]
    BY <1>1, <2>2, <2>3 DEF Versions, Clock
  <2>5. ASSUME NEW made, SumTells(made, vs) PROVE made = vs
    <3>1. Of(made, vs)
      BY <2>4, <2>5 DEF SumTells, Past
    <3>2. \A f \in DictFiles[d] : made[f] = vs[f]
      BY <2>4, <3>1 DEF Of, TornAreThere, Exists
    <3>3. made \in [ DictFiles[d] -> Nat ]
      BY <2>4, <3>1 DEF Of
    <3> QED
      BY <2>4, <3>2, <3>3
  <2>7. /\ Loads(tables[d]) /\ tables[d].sum = << 0, vs >>
        /\ Loads(reverse[d]) /\ reverse[d].sum = << 0, vs >>
        /\ Loads(prisms[s]) /\ prisms[s].sum = << 0, vs >> /\ prisms[s].schema_sum = compiled[s]
    BY <1>3, <2>1, <2>2 DEF SumsAgree, DictFileChecksum
  <2>8. tables[d].made = vs
    <3>1. TableTells(tables[d], d)
      BY <1>1, <2>3 DEF SumsTell
    <3>2. SumTells(tables[d].made, tables[d].sum[2]) /\ tables[d].sum[2] = vs
      BY <2>7, <3>1 DEF TableTells
    <3> QED
      BY <2>5, <3>2
  <2>9. reverse[d].made = vs
    BY <1>1, <2>3, <2>5, <2>7 DEF SumsTell, ReverseTells
  <2>10. prisms[s].made = << vs, compiled[s] >>
    <3>1. /\ prisms[s].made = << prisms[s].made[1], prisms[s].schema_sum >>
          /\ SumTells(prisms[s].made[1], prisms[s].sum[2])
      BY <1>1, <2>7 DEF SumsTell, PrismTells
    <3>2. prisms[s].made[1] = vs
      BY <2>5, <2>7, <3>1
    <3> QED
      BY <2>7, <3>1, <3>2
  <2> QED
    BY <2>2, <2>7, <2>8, <2>9, <2>10 DEF DictIsCurrent
<1>4. ASSUME NEW s \in Schemas, ~Cut("default"), ~Cut(s)
      PROVE  ConfigIsCurrent(s) /\ DictIsCurrent(s)
  <2>1. StampsAgree(s) /\ SumsAgree(s) /\ s \in Configs
    BY <1>4, ConfigFacts
  <2>2. ConfigIsCurrent(s)
    BY <1>2, <1>4, <2>1
  <2>3. Whole(s)
    BY <2>2 DEF ConfigIsCurrent
  <2> QED
    BY <1>3, <2>1, <2>2, <2>3
<1> QED
  BY <1>2, <1>4, ConfigFacts DEF IsCurrent

\* An update that has ended well has finished with all schemas, if it had the whole list.
LEMMA UpdateDone ==
    ASSUME DeployInv, ~Updating, update.ok, overtaken = {}
    PROVE  /\ ~Cut("default") => \A s \in Schemas : SchemaAgrees(s)
           /\ update.silent \/ StampsAgree("default")
<1>1. update.at = "idle" /\ DoneAgree /\ ConfigsAgree
  BY DEF Updating, DeployInv, Progress
<1>2. ~Cut("default") => \A s \in Schemas : SchemaAgrees(s)
  BY <1>1 DEF DoneAgree, Done
<1> QED
  BY <1>1, <1>2 DEF ConfigsAgree

\* The invariant has the three properties of a deployment.
LEMMA InvMeansCurrent ==
    ASSUME DeployInv
    PROVE  DeployedIsCurrent
<1>1. UpdateMakesCurrent
  BY UpdateDone, AgreeingIsCurrent DEF UpdateMakesCurrent, SchemaAgrees
<1>2. QuietMeansCurrent
  <2>1. SUFFICES ASSUME ~Updating, sound, ~DetectModifications, missed = {}, unstamped = {}, TornAreThere
                 PROVE  IsCurrent
    BY DEF QuietMeansCurrent
  <2>2. NothingToDo
    BY <2>1 DEF DeployInv, Quiet, QuietNow
  <2> QED
    BY <2>1, <2>2, AgreeingIsCurrent DEF NothingToDo
<1>3. PacksFitDictionary
  <2> SUFFICES ASSUME ~Updating, update.ok, overtaken = {}, ~gap,
                      ~Cut("default"), NEW s \in Schemas, Whole(s), NEW i \in DOMAIN PacksOf[s],
                      Loads(tables[PacksOf[s][i]]), Loads(tables[DictOf[s]]),
                      tables[DictOf[s]].made = tables[DictOf[s]].sum[2],
                      DictFiles[DictOf[s]] \cap torn = {}
               PROVE  tables[PacksOf[s][i]].syllabary = tables[DictOf[s]].syllabary
    BY DEF PacksFitDictionary
  <2>1. PICK p, d, pack, base, vs :
          /\ p = PacksOf[s][i] /\ d = DictOf[s] /\ pack = tables[p] /\ base = tables[d]
          /\ vs = base.sum[2]
    OBVIOUS
  <2>2. p \in Range(PacksOf[s]) /\ d \in Dicts /\ d \in Tables
    <3>1. i \in 1 .. Len(PacksOf[s]) /\ \A k \in 1 .. Len(PacksOf[s]) : PacksOf[s][k] \in Range(PacksOf[s])
      BY PackFacts
    <3>2. p \in Range(PacksOf[s])
      BY <2>1, <3>1
    <3>3. \A q \in Range(PacksOf[s]) : DictOf[s] \in Dicts
      BY PackFacts
    <3> QED
      BY <2>1, <3>2, <3>3, DictFacts
  <2>3. PackTells(pack, base)
    BY <2>1, <2>2 DEF DeployInv, PacksTell
  <2>6. pack.sum[1] = base.sum
    BY <2>1, <2>2, UpdateDone DEF SchemaAgrees, PacksAgree, PackAgrees
  <2>7. Of(pack.syllabary, vs)
    BY <2>1, <2>3, <2>6 DEF PackTells
  <2>8. base.sum \in DictSums(d) /\ base.syllabary = base.made
    BY <2>1, <2>2 DEF DeployInv, SumsTell, TableTells
  <2>9. vs \in [ DictFiles[d] -> Numbers ] /\ DOMAIN vs = DictFiles[d]
    BY <2>1, <2>2, <2>8, DictSumFacts
  <2>10. pack.syllabary \in [ DictFiles[d] -> Nat ] /\ \A f \in DictFiles[d] : pack.syllabary[f] = vs[f]
    BY <2>1, <2>7, <2>9 DEF Of
  <2>11. pack.syllabary = vs
    BY <2>9, <2>10
  <2> QED
    BY <2>1, <2>8, <2>11
<1> QED
  BY <1>1, <1>2, <1>3 DEF DeployedIsCurrent

\* An update that ends well leaves the configurations, tables, reverse databases and
\* prisms in accord with the sources; so is everything when no modifications are
\* detected; and packs have the syllables of their dictionary; all but for what hangs on
\* a configuration that is cut off.  In every workspace, for any number of edits, failures
\* and ends of the process, at any time.
THEOREM DeployedIsCurrentAlways ==
    DeploySpec => []DeployedIsCurrent
<1>1. DeployInit => DeployInv
  BY DeployStart
<1>2. DeployInv /\ [DeployNext]_deployVars => DeployInv'
  BY DeployStep
<1>3. DeployInv => DeployedIsCurrent
  BY InvMeansCurrent
<1> QED
  BY <1>1, <1>2, <1>3, PTL DEF DeploySpec
=============================================================================
