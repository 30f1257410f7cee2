------------------------------ MODULE Deployment ------------------------------
(***************************************************************************)
(* The deployment of a workspace: detect_modifications, workspace_update,  *)
(* schema_update and config_file_update (lever/deployment_tasks.cc), the   *)
(* configurations that ConfigBuilder saves (config/*_plugin.cc) and the    *)
(* tables, reverse databases and prisms that DictCompiler builds           *)
(* (dict/dict_compiler.cc, dict/table.cc, dict/prism.cc,                   *)
(* dict/reverse_lookup_dictionary.cc).                                     *)
(*                                                                         *)
(* Of a file it matters which version of its content it has, and when it   *)
(* was written; versions only go up, and 0 is no file.  What is built has  *)
(* "made", the versions that it was built from: nothing in the code reads  *)
(* it, it tells what is up to date.  Checksums are of contents and do not  *)
(* collide.  The user edits files at any time, writes fail and the process *)
(* ends at any point of an update.                                         *)
(***************************************************************************)
EXTENDS Integers, Sequences, FiniteSets, Functions

CONSTANTS
  Sources,       \* the files that are written by hand
  Watched,       \* those of them that are .yaml
  SchemaOrder,   \* the schemas that default.yaml lists; dependencies are left out
  SchemaFile,    \* the file of each schema
  ConfigSources, \* the files that each configuration is compiled from
  DictOf,        \* the dictionary of each schema, or NoDict
  TableFile,     \* the file of each dictionary and pack
  DictFiles,     \* the files of its table: its own, imported ones, the vocabulary
  PacksOf,       \* the packs of each schema, in order
  NoDict,
  Absent,        \* of a configuration: there is none
  MaxEdits,      \* bound on the edits
  MaxTime        \* bound on the seconds that pass

Schemas == Range(SchemaOrder)
Configs == DOMAIN ConfigSources
Tables  == DOMAIN DictFiles
Dicts   == Range(DictOf) \ {NoDict}

\* Schemas are updated once each.  A workspace where a dictionary were also a pack, or a
\* pack were used with two dictionaries, would build that table anew for each of them.
ASSUME DeploymentAssumption ==
  /\ Watched \subseteq Sources
  /\ SchemaOrder \in Seq(Schemas)
  /\ \A i, k \in DOMAIN SchemaOrder : SchemaOrder[i] = SchemaOrder[k] => i = k
  /\ Configs = Schemas \cup {"default"} /\ "default" \notin Schemas
  /\ \A c \in Configs : ConfigSources[c] \subseteq Sources
  /\ \A c \in Configs :
       Absent \notin [ made   : [ConfigSources[c] -> Nat],
                       stamps : UNION { [files -> Nat] : files \in SUBSET ConfigSources[c] },
                       whole  : BOOLEAN ]
  /\ \A s \in Schemas : SchemaFile[s] \in ConfigSources[s]
  /\ \A t \in Tables : DictFiles[t] \subseteq Sources /\ TableFile[t] \in DictFiles[t]
  /\ DictOf \in [Schemas -> Tables \cup {NoDict}] /\ NoDict \notin Tables
  /\ PacksOf \in [Schemas -> Seq(Tables \ Dicts)]
  /\ \A s, t \in Schemas :
       Range(PacksOf[s]) \cap Range(PacksOf[t]) # {} => DictOf[s] = DictOf[t]
  /\ \A s \in Schemas : DictOf[s] = NoDict => PacksOf[s] = <<>>

VARIABLES
  content,       \* the version of each source
  mtime,         \* when it was written
  dir_mtime,     \* when a file was last added to or removed from the directory
  now,           \* the clock, in seconds
  compiled,      \* the configurations in the staging directory
  tables,        \* NAME.table.bin
  reverse,       \* NAME.reverse.bin
  prisms,        \* NAME.prism.bin, of each schema
  last_build_time, \* user.yaml: var/last_build_time
  update,        \* where WorkspaceUpdate::Run is, and how it is going
  job,           \* and what the task that it runs has read and decided
  edits,         \* how many edits there were
  \* and for the properties only:
  sound,         \* all went well in the last update that came to its end
  unstamped,     \* sources whose last edit does not show in their time of writing
  overtaken,     \* sources edited since the last update began
  missed,        \* sources whose last edit DetectModifications cannot see
  torn,          \* sources that went, or came, while something was built of them
  gap            \* a pack without its source has been passed over

sourceVars == <<content, mtime, dir_mtime, now>>
builtVars  == <<compiled, tables, reverse, prisms>>
noteVars   == <<sound, unstamped, overtaken, missed, torn>>
deployVars == <<sourceVars, builtVars, last_build_time, update, job, edits,
                noteVars, gap>>

Exists(file)    == content[file] # 0
Versions(files) == [ f \in files |-> content[f] ]
Stamp(file)     == IF Exists(file) THEN mtime[file] ELSE 0
Stamps(files)   == [ f \in files |-> Stamp(f) ]

\* Table::Load, Prism::Load and ReverseDb::Load: the format is written at last, so
\* that a file that was not finished does not load, nor one that is not there.
Loads(file) == file.whole
Unwritten   == [ whole |-> FALSE ]
NoJob       == [ of |-> "none" ]
Updating    == update.at # "idle"

Schema == SchemaOrder[update.n]
Dict   == DictOf[Schema]

Goto(at)     == update' = [ update EXCEPT !.at = at ]
Silently(at) == update' = [ update EXCEPT !.at = at, !.silent = TRUE ]

\* SchemaUpdate::Run returns ok.
NextSchema(ok) ==
  /\ update' = [ update EXCEPT !.at = "schema", !.n = @ + 1, !.ok = @ /\ ok ]
  /\ job' = NoJob

-----------------------------------------------------------------------------
(* Configurations                                                          *)

\* A configuration is cut off behind some of the times of writing that it begins with.
Cut(c)   == compiled[c] # Absent /\ ~compiled[c].whole
Whole(c) == compiled[c] # Absent /\ compiled[c].whole

\* ConfigNeedsUpdate: by the times of writing that it has, 0 for a file that was not
\* there.
ConfigNeedsUpdate(c) ==
  \/ compiled[c] = Absent
  \/ \E f \in DOMAIN compiled[c].stamps : compiled[c].stamps[f] # Stamp(f)

\* ConfigFileUpdate::Run; ConfigCompiler reads the files here.
ConfigFileUpdate(c, after) ==
  IF ConfigNeedsUpdate(c)
  THEN /\ Goto("link")
       /\ job' = [ of |-> c, read |-> Versions(ConfigSources[c]), after |-> after ]
  ELSE /\ Goto(after)
       /\ job' = NoJob

\* BuildInfoPlugin
Linked(files, whole) == [ made |-> job.read, stamps |-> Stamps(files), whole |-> whole ]

\* ConfigData::SaveToFile writes over the file, from the beginning: what is there when
\* the disk is full or the process ends.  One without any times of writing, or that
\* cannot be parsed, is as good as none.
Unfinished ==
  {Absent} \cup { Linked(files, FALSE) : files \in SUBSET ConfigSources[job.of] \ {{}} }

\* SaveOutputPlugin, after the configuration is linked.  Whether that went well, and
\* the file was saved, is not asked.
LinkConfig ==
  /\ update.at = "link"
  /\ \/ /\ compiled' = [ compiled EXCEPT ![job.of] = Linked(ConfigSources[job.of], TRUE) ]
        /\ Goto(job.after)
     \/ /\ \E config \in Unfinished \cup {compiled[job.of]} :
             compiled' = [ compiled EXCEPT ![job.of] = config ]
        /\ Silently(job.after)
  /\ job' = NoJob
  /\ UNCHANGED <<sourceVars, tables, reverse, prisms, last_build_time, edits, noteVars, gap>>

-----------------------------------------------------------------------------
(* WorkspaceUpdate::Run                                                    *)

\* DetectModifications::Run
DetectModifications ==
  \/ dir_mtime > last_build_time
  \/ \E f \in Watched : Exists(f) /\ mtime[f] > last_build_time

\* RimeStartMaintenance(full_check), and the task on the work thread
StartUpdate(full_check) ==
  /\ ~Updating
  /\ full_check \/ DetectModifications
  /\ IF ConfigNeedsUpdate("default")
     THEN /\ update' = [ at |-> "link", n |-> 0, ok |-> TRUE, silent |-> FALSE ]
          /\ job' = [ of |-> "default", read |-> Versions(ConfigSources["default"]),
                      after |-> "list" ]
     ELSE /\ update' = [ at |-> "list", n |-> 0, ok |-> TRUE, silent |-> FALSE ]
          /\ job' = NoJob
  /\ overtaken' = {}
  /\ UNCHANGED <<sourceVars, builtVars, last_build_time, edits,
                 sound, unstamped, missed, torn, gap>>

EndUpdate(ok) ==
  /\ update' = [ update EXCEPT !.at = "idle", !.n = 0, !.ok = ok ]
  /\ sound' = (ok /\ ~update.silent)
  /\ missed' = overtaken
  /\ UNCHANGED <<unstamped, overtaken, torn>>

\* Without default.yaml there is no list of schemas.  When it is cut off there may be
\* none, or some of it.
ReadSchemaList ==
  /\ update.at = "list"
  /\ \/ /\ ~Whole("default")
        /\ EndUpdate(FALSE)
     \/ /\ compiled["default"] # Absent
        /\ update' = [ update EXCEPT !.at = "schema", !.n = 1 ]
        /\ UNCHANGED noteVars
  /\ UNCHANGED <<sourceVars, builtVars, last_build_time, job, edits, gap>>

\* build_schema and the beginning of SchemaUpdate::Run
UpdateSchema ==
  /\ update.at = "schema"
  /\ update.n <= Len(SchemaOrder)
  /\ IF Exists(SchemaFile[Schema])
     THEN ConfigFileUpdate(Schema, "decide")
     ELSE NextSchema(FALSE)
  /\ UNCHANGED <<sourceVars, builtVars, last_build_time, edits, noteVars, gap>>

\* The time of the build is written down whether or not all schemas were built.  A list
\* that is cut off ends before, with a name that may be cut off.
FinishUpdate ==
  /\ update.at = "schema"
  /\ update.n > Len(SchemaOrder) \/ Cut("default")
  /\ last_build_time' = now
  /\ \/ EndUpdate(update.ok)
     \/ Cut("default") /\ EndUpdate(FALSE)
  /\ UNCHANGED <<sourceVars, builtVars, job, edits, gap>>

-----------------------------------------------------------------------------
(* DictCompiler::Compile                                                   *)

NoSyllabary == <<>>

\* compute_dict_file_checksum
DictFileChecksum(table, initial) == << initial, Versions(DictFiles[table]) >>

\* A vocabulary that is missing counts as empty; an imported table that is missing
\* is an error.
SourcesThere(table) ==
  \A f \in DictFiles[table] : f \in Watched => Exists(f)

\* Mutant of NeedsTable: a reverse database that was not finished is not seen.
NeedsTableByTable(table, sum) == ~Loads(tables[table]) \/ tables[table].sum # sum

\* The table is built together with the reverse database.
NeedsTable(table, sum) ==
  \/ ~Loads(tables[table]) \/ tables[table].sum # sum
  \/ ~Loads(reverse[table]) \/ reverse[table].sum # sum

NeedsPrism(sum, schema_sum) ==
  \/ ~Loads(prisms[Schema])
  \/ prisms[Schema].sum # sum
  \/ prisms[Schema].schema_sum # schema_sum

\* All that is decided before anything is built.  Without its source a table is used
\* as it is, but is built, of nothing, when the reverse database does not fit it.  A
\* configuration that is cut off may name no dictionary, or one that is not there.
Decide ==
  /\ update.at = "decide"
  /\ \/ /\ ~Whole(Schema) \/ Dict = NoDict
        /\ NextSchema(TRUE)
     \/ /\ compiled[Schema] # Absent /\ Dict # NoDict
        /\ \/ Exists(TableFile[Dict]) /\ ~SourcesThere(Dict)
           \/ ~Exists(TableFile[Dict]) /\ ~Loads(tables[Dict])
           \/ Cut(Schema)
        /\ NextSchema(FALSE)
     \/ /\ compiled[Schema] # Absent /\ Dict # NoDict
        /\ \/ Exists(TableFile[Dict]) /\ SourcesThere(Dict)
           \/ ~Exists(TableFile[Dict]) /\ Loads(tables[Dict])
        /\ LET sum == IF Exists(TableFile[Dict]) THEN DictFileChecksum(Dict, 0)
                                                 ELSE tables[Dict].sum
           IN  /\ job' = [ of         |-> Dict,
                           sum        |-> sum,
                           schema_sum |-> compiled[Schema],
                           prism      |-> NeedsPrism(sum, compiled[Schema]),
                           files      |-> IF Exists(TableFile[Dict]) THEN DictFiles[Dict]
                                                                     ELSE {},
                           syllabary  |-> IF Loads(tables[Dict]) THEN tables[Dict].syllabary
                                                                 ELSE NoSyllabary,
                           pack       |-> 1 ]
               /\ Goto(IF NeedsTable(Dict, sum) THEN "table" ELSE "prism")
  /\ UNCHANGED <<sourceVars, builtVars, last_build_time, edits, noteVars, gap>>

\* BuildTable of the dictionary: the entries are read from the sources now.
BuildTable ==
  /\ update.at = "table"
  /\ LET made == IF job.files = {} THEN NoSyllabary ELSE Versions(job.files)
     IN  \/ /\ tables' = [ tables EXCEPT ![Dict] =
                 [ whole |-> TRUE, sum |-> job.sum, made |-> made, syllabary |-> made ] ]
            /\ job' = [ job EXCEPT !.syllabary = made ]
            /\ Goto("reverse")
         \/ /\ tables' = [ tables EXCEPT ![Dict] = Unwritten ]
            /\ NextSchema(FALSE)
  /\ UNCHANGED <<sourceVars, compiled, reverse, prisms, last_build_time, edits,
                 noteVars, gap>>

\* BuildReverseDb
BuildReverseDb ==
  /\ update.at = "reverse"
  /\ \/ /\ reverse' = [ reverse EXCEPT ![Dict] =
              [ whole |-> TRUE, sum |-> job.sum, made |-> tables[Dict].made ] ]
        /\ Goto("prism")
        /\ UNCHANGED job
     \/ /\ reverse' = [ reverse EXCEPT ![Dict] = Unwritten ]
        /\ NextSchema(FALSE)
  /\ UNCHANGED <<sourceVars, compiled, tables, prisms, last_build_time, edits,
                 noteVars, gap>>

\* BuildPrism, of the syllabary of the table and the algebra of the configuration
BuildPrism ==
  /\ update.at = "prism"
  /\ \/ /\ ~job.prism
        /\ Goto("pack")
        /\ UNCHANGED <<prisms, job>>
     \/ /\ job.prism /\ tables[Dict].syllabary # NoSyllabary
        /\ prisms' = [ prisms EXCEPT ![Schema] =
             [ whole |-> TRUE, sum |-> job.sum, schema_sum |-> job.schema_sum,
               made |-> << tables[Dict].syllabary, compiled[Schema] >> ] ]
        /\ Goto("pack")
        /\ UNCHANGED job
     \/ /\ job.prism
        /\ prisms' = IF tables[Dict].syllabary = NoSyllabary THEN prisms
                     ELSE [ prisms EXCEPT ![Schema] = Unwritten ]
        /\ NextSchema(FALSE)
  /\ UNCHANGED <<sourceVars, compiled, tables, reverse, last_build_time, edits,
                 noteVars, gap>>

\* The next pack.  One without its sources is passed over, and the syllabary, which
\* was to be taken back from its collector, is lost for those that follow.
NextPack(syllabary) ==
  job' = [ job EXCEPT !.pack = @ + 1, !.syllabary = syllabary ]

\* A pack depends on the dictionary.
PackChecksum(pack) == DictFileChecksum(pack, job.sum)

PackIsThere(pack) == Exists(TableFile[pack]) /\ SourcesThere(pack)
NeedsPack(pack)   == ~Loads(tables[pack]) \/ tables[pack].sum # PackChecksum(pack)

BuildPack ==
  /\ update.at = "pack"
  /\ job.pack <= Len(PacksOf[Schema])
  /\ LET pack == PacksOf[Schema][job.pack]
     IN  \/ /\ ~PackIsThere(pack)
            /\ NextPack(NoSyllabary)
            /\ gap' = TRUE
            /\ UNCHANGED <<tables, update>>
         \/ /\ PackIsThere(pack)
            /\ IF ~NeedsPack(pack)
               THEN UNCHANGED <<tables, update>>
               ELSE \/ /\ tables' = [ tables EXCEPT ![pack] =
                            [ whole |-> TRUE, sum |-> PackChecksum(pack),
                              made  |-> Versions(DictFiles[pack]),
                              syllabary |-> job.syllabary ] ]
                       /\ UNCHANGED update
                    \/ /\ tables' = [ tables EXCEPT ![pack] = Unwritten ]
                       /\ Silently("pack")
            /\ NextPack(job.syllabary)
            /\ UNCHANGED gap
  /\ UNCHANGED <<sourceVars, compiled, reverse, prisms, last_build_time, edits, noteVars>>

\* A configuration that is cut off may name fewer packs.
DictIsReady ==
  /\ update.at = "pack"
  /\ job.pack > Len(PacksOf[Schema]) \/ Cut(Schema)
  /\ NextSchema(TRUE)
  /\ UNCHANGED <<sourceVars, builtVars, last_build_time, edits, noteVars, gap>>

-----------------------------------------------------------------------------
(* The user, the clock, and the end of the process                         *)

Note(file) ==
  /\ unstamped' = IF \/ mtime[file] = now
                     \/ update.at = "link" /\ file \in ConfigSources[job.of]
                  THEN unstamped \cup {file} ELSE unstamped \ {file}
  /\ overtaken' = overtaken \cup {file}
  /\ missed' = IF ~Updating /\ (now <= last_build_time \/ file \notin Watched)
               THEN missed \cup {file} ELSE missed
  /\ torn' = IF \/ update.at = "link" /\ file \in ConfigSources[job.of] /\ Exists(file)
                \/ update.at = "table" /\ file \in job.files /\ ~Exists(file)
             THEN torn \cup {file} ELSE torn
  /\ UNCHANGED sound

\* A file is written, anew or for the first time.
EditSource(file) ==
  /\ edits < MaxEdits
  /\ edits' = edits + 1
  /\ content' = [ content EXCEPT ![file] = edits + 2 ]
  /\ mtime' = [ mtime EXCEPT ![file] = now ]
  /\ dir_mtime' = IF Exists(file) THEN dir_mtime ELSE now
  /\ Note(file)
  /\ UNCHANGED <<now, builtVars, last_build_time, update, job, gap>>

RemoveSource(file) ==
  /\ edits < MaxEdits
  /\ Exists(file)
  /\ edits' = edits + 1
  /\ content' = [ content EXCEPT ![file] = 0 ]
  /\ dir_mtime' = now
  /\ Note(file)
  /\ UNCHANGED <<mtime, now, builtVars, last_build_time, update, job, gap>>

Tick ==
  /\ now < MaxTime
  /\ now' = now + 1
  /\ UNCHANGED <<content, mtime, dir_mtime, builtVars, last_build_time, update, job,
                 edits, noteVars, gap>>

\* The process ends in the middle of an update; what it was writing is not finished.
Left(files, written) ==
  {files} \cup { [ files EXCEPT ![name] = Unwritten ] : name \in written }

Crash ==
  /\ Updating
  /\ \/ UNCHANGED compiled
     \/ /\ update.at = "link"
        /\ \E config \in Unfinished : compiled' = [ compiled EXCEPT ![job.of] = config ]
  /\ tables' \in Left(tables,
       CASE update.at = "table" -> {Dict}
         [] update.at = "pack" /\ job.pack <= Len(PacksOf[Schema]) ->
              LET pack == PacksOf[Schema][job.pack]
              IN  IF PackIsThere(pack) /\ NeedsPack(pack) THEN {pack} ELSE {}
         [] OTHER -> {})
  /\ reverse' \in Left(reverse, IF update.at = "reverse" THEN {Dict} ELSE {})
  /\ prisms' \in Left(prisms, IF update.at = "prism" /\ job.prism THEN {Schema} ELSE {})
  /\ update' = [ at |-> "idle", n |-> 0, ok |-> FALSE, silent |-> FALSE ]
  /\ job' = NoJob
  /\ missed' = missed \cup overtaken
  /\ UNCHANGED <<sourceVars, last_build_time, edits, sound, unstamped, overtaken, torn, gap>>

-----------------------------------------------------------------------------
\* A new installation; time begins at 1, as 0 stands for no file.
DeployInit ==
  /\ content = [ f \in Sources |-> 1 ]
  /\ mtime = [ f \in Sources |-> 1 ]
  /\ dir_mtime = 1
  /\ now = 1
  /\ compiled = [ c \in Configs |-> Absent ]
  /\ tables = [ t \in Tables |-> Unwritten ]
  /\ reverse = [ d \in Dicts |-> Unwritten ]
  /\ prisms = [ s \in Schemas |-> Unwritten ]
  /\ last_build_time = 0
  /\ update = [ at |-> "idle", n |-> 0, ok |-> FALSE, silent |-> FALSE ]
  /\ job = NoJob
  /\ edits = 0
  /\ sound = FALSE
  /\ unstamped = {} /\ overtaken = {} /\ missed = {} /\ torn = {}
  /\ gap = FALSE

DeployNext ==
  \/ \E full_check \in BOOLEAN : StartUpdate(full_check)
  \/ LinkConfig
  \/ ReadSchemaList
  \/ UpdateSchema
  \/ FinishUpdate
  \/ Decide
  \/ BuildTable
  \/ BuildReverseDb
  \/ BuildPrism
  \/ BuildPack
  \/ DictIsReady
  \/ \E file \in Sources : EditSource(file) \/ RemoveSource(file)
  \/ Tick
  \/ Crash

DeploySpec == DeployInit /\ [][DeployNext]_deployVars
-----------------------------------------------------------------------------
(* What a deployment achieves.                                             *)

ConfigIsCurrent(c) == Whole(c) /\ compiled[c].made = Versions(ConfigSources[c])

\* The table, the reverse database and the prism of a schema fit each other and what
\* they are made of.
DictIsCurrent(s) ==
  LET d == DictOf[s]
  IN  d # NoDict /\ Exists(TableFile[d]) =>
        /\ Loads(tables[d])  /\ tables[d].made = Versions(DictFiles[d])
        /\ Loads(reverse[d]) /\ reverse[d].made = tables[d].made
        /\ Loads(prisms[s])  /\ prisms[s].made = << tables[d].made, compiled[s] >>

\* All is, but for a configuration that is cut off.  It keeps its times of writing, is
\* taken as current, and what depends on it stays as it is: of a schema its dictionary,
\* of default.yaml all the schemas that its list has lost.
IsCurrent ==
  /\ ~Cut("default") => ConfigIsCurrent("default")
  /\ \A s \in Schemas :
       ~Cut("default") /\ ~Cut(s) => ConfigIsCurrent(s) /\ DictIsCurrent(s)

\* No source that went or came while it was being read is missing now: 0 would stand
\* for two states of it.
TornAreThere == \A f \in torn : Exists(f)

\* An update that ends well, and was not overtaken by an edit, leaves in accord with the
\* sources whatever no cut off configuration keeps from it.  It does so whatever else it
\* found: tables, prisms and databases that an earlier one left unfinished when it failed
\* or the process ended, or that it had built of something else (WorkspaceUpdate::Run,
\* DictCompiler::Compile).
UpdateMakesCurrent ==
  /\ ~Updating /\ update.ok /\ ~update.silent /\ overtaken = {}
  /\ unstamped = {} /\ TornAreThere
  => IsCurrent

\* When no modifications are detected there are none: nothing that is deployed is out
\* of date, but for cut off configurations, unless an edit was made when it could not be
\* told, or the last update did not go well: its time is stamped all the same, and what
\* it failed to build is not missed before the next full check
\* (DetectModifications::Run, WorkspaceUpdate::Run).
QuietMeansCurrent ==
  /\ ~Updating /\ sound /\ ~DetectModifications
  /\ missed = {} /\ unstamped = {} /\ TornAreThere
  => IsCurrent

\* The entries of a pack that is in use have the syllables of the dictionary that it
\* is used with, after an update that was not overtaken by an edit, if that dictionary
\* is built of what its checksum is of, and unless a pack before it was once without
\* its source or the configuration has been lost or cut off (DictCompiler::Compile).
PacksFitDictionary ==
  ~Updating /\ update.ok /\ overtaken = {} /\ ~gap =>
    \A s \in { u \in Schemas : ~Cut("default") /\ Whole(u) } : \A i \in DOMAIN PacksOf[s] :
      LET pack == tables[PacksOf[s][i]]
          base == tables[DictOf[s]]
      IN  /\ Loads(pack) /\ Loads(base)
          /\ base.made = base.sum[2] /\ DictFiles[DictOf[s]] \cap torn = {}
          => pack.syllabary = base.syllabary

\* An update leaves what is deployed current, with packs that fit, and what it leaves
\* alone is current.
DeployedIsCurrent == UpdateMakesCurrent /\ QuietMeansCurrent /\ PacksFitDictionary
=============================================================================
