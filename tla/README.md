# A verification development of librime

librime is the engine of the Rime input methods: it turns keys into an input
string, cuts the string into segments, asks translators for candidates, and
commits what the user chooses; around that it keeps user dictionaries that learn
from the commits, and a deployer that maintains data files on a thread of its
own. This directory holds TLA+ models of it, the TLC configurations that check
them on small instances, and theorems about them that TLAPS checks for every
value of the constants. Paths below are relative to `src/rime/` of the
repository unless they say otherwise.

- [1. The system](#1-the-system): its components, their state, operations and interactions
- [2. The modules](#2-the-modules): how each corresponds to the code
- [3. The runs](#3-the-runs): what each checks and shows; bounds; fairness
- [4. The proofs](#4-the-proofs): what is proved, from what, and how
- [5. Disagreements](#5-disagreements-between-the-code-and-what-it-says) found
- [6. What is left out](#6-what-is-left-out)
- [7. The plan](#7-the-plan): modules, runs and theorems to come

To check: `tlc -config <name>.cfg <MC module>` for each configuration, and
`tlapm <module>.tla` for `EditorProofs`, `ServiceProofs`, `UserDbProofs`,
`UserDictSyncProofs`, `KeyProofs`, `SettingsProofs`, `DatabaseProofs` and
`DeploymentProofs`.

## 1. The system

A front end calls the C API (`rime_api_impl.h`). `Service` hands out sessions;
each session owns an `Engine` with a `Context`. Three activities share state:

```
 front end ── C API ──> Service ──> Session ──> Engine ── key ──> Processors (Speller, Punctuator,
     ^                    |                       |                 Selector, Navigator, Editor, ...)
     | notification       | schedules             | signals           | edit
     | handler            v                       v                   v
     +─────────────── Deployer <── recovery ── Memory ── learns   Context: input, caret, Composition
                     (work thread)                |                   |  update notifier
                          |                       v                   v
                          +── synchronizes ──> UserDictionary     Engine::Compose ──> Segmentors,
                                               LevelDb (shared)                       Translators, Filters
```

1. *Composition*, on the caller's thread. Processors edit the `Context`; every
   edit fires a notifier, and the engine recomposes inside the call: drop what
   has changed, cut up the rest, translate it.
2. *Deployment*, on the work thread of `Deployer`, against the client's thread:
   a task queue, a future, the maintenance mode, the notification mutex.
3. *Learning*: the memories of all sessions write to databases that they share,
   one transaction per database; across devices the databases are merged through
   snapshots in a sync folder.
4. *Keys and options*: a key goes through a chain of processors that may feed
   other keys back; options and schemas are changed by keys, menus and the
   application, and some are saved.
5. *Data*: configurations are compiled from documents, dictionaries from tables;
   translators look words up in them, filters change what is found.

### Components

`PROJECT.json` lists all of them with their sources and how far they are
modelled. Those that carry the logic:

| Component | State | Operations | What makes it correct |
|---|---|---|---|
| **Segmentation, Composition** (`segmentation.cc`, `composition.cc`) | segments: status, range, original length, tags, menu, selected index; the text they divide | AddSegment, Forward, Trim, Reset, Close, Reopen | the segments tile the text; a selected segment ends with its candidate; a reopened menu answers the text that it covers |
| **Context** (`context.cc`) | input, caret, composition, options | PushInput, PopInput, DeleteInput, Select, Highlight, Confirm, BeginEditing, Reopen..., Clear..., Commit, set_input, set_option | caret in the input; a call leaves the composition up to date; a choice is lost only when it is taken back |
| **Engine** (`engine.cc`) | active input, a round's start, the segmentor to be asked | Compose, CalculateSegmentation, TranslateSegments, OnSelect, OnCommit, OnOptionUpdate | the rounds end; the segments reach the caret or a character that nobody takes; everything is translated |
| **Segmentors** (`gear/*_segmentor.cc`, `punctuator.cc`, `matcher.cc`) | none | Proceed: add a segment or extend the last one, and end the round or not | together they use up the input |
| **Processors** (`gear/speller.cc`, `editor.cc`, `navigator.cc`, `selector.cc`, `punctuator.cc`) | nothing that outlives a key | ProcessKeyEvent | they leave the context consistent in whatever order keys come; what they read before an edit still holds when they use it after |
| **Processors with a memory** (`gear/ascii_composer.cc`, `chord_composer.cc`, `key_binder.cc`, `recognizer.cc`) | pressed and recorded keys, raw sequence, toggles and their expiry, whether a processor is feeding keys | ProcessKeyEvent, update and unhandled-key notifiers | feeding does not nest; what is remembered of keys agrees with those held down; a temporary mode ends with its composition |
| **Deployer** (`deployer.cc`) | `pending_tasks_`, `maintenance_mode_`, `work_` | ScheduleTask, NextTask, StartWork, StartMaintenance, Run, JoinWorkThread | each task runs once and in order; what is scheduled is run; joining ends |
| **Service** (`service.cc`) | sessions, started, handler, mutex | StartService, StopService, CreateSession, DestroySession, Notify | the handler is called by one thread at a time, and not after finalization; no sessions during maintenance |
| **User dictionaries** (`dict/user_dictionary.cc`, `level_db.cc`, `gear/memory.cc`) | counts, one batch and transaction per database, time of the last one per dictionary, queue of phrases | UpdateEntry, NewTransaction, CommitPendingTransaction, RevertRecentTransaction, OnCommit, OnDeleteEntry, OnUnhandledKey, Load | a commit is settled or forgotten as a whole; nothing else loses words; BackSpace forgets the commit that it erases |
| **Recovery and synchronization** (`dict/user_db_recovery_task.cc`, `dict/user_db.cc`, `lever/user_dict_manager.cc`, `dict/tsv.cc`) | disabled flag; snapshots in the sync folder | repair, recreate, restore; merge, back up, import | a recovery never touches a database in use and its database comes back; merging neither loses nor doubles counts, and devices agree at last |
| **Text databases** (`dict/text_db.cc`, `table_db.cc`, `level_db.cc`) | records and metadata in memory, `modified`; LevelDB's batch | Open, Close, Update, Erase, Backup, Restore, transactions | a transaction is kept whole or not at all; what is closed is opened again |
| **Switcher, switches, schemas** (`switcher.cc`, `switches.cc`, `schema.cc`) | an engine of its own that takes the keys; saved options | Activate, Deactivate, ApplySchema, select a switch | radio groups have one option on; saved options are those shown |
| **Settings** (`lever/custom_settings.cc`, `switcher_settings.cc`; `user.yaml`) | what was loaded of a custom file, whether it is modified; one shared copy of the user's config | Load, Customize, Select, Save; open, set, close | nobody's customization is lost; a selection comes back after deployment; all handles read the same |
| **Configuration** (`config/*.cc`) | trees of shared values, copied on write; the compiler's graph of dependencies and chain of what is being resolved | LoadConfig, SetItem; ConvertFromYaml, Compile, ResolveDependencies, EditNode | a document becomes what its directives mean, whatever their order and the order of references; a write shows in one place only |
| **Deployment, dictionary compiler** (`lever/deployment_tasks.cc`, `dict/dict_compiler.cc`, `table.cc`, `prism.cc`) | built configurations, tables, reverse databases and prisms with checksums and times | workspace_update, schema_update, Compile | what is stale is rebuilt, what is fresh is kept, whatever fails or is edited meanwhile |
| **Collecting and encoding** (`dict/entry_collector.cc`, `preset_vocabulary.cc`, `algo/encoder.cc`) | entries, words and their codes, a queue of phrases without a code | Collect, Encode, Finish | a phrase has every code that its parts can be read as |
| **Lookup** (`algo/algebra.cc`, `syllabifier.cc`, `dict/prism.cc`, `table.cc`, `dictionary.cc`, `user_dictionary.cc`) | none that outlives a query | Apply, BuildSyllableGraph, Lookup, LookupWords | an input is read as the algebra spells; all its words are found and nothing else |
| **Translators, poet, menu** (`gear/script_translator.cc`, `table_translator.cc`, `poet.cc`, `translation.cc`, `menu.cc`, `uniquifier.cc`) | lazy candidate lists with caches | Query, Peek, Next, merge, Prepare | what is found is offered, once, exact words first; a sentence is a best line |
| **Filters** (`gear/simplifier.cc`, `charset_filter.cc`, `single_char_filter.cc`, `reverse_lookup_filter.cc`) | lists that are drawn ahead | Apply, Peek, Next | the menu has what the filters make of the whole list |

### Hard behaviours

- *Re-entrance*: an edit inside a processor recomposes before the processor goes
  on, so that what it has read (the last segment, the selected candidate) may be
  gone (`gear/selector.cc:166`, `gear/memory.cc:142`).
- *Two representations of one position*: a segment's end, its original length and
  the end of its candidate move independently (`segmentation.cc:21-45`).
- *Two threads*: the client schedules, starts work, joins, changes the handler
  and asks for the mode while the work thread runs; several fields are read
  without their mutex.
- *Shared transactions*: several dictionaries hold times and queues of their own
  but one database has one batch.
- *Failure*: a task may throw, a database may be damaged, the process may end
  between two writes, a snapshot may be cut off, late, old, or missing.

`PROJECT.json` lists these as hazards, each at its line, with the properties
that cover it or the reason why none does.

## 2. The modules

```
 Segmentation ◄── Context ◄── Editor ◄── EditorProperties ◄── MCEditor
                                               ▲
                                          EditorProofs

 Deployer ◄── Service ◄── ServiceProperties ◄── MCService ◄──┐
                              ▲     └─ INSTANCE TaskQueue    │
                         ServiceProofs                       │
 Databases ◄── DatabaseProofs                                │
     ▲                                                       │
     └──────────── Encoding ◄────────────────────── MCMaintenance

 WordCounts ◄── UserDb ◄── UserDbProperties ◄── MCUserDb ◄───┐
    ▲  ▲                      ▲     └─ INSTANCE UserWords    │
    │  └── UserWords      UserDbProofs                       │
    │       KeyDispatch ◄── KeyProofs                        │
    │       Settings, Switcher ◄── SettingsProofs            │
    │       Switcher, KeyDispatch, Settings ◄────────── MCSession
    │
    └── UserDictSync ◄── UserDictSyncProperties ◄── MCUserDictSync
                                ▲
                          UserDictSyncProofs

 ConfigData ◄── ConfigCompiler ◄── ConfigProperties ◄── MCConfig ◄──┐
 Spellings ◄── Lexicon ◄── Sentences ◄── Translations ◄── Menu ◄─ LookupProperties
 Deployment ◄── DeploymentProofs
 Deployment, LookupProperties, Filters ◄──────────────────── MCWorkspace
```

(an arrow points to the module that is extended). A name of the code is kept for
whatever models it. A definition called "Mutant of X" is a deliberately broken
variant of X: replacing X by it violates the property that `PROJECT.json` pairs
it with, which shows that the property depends on that piece of code.

### Composition: `Segmentation`, `Context`, `Editor`

`Segmentation` has the operations of `Segment` and `Segmentation` as operators
on one segment and on a sequence of segments. A menu is the text that it answers
(`query`) and where each candidate ends (`ends`): exactly what the rest of the
code asks of it. `NoMenu` is the null pointer.

`Context` adds the state of `Context` and `Engine`:

| Variable | Code |
|---|---|
| `input`, `caret_pos`, `options` | `Context::input_`, `caret_pos_`, `options_` |
| `composition`, `comp_input` | the vector of segments, and `Segmentation::input_` |
| `pc`, `start_pos`, `next_segmentor` | how far `CalculateSegmentation` / `TranslateSegments` have come |
| `then` | what the caller does when the call that it has made returns |

Every edit ends in `Compose`, as the update notifier does; the rounds
(`BeginRound`, one action per call of a segmentor, `EndRound`,
`FinishSegmentation`, `TranslateSegment`, `FinishTranslation`) are steps of
their own, so that termination is a question and not an assumption.
Translators are nondeterministic: any menu of at most `MaxCandidates` candidates
that end inside the segment, after its start.

`Editor` has one action per key action and API call. A handler that goes on
after an edit (BeginEditing after PushInput; the selector's tag after Highlight;
the punctuator's confirmation) is split: `then` names the rest, an action
`Resume...` does it. The order of processors is left open: every handler may
take any key that its own guards accept, which includes each order that a schema
may give. `Handlers` selects the groups that a run exercises; Selector has two, the keys
that select and those that move the highlight (`paging`).

### Threads: `Deployer`, `Service`, `TaskQueue`

`Deployer` is the queue and the work thread: `run_pc` follows `Deployer::Run`
(announce, next, task, report, double_check, quit), `work` is the future
(`none`, `running`, `ready`, `threw`); the gap between the last look at the
queue and the readiness of the future is a step. `Service` composes it with the
client's thread (`client`, `todo`, `mode` follow a call), the mutex of
notifications, sessions, and what tasks do to databases (recovery,
synchronization). What one thread does between two looks at what both share is
one action: `UserDictionary::Load` tries to open its database
(`LoadUserDictionary`) and only then asks for the work thread
(`RecoverLoading`). A synchronization that has made it fail may have closed the
database and ended by then, and a database that is not damaged is recovered:
repaired, or moved away and made anew from the last snapshot. That is what the code
does and no comment denies; `RecoveryIsSafe` says what holds all the same.

`TaskQueue` is what `Deployer` promises, in twenty lines: a queue with Schedule
and Finish. `ServiceProperties!Unfinished` (the running task in front of those
pending) is the refinement mapping.

### Learning: `WordCounts`, `UserDb`, `UserWords`

`WordCounts` holds counts of words, negative when the word is deleted, and
what a commit and a deletion make of one. `UserDb` has one database with its
`batch` and `in_transaction`, the memories of several sessions with their
queues, and the announcements (`signal`) of a context: commit, deletion,
unhandled key. An announcement is handled by one memory after the other
(`slots`, in the order of connection), and only then does the session go on.
Times of transactions are kept as an order (`recent`): a memory is in it as long
as its last one is at most three seconds old, and `recent` may lose its oldest
members at any time.

`UserWords` is what a user dictionary promises, over `learned` and `tentative`;
`UserDb` implements it under `learned <- store`, `tentative <- batch`.

### Devices: `UserDictSync`

The other end of a dictionary's life: every device has its database (`db`), a
copy of the folder of snapshots (`folder[d][f]` is d's copy of f's snapshot), and
a synchronization (`sync`) that follows `UserDictManager::Synchronize`: visit
the directories in any order, restore each snapshot into a temporary database,
merge it word by word, then write its own snapshot line by line. `holder` is the
lock of LevelDb. `Crash`, `Recover`, `Load` and `Transfer` bring what goes wrong.

### Configuration: `ConfigData`, `ConfigCompiler`

Pure algorithms over shared data, so the state machine is small: `LoadConfig`
compiles and links one set of documents, as `ConfigBuilder::LoadConfig` does in
one call, and `Set` is `Config::SetItem` on what has come out.

`ConfigData` has the items on a numbered heap (`heap`), so that sharing is
visible, and references to nodes as the code has them: a root, an entry of a
container, or a copy-on-write reference that names its parent and, by its number
in `edits`, the edit it was made for; `copied` is the set of those whose
`copied_` is true. On top are `EditNode` and what it calls. `ConfigCompiler` adds
the graph: the dependencies of each node in order of priority (`deps`), the
chain of nodes being resolved (`chain`), and the recursion between
`ResolveDependencies`, `Resolve`, `ResolveReference` and `GetResolvedItem`. A
failure leaves the chain and the dependencies as the code does.

`ConfigProperties` says what a document means without items, references or
order of resolution: `Meaning` gives the value of a node from what is written in
it. It reads other nodes where they are referred to and nodes around it as far as they are
made. `ResolvesAsMeant` compares it with the tree that the compiler has made.
The comparison leaves out what `Meaning` calls `Unsettled`: references that are
circular, edits of something of the wrong type, and optional references to what
cannot be made. There the code's result depends on the order of resolution, and
nothing says what it ought to be.

### Keys: `KeyDispatch`

`ConcreteEngine::ProcessKey` as a stack of calls (`calls`): each has its key, the
processor that has it now, who feeds keys in its behalf and the keys left to be
fed. An action is one call of a processor with everything that the update and
option notifiers bring about within it (`Update`, `LeaveTemporaryAscii`,
`TrackComposition`). AsciiComposer, Recognizer, ChordComposer and KeyBinder are
complete; Speller, Selector and Editor are cut down to what those ask of a
composition: whether there is one, its input, whether it has a menu. `held`
are the keys that are down; `interrupted` remembers that the mode was switched,
or a binding fed a key, in the middle of a chord. Its properties are in the module.

### Options: `Switcher`

The options of a session, the switches of its schema, the menu of the switcher
(`RadioGroup`, switches that are on or off, schemas in the order of access), the
bindings and API calls that change options, `ApplySchema` and
`InitializeOptions`, and `user.yaml` as far as saved options go. The properties speak
of the groups on display: those of the session's schema while its menu is open.

### Settings: `Settings`

`CustomSettings` and `SwitcherSettings` as slots of a client: what each has loaded
of the deployed config and of the custom file, what it has customized, whether it
is modified; the user edits the custom file and a deployment patches the config.
Beside it the handles of `user.yaml`, which share one `ConfigData` through a weak
pointer (`cache`), written when the last holder lets go. Values have the types of
`config_types.cc`: a double is written with six decimals, an unsigned number in
hexadecimal is read as the int of the same bits.

### Databases: `Databases`

One database of any class (`userdb` in LevelDB, `plain_userdb`, `tabledb`,
`stabledb` as text files) that is opened, read, changed, backed up, restored and
closed, with LevelDB's batch, failing writes and a process that ends anywhere.
A record or its absence is a function of the key, so that the module can be
proved about. Two histories of what is asked for stand beside the file and are never
read off it once a database exists: `stored`, what plain updates and committed transactions have put
there, and `intended`, the same with the updates of the transaction that is open. An
abort, a commit that fails, closing and a crash must leave the file at `stored`,
whatever way the updates have taken.

### Entries of a dictionary: `Encoding`

`EntryCollector`: the rows of the tables one by one, then the queue of phrases
without a code, then the preset vocabulary; `ScriptEncoder` (every splitting and
every reading, up to the limit) and `TableEncoder` (rules with coordinates from
both ends).

### Deployment: `Deployment`

`workspace_update`, `schema_update`, `config_file_update` and
`DictCompiler::Compile`, step by step: what is compared (checksums, times), what
is decided, what is written and when. Of a file its version and its time are
kept; what is built has a ghost field `made`, the versions that it was built
from. The user edits and removes files, writes fail and the process ends in
between. A file that is missing or was not finished is `Unwritten`: it does not load.
A configuration is not so lucky. `ConfigData::SaveToFile` truncates the file in place
and streams a sorted map, and the times that `ConfigNeedsUpdate` looks at come first
(`__build_info`): when the disk is full or the process ends, `LinkConfig` and `Crash`
leave none, the old one, or one that is cut off (`Cut`) with any of the times that it
was to have. Such a one is taken as current from then on, and what is read of it is
not there: `default` has no list of schemas, a schema no dictionary. The code does so,
and `IsCurrent` says what is current beside it: everything that no cut off
configuration keeps from being built.

Some variables only note what the properties except, because the code cannot see
it: an edit in the second of the one before, or of a document between its reading
and its stamp (`unstamped`), an edit of a file that no modification time is asked of
(`missed`), and a source that goes after its document was read, or comes after its
checksum (`torn`): 0 then stands for two states of the file. `sound` is that the last
update went well: one that failed stamps `last_build_time` all the same, and what
it failed to build is not missed until something is edited or checked in full;
`QuietMeansCurrent` speaks of updates that went well only.

### From letters to candidates: `Spellings`, `Lexicon`, `Sentences`, `Translations`, `Menu`, `Filters`

Pure algorithms in the order in which an input goes through them: the algebra and
the prism, the corrector and the syllable graph (`Spellings`); tables, packs,
blacklists and user dictionaries (`Lexicon`); the poet (`Sentences`); script and
table translator with their lazy translations (`Translations`); merging, Uniquifier and
pages (`Menu`); the other filters in any order (`Filters`). The state machines
only type a letter, turn a page or pass a candidate. `LookupProperties` says what each must
give in terms of the spellings of a dictionary, without graphs, queues or caches.

An iterator over entries has the entry that it has made of its first chunk as well as
its chunks (`entry`, the code's `entry_`): a filter makes it look, and `Skip` and the
further search of the table translator move the chunks without it. With a blacklist the
next step then goes over the first new word, which is never offered. The model does the
same, and `MenuOffersAll` is sure, of a table with a blacklist, only of the words by
exactly the code; the words to be completed that are on the menu must be found, but not
all that are found must be there.

The engine makes its filters under the name space `filter`, and `CharsetFilter::Apply`
then passes everything on; a prescription that ends in `@` leaves the name space
empty, and a table translator with `enable_charset_filter` wraps its own translation
(`OfTranslator`). `Filters` has the three. `AnnotatesOnce`, a part of `OffersFiltered`,
has preconditions. Codes that are not appended are there at most once in any order of the
filters. `append_comment` appends them at each look at the candidate: that they are
there only once then, and that every phrase on the menu has its codes at all, is said
of orders in which nothing behind the reverse lookup looks twice and no simplifier is
before it (`LooksOnce`). With a `charset_filter@` or a `single_char_filter` behind it the
code appends the codes twice, and so does the model.

## 3. The runs

| Run | Properties | What it shows |
|---|---|---|
| `typing` | MenuFresh, PagingFindsSegment | With candidates that match a part of a segment, typing, selecting, highlighting and taking back keep menus, ranges and selections together |
| `keyboard` | SegmentsTile, UpToDate, OneSegmentPastCaret, SelectionSurvives | All key handlers but those of Punctuator, and Selector's that page (they are in `typing`), in any order |
| `frontend` | CallReturns | API calls with any index, position or text, punctuation and the option that makes the engine recompose, under a schema without `fallback_segmentor`: the composition may stop before a character nobody takes, and every call still returns |
| `reopen` | ReopensUnedited, violated | see [5](#5-disagreements-between-the-code-and-what-it-says) |
| `work` (three parts) | *calls*: RecoveryIsSafe, QuietAfterFinalize, RunsTasksInOrder, DictionaryComesBack, LateTasksRun, CallReturns; *database*: TransactionsAreAtomic, OpensAsClosed; *encoding*: TakesLettersForward, EncodesEveryReading | The client's thread against the work thread; a database of every class with failures and crashes; five dictionaries collected row by row |
| `stranded` | NothingLeftToDo, violated | see 5 |
| `handler` | HandlerIsThere, violated | see 5 |
| `session` (five parts) | *words*: LearnsWords, OnlyBackSpaceForgets; *keys*: FeedsAreNotNested, ProcessorsFollow, RawInputEnds, KeyReturns; *switches*: MenuShowsOneOption, ChoiceIsSaved; *settings*: SelectionComesBack, SavesCustomizations; *configs*: UserConfigIsShared | Sessions that share a database keep the promise of `UserWords`; keys end and leave nothing behind; groups of options and their saved values; customizations and the user's config |
| `forget` | BackSpaceForgetsOwnCommit, violated | see 5 |
| `delete` | DeletesTheCandidate, violated | see 5 |
| `devices` | NoCommitCountsTwice, MergeTakesNothingAway, Converges | Synchronization between devices under late, cut off and repeated snapshots |
| `workspace` (five parts) | *documents*: ResolvesAsMeant, WriteIsLocal; *deployment*: DeployedIsCurrent; *lookup*: ReadsAsSpelled, FindsEntries; *menu*: MenuOffersAll, BestSentence, ExactFirst; *filters*: OffersFiltered | 30,885 sets of documents become what they mean, or do not link if what they need is missing; updates bring what is deployed up to date; inputs are read, looked up, translated and filtered as the data say |

The parts of a run have no variable in common: a variable `part` says which of
them a behaviour is about, and the others stay as they are. What they check is
the same as in runs of their own. A part's liveness needs its own fairness only,
since the steps of the other parts are never enabled in its behaviours. Because some parts stop
(a dictionary has been collected, a document written to), `work` and `workspace`
do not look for deadlocks; for the calls of `work`, `CallReturns` says that nobody
waits for ever.

### Bounds, and why they are enough

- *Composition*: two letters, of which one only begins a syllable (so that the
  speller's `initials` and `finals` decide something), an input of at most three
  characters and menus of at most two candidates (`typing`), or one (`keyboard`).
  Three characters give up to three segments: one before, one at and one behind the
  caret, or a selection, an edit and a segment to be reopened; two candidates are
  the least with a choice, an index out of range and candidates of different
  lengths. `frontend` has three punctuation marks, one that is confirmed at once,
  one that commits and one with a list of forms, a letter that, at the beginning
  of a segment, only the missing fallback segmentor would take, and an input of
  two characters: one that is taken and one that is not, in either order. The
  configurations differ in `Handlers`: all together would not fit, and a handler's
  interaction with the composition is with the handlers that edit before it, which
  each run has.
- *Threads*: two sessions, one database and a queue of at most four tasks. A
  maintenance or synchronization schedules three; the fourth place lets another
  task join a queue that is being worked on. A recovery is about one database;
  the proofs are for any set.
- *Learning*: two sessions, the first with a script and a table memory, the
  second with a script memory; one word and the phrases made of it, commits of
  one or two segments, counts up to two. The least in which two sessions, and two
  memories of one session, contend for a transaction, in which a word is
  committed after a deletion, and in which a phrase has parts. The words of
  `session` take no word to be a single character, `forget` and `delete` do: characters are handled
  by the table translators' memories as well.
- *Devices*: two devices with different histories (-2 on one, 1 on the
  other: signs and magnitudes disagree), one further edit or import, one mishap.
  The bound on edits is what lets `Converges` be stated: the user stops in the end.
- *Keys*: one letter, two chord keys with three chords (a letter, the space, two
  keys of which one confirms itself), one pattern, two bindings, one of which feeds
  the key that it is bound to, a switch key of either kind; two keys held at a time, an input
  of two characters, a stack of four calls (`MaxCalls`; that three suffice is proved).
- *Switches*: two schemas that have a group in common, which one of them makes
  larger, and a transient option: the least in which a schema finds a group as
  another one has left it. The proofs are for any.
- *Settings*: one slot for the settings of the switcher, four custom files
  (missing, broken, with a patch that appends, with a patch that is a list),
  two edits or saves of the file; two handles and three typed values, an int of
  four bits so that hexadecimal numbers wrap. The proofs are for any.
- *Databases*: two keys, one whose word begins like a comment, two values (in use
  and deleted), three updates. The proof is for any.
- *Encoding*: up to eleven rows, phrases of two to four characters of which some have
  several readings or splittings, a limit of four readings (the code's is 32), rules from both ends.
- *Deployment*: two schemas on one dictionary, one with two packs; one edit or
  removal of any file at any point. Versions only go up: that an edit restores an
  earlier content is not in the model, except that a file may be missing again. One
  configuration is cut off at a time (`FewCutOff`): `default` while there is no other,
  or the schema with packs, behind the first of its times. The proof is for any number
  of edits, schemas, dictionaries and packs, and for configurations cut off anywhere.
- *Lookup and menu*: two letters and a delimiter, inputs of four characters, three
  dictionaries (derived, fuzzy with abbreviations and corrections, and codes), five lists of
  translators, pages of two, and initial search limits of one, so that every
  lazy list is extended.
- *Filters*: four lists of filters, two of them those of the schemas that come with
  the program, and lists of four candidates of six kinds.
- *Configuration*: a document with three nodes, two of which take every pair of 71
  shapes: plain, or one of seven ways to include, append, merge and patch, each
  referring to one of ten targets (another node, a part of one, itself by a
  detour, another document, something missing). To these come documents with
  directives at the root; the second document is absent, plain or refers to
  itself, and the customization is there or not. Of the sets, 9,770 have a
  meaning, 11,873 need something that is missing and 9,242 are unsettled. One write
  (`MaxWrites`) reaches into content that is shared; keys write out no list index
  above 3 (`MaxIndex`), and no tree is as deep as `MaxDepth`, 12.

Where a bound cuts a counter (`MaxInput`, `MaxPending`, `MaxCount`, `MaxEdits`,
`MaxMishaps`, `MaxUpdates`, `MaxFileWrites`, `MaxTime`), the action that would
exceed it is not enabled.

### Fairness

- `Editor`: `WF(Engine \/ Resume)`. All of it runs on the caller's thread: a call
  that has begun goes on. Keys and API calls have none: a user may stop.
- `Service`: `WF(ClientContinues)`, `WF(Worker)`: the operating system runs both
  threads, tasks and the handler return. `SF(Lock("worker"))`: a thread that waits
  for the mutex gets it at last, though the client can take it again and again
  (`std::mutex` is not fair in the strict sense; implementations do not starve
  one of two threads). API calls have none.
- `UserDb`: none; its properties are safety.
- `KeyDispatch`: `WF(ProcessKey)`: a call of a processor returns. Keys and API
  calls have none.
- `ConfigCompiler`, `Switcher`, `Settings`, `Databases`, `Encoding`, `Deployment`
  and the algorithms: none; each action is one call or one step of it.
- `UserDictSync`: `WF(Synchronize(d))`: a synchronization goes on. `WF(StartSync)`
  and `SF(Transfer)` are assumptions about the user and about whatever carries the
  files, without which no program could make devices agree.

## 4. The proofs

Everything follows from the named assumptions on constants in the modules and
nothing else.

**Composition** (`EditorProofs`). `TypeOK` and
`SegmentsTile` are not inductive: whether the last segment can be trimmed,
reopened or closed at a candidate's end depends on the candidates. `IInv` is
that the segments are a *chain*: the first begins at 0, each where the one
before ends, none but the last is empty, all end inside `comp_input`, and every
candidate ends after its segment's start; with the ranges of the engine's
variables. The first section shows what each operation of `Segmentation` does
to a chain (AddSegmentChain, ForwardChain, TrimChain, ResetChain, CloseProper,
ReopenProper, ...); a lemma per operation of Context, per segmentor and per handler
follows. Results: `Invariance`, `TypeCorrect`, `Tiling`.
The alphabet, schema, candidates and their number are arbitrary.

`UpToDate` is about the moments between calls, and what makes it true happens
within them. `ProgressInv` follows the engine: the text that is being divided is the
beginning of the input up to the caret (`TextInv`); all segments up to the one
that is being translated have their menus (`Offered`, `Settled`); a round that
has not got beyond its start has asked all segmentors so far in vain
(`RoundInv`); and after the rounds the segments reach the caret or a character that
nobody takes (`ReachInv`). A call of the context either composes again from
segments that have been translated, or keeps them (`Composes`, `Keeps`); a lemma for every operation
and handler says which. Result: `ComposedWhenIdle`.

`SelectionSurvives` is a property of steps. That a selected segment stays would not
follow if it could be the last one, which the segmentors, Forward, Close and the
highlight change. `Open` is that it never is, for a selection is followed by
Forward or by a new composition. Forward does nothing behind an empty segment, so
that nobody may select one: an empty segment has no candidates (`Bare`). A call hands the engine segments in which the selected ones
are as they were, unless it reopens one (`Leaves`), and `ComposeStands` shows that
`Reset` keeps those which end before the change and the caret. A round of segmentors
changes none but the last segment, or the raw one before it that
`FallbackSegmentor` extends, and a translation none that is selected. Result:
`ChoiceSurvives`, of which `SelectionStands` is the step.

`PagingFindsSegment` is about what Selector finds when the engine has composed again
after a highlight: `comp.back()` is undefined if no segment is left. The danger is a
caret inside the input, where the highlighted segment, being past it, is
dropped and must be made anew. `RestTail` says when that can be: the engine goes past the
caret only if the user has selected everything before it, and then only some segmentor
that takes the next character (`Awaited`) or the raw segment of ascii mode gets it
there. `RoundTail` carries that through the rounds, `PagingInv` what has become of the
highlighted segment: it is there and its candidate with it (`Fine`), or the empty
one that takes its place follows a selected one (`Behind`), or no segment is there
yet and a segmentor waits for the first character (`Coming`). A segment that is selected is
never trimmed without an empty one put behind it, so that the last segment stays.
The handlers are asked only which of them comes back to set the tag (`KeyThen`).
Result: `HighlightedSegmentIsBack`, which needs no `fallback_segmentor`.

**Threads** (`ServiceProofs`). `IInv` adds to `TypeOK`: who is in `Notify` and
holds the mutex (`NotifyInv`: the mutex is held exactly by the thread that is
calling the handler), what a call has left to schedule (`CallInv`), that a
database is synchronized only by that task (`SyncInv`), and
`QuietAfterFinalize`. For `RecoveryIsSafe` the recoveries in the running task,
the queue and the call together (`Coming`) are distinct, and their databases
disabled and not open in a session (`RecoveryInv`): a recovery moves from the call
to the queue to the thread, which that concatenation does not notice. The
database that `Load` thinks of between its two looks (`loading`) is not disabled
by anybody else meanwhile, whatever the work thread does, and no thread is at work
while a call has a recovery to schedule (`AsksStep`), so that `user_dict_sync` has
nothing open then. Results: `TypeCorrect`, `Serialized`, `Quiet`, `SafeRecovery`, and
`InOrder`: every step schedules one task, finishes the first one or leaves
`Unfinished` as it is, so that `Service` implements `TaskQueue`.

**Learning** (`UserDbProofs`). `StepsOfTheDatabase` reduces every step to one of
a few things that it may do to `store` and `batch`: leave them, settle, settle and
begin anew, forget, delete. What the memories gather from segments and queues
does not matter to it, so that the fold over the segments is never expanded.
The invariant: nothing is in the batch outside of a transaction, and the counts
in it build on those of the store. Results: `KeepsThePromise` (`UserDb`
implements `UserWords`), `NothingElseForgets`, `CountsAreKept`.

**Devices** (`UserDictSyncProofs`). The counts in a database come from edits,
from merging and from snapshots, and those in a snapshot from databases: the
invariant `SyncInv` adds to `TypeOK` one bound for all of them, the restored
snapshot that is being merged included. Results: `TypeCorrect`, `CountsOnce`, `NothingTakenAway`.

**Keys** (`KeyProofs`). `FeedInv` relates the stack of calls to the flags of the
two processors that feed keys: every call but the last is there for the keys
that it feeds, and each processor feeds in one call at most, so that the stack
is three deep at most. `HeldInv` says which keys ChordComposer may take to be
pressed while the release of one is still on its way through the processors
before it. With the invariant of the context between updates (`Ready`) they are
inductive. Results: `NoNestedFeeds`, `ProcessorsAreInStep`, `RawInputIsForgotten`.

**Settings** (`SettingsProofs`). Of a slot: what it has loaded and customized adds
up to the patch that it would save, and what it has seen selected is what it has
(`AddsToPatch`, `SelectsSchemas`, `SelectsAsSeen`); of the file: it has the
selection that was saved (`ChosenInFile`). Of the user's config: an unmodified copy is
what the file has, and file or copy hold what was asked for (`ConfigsInv`). Results:
`SelectionReturns`, `CustomizationsSaved`, `ConfigIsShared`.

**Switches** (`SettingsProofs`). `MenuInv` is that, while the menu of the session's
own schema is open, of each of its radio groups exactly one option is on. Opening
or refreshing the menu leaves each group with its first option that is on, or the
first of all, and the rest of the menu does not undo that, since no two switches of
a schema have an option in common (`SwitchesAssumption`). Whatever else changes an
option closes the menu or replaces the schema behind it. What is saved of a group is
followed through the choice: afterwards it is what is shown, unless the option that was
on is chosen again and nothing had been saved (`StaysUnsaved`): the code then saves
nothing. That is the only exception, and it is in the statement. Results: `MenuShowsOneOptionAlways`, `ChoiceIsSavedAlways`.

**Deployment** (`DeploymentProofs`). `DeployInv` has three parts. What is deployed
tells what it is made of (`StampsTell`, `SumsTell`, `PacksTell`): if a stamp or a
checksum fits the sources now, it is made of them, because no version of a source
comes back but 0, for which there is `torn`; `Linking` and `Compiles` say
the same of what the running task has read, between reading and writing. An update's
`Progress`: with no edit and no failure since it began, the schemas that it has
finished with are in accord with the sources (`DoneAgree`, `ConfigsAgree`), the one
it works on as far as it has come (`JobAgrees`), and the packs have been made for
the syllables of their dictionary (`PacksBuilt`); what is done for later
schemas leaves that so, which for dictionaries shared by schemas takes that a
second compilation finds nothing to do. Where a configuration is cut off these say
nothing of what depends on it, and a cut off `default` ends the update. And `Quiet`: after a sound update that missed nothing,
no edit is unseen by `DetectModifications` (`NothingToDo`). Result:
`DeployedIsCurrentAlways`. `DeploymentAssumption` has each schema once, as
`WorkspaceUpdate::Run` skips those that it has built (`deployment_tasks.cc:193-203`),
and excludes workspaces in which a dictionary is also a pack or a pack is used with two
dictionaries: there each schema would rebuild that table in turn, and
`PacksFitDictionary` does not hold.

**Databases** (`DatabaseProofs`). Between steps the file has the updates that
were to be put there (`stored`); a batch is filled in a transaction only, and what it would
give the file is `intended`, so that a commit puts all of a transaction there and anything else
none of it (`BatchInv`); a text
that has not been modified since it was read or restored is the one on disk, and a table has no
deleted words there (`TextInv`). Results: `TransactionsAtomic`, `ClosedAsOpened`.

**Only model-checked.**

- Liveness (`CallReturns` of both, `KeyReturns`, `DictionaryComesBack`,
  `LateTasksRun`, `Converges`), which is out of the prover's reach.
- What recursive algorithms compute: `ResolvesAsMeant`, `WriteIsLocal`,
  `ReadsAsSpelled`, `FindsEntries`, `MenuOffersAll`, `BestSentence`, `ExactFirst`,
  `OffersFiltered`, `EncodesEveryReading`, `TakesLettersForward`. They are
  induction over data, and their modules declare `RECURSIVE` operators.
- `OneSegmentPastCaret`: that the segments stop behind the caret.
- `MenuFresh`, which is not true of every schema. It holds in its run (`typing`), where
  the caret stays at the end of the input. With Esc and Punctuator menus do get stale
  (`reopen`), and with Navigator too, though all its keys mark the selection before
  they move: behind a selection that is marked BackSpace edits the text of an
  earlier one that is not, and selecting a segment past the caret puts the caret at the
  end of the input (`OnSelect`) without marking it. TLC, led along these keys, gets
  there with five letters typed, more than an exhaustive run has room for.
- `UserDbProperties!TypeOK` as a whole, since the types of the queues need
  induction over `FoldLeft`.

## 5. Disagreements between the code and what it says

Five runs check what a comment or the documentation says and find it violated.
`PROJECT.json` quotes the lines.

1. `reopen`: "do not reopen the previous selection after editing input"
   (`context.cc:231`) relies on a tag that only `BeginEditing` sets. Esc and the
   keys of Punctuator edit without it; BackSpace then reopens a selection with the
   candidates of a text that is no longer there.
2. `stranded`: "before quitting, double check if there is nothing left to do"
   (`deployer.cc:100`). A task scheduled after that check and before the future is
   ready is run by nobody, until some later call starts work. `LateTasksRun`
   is what does hold.
3. `handler`: "when handler is NULL, notification is disabled" (`rime_api.h:280`).
   `Notify` looks before it locks, and clearing does not lock: the work thread may
   call an empty function, and the exception surfaces where the thread is joined.
4. `forget`: "cancel memorizing newly committed phrases that has been immediately
   erased" (`CHANGELOG.md:882`). With several memories on one database, BackSpace
   may take back another memory's words and keep those that it should forget.
5. `delete`: "delete a candidate at the given index" (`rime_api.h:482`). With two
   memories on one dictionary the second deletes the candidate that takes the
   deleted one's place.

## 6. What is left out

- *Composition*: the content of candidates, preedit, commit text, prompts and
  commit history; punctuation in pairs and digit separators; `extra_tags`;
  auto_select and auto_clear of Speller (so that whoever confirms a selection commits
  then); the type of the candidate that Punctuator looks at (it may or may not be
  punctuation); where syllables end (any position may be
  jumped to); page sizes (any index may be moved to).
- *Threads*: what messages say and how many tasks succeeded; `RunTask` on the
  caller's thread beyond its effect on `RimeStartMaintenance`. The client has one
  thread and calls the API between initialization and finalization, its handler
  returns and calls nothing; files are damaged from the start or not at all; a
  synchronization opens each database once (`UserDictSync` has what it does then).
- *Learning*: ticks and weights (they order candidates), failing writes, read-only
  databases, sentences as such, the encoder of table translators,
  `core_word_length` and `max_word_length` other than their defaults.
- *Devices*: ticks, sessions' transactions, lines that are cut in the middle
  (every line is flushed as a whole), legacy databases, metadata made anew,
  exporting. A session that opens a dictionary during a synchronization counts as
  a mishap, since the service is disabled then unless a recovery was running when
  the synchronization was asked for.
- *Keys*: labels, names of keys and their parsing; what Speller, Selector and
  Editor do beyond ending, extending and confirming a composition (`Editor` has it).
- *Switches and settings*: labels, hotkeys, notifications, what is said of an
  available schema. Saving a custom file or `user.yaml` is all or nothing there, and so
  is the text of a database in `Databases`; the code writes over them in place
  (`config_data.cc:84-96`) as it does over configurations, of which `Deployment` has
  what is left when that is cut short.
- *Deployment*: of a configuration that is cut off only its times of writing, the rest being
  lost (the code may find more of it there); the layout of binary files, `installation_update`, backups of
  configurations, the trash, links, dependencies of schemas; checksums do not collide.
- *Lookup to filters*: grammar and contextual translation (plugins), the
  translators other than script and table, regular expressions (functions on strings),
  the content of OpenCC dictionaries, iconv charsets.
- *Configuration*: the plugins other than the automatic patch (presets of schemas),
  reading and writing YAML, the
  `.schema` suffix. A resource that has no file but a customization is found by the
  second reference to it and not by the first, and `@before` of an element edited
  by two keys inserts twice; neither is among the documents.
- *Components that no module models* are in `PROJECT.json` with the reason: tables
  and parsing of keys, registries that are
  filled before a session exists, command-line tools, pure string formatting.

## 7. The plan

Done, in this order, the most important behaviour first: the composition
(`Segmentation`, `Context`, `Editor`), the threads (`Deployer`, `Service` over
`TaskQueue`), learning (`UserDb` over `UserWords`), devices (`UserDictSync`),
configuration (`ConfigData`, `ConfigCompiler`), keys and options (`KeyDispatch`,
`Switcher`), deployment, lookup and candidates, databases, encoding, filters and
settings. Theorems on all of them but the recursive algorithms.

To come:

- Speller's auto_select and auto_clear, pairs and digit separators of Punctuator,
  AffixSegmentor and Matcher in `Context` and `Editor`. AffixSegmentor moves a
  segment's end without its length, a hazard for `MenuFresh`.
- The text of a commit: `GetCommitText` of segments whose candidate matches a part.
- `MappedFile`, which grows and moves while offsets point into it.
- A run of `MenuFresh` with Navigator that leads TLC along the keys of §4, *Only
  model-checked*.
