# TraceMantle in TLA+

A verification development of `src/src/tracemantle`: TLA+ modules for the parts
of TraceMantle that keep state or take decisions, TLC configurations that check
them on small instances, and TLAPS proofs for every instance.  Paths below are
relative to `src/src/tracemantle` unless they start with `docs/`.

## 1. The system

TraceMantle looks at agent skills: a directory with a `SKILL.md`, linked
documents and scripts (a *bundle*).  It validates a skill, and it decides
whether a changed bundle may be released on evidence that was collected earlier.
Every invocation is one short-lived process; what lasts lives in files.  Nothing
is locked.  Several processes, editors and CI jobs may touch the same files.

| component | state it keeps | operations | talks to |
|---|---|---|---|
| content store (`storage.py`) | immutable objects named by their digest | `put_bytes`, `put_record` | import, history, migration |
| release comparison (`comparison.py`, `product_commands.py`) | none; reads manifests, records, policy | `compare` | bundle, dependencies, policy, approvals |
| bundle manifest (`bundle.py`) | none; reads a directory | `create_manifest` | dependencies |
| dependency analysis (`dependencies.py`) | visited, expanded, ancestors, edges of one search | `analyze_dependencies` | markdown parser |
| trusted policy (`policy.py`) | a file of a fixed git commit | `load_trusted_policy` | git |
| approvals, signatures (`approvals.py`, `signatures.py`) | sidecar files | `verify_approval` | ssh-keygen, minisign |
| evidence import (`product_commands.py`, `adapters/`) | objects in the store | `import-evidence` | content store |
| run history (`history_store.py`) | immutable run records | `append_history`, `comparable_runs`, `migrate_legacy` | content store, legacy ledger |
| legacy ledger (`core/history*.py`) | one JSON file per skill | `load_ledger`, `append_run`, `save_ledger` | - |
| validation pipeline (`commands.py`, `core/`) | diagnostics of one run | `run_validation` | rules, ingest, history |
| command line (`cli.py`, `modes.py`, `config_loader.py`) | flags | dispatch | all |
| capability graph (`core/graph*.py`) | nodes and edges of one document | extract, analyse | validation |
| rules (`rules/`) | none | pure functions of one text and the settings | validation |
| agents (`agents/`, `core/semantic.py`) | none | prompts, `--ingest-graph`, `--ingest-critique` | validation, capability graph |
| text analysis (`parser.py`, `markdown.py`, `formatters.py`) | none | pure functions | validation |

What is hard about it:

* *Concurrency without locks.*  Writers race on one digest name; editors change
  a bundle while it is hashed; the legacy ledger is read, changed and replaced.
* *Crashes.*  A process may die between two system calls; the machine may lose
  power with a directory that was not written back.
* *Stale evidence.*  A record made for one bundle is reused for another.  The
  digests, the dependency closure, the policy, the clock and the approval all
  have to fit, and they are read at different moments.
* *Conflicts.*  Several accepted records may disagree.
* *Limits.*  The dependency search and the closure in the comparison have depth
  limits of their own.
* *Answers from elsewhere.*  An agent's answer is ingested by another process than
  the one that asked, and nothing binds it to the text it was asked about.
* *Settings from many places.*  A command line, up to three files per directory and
  several targets must give every skill of a batch the settings it would have alone.

The full list, with the line where each bites and the properties that would
catch it, is under `hazards` in `PROJECT.json`.

What makes each component correct:

* content store: a digest name never refers to anything but its whole object; an
  acknowledged object is there; nothing is replaced; a call that returns has
  removed its temporary file; every call ends.
* release comparison: a pass rests on authorised, fresh, matching evidence for
  the very files that are named in the report; reuse only where nothing a record
  depends on has changed; a failure cannot be outvoted; records nobody authorised
  decide nothing; strictness only withholds.
* dependency analysis: "complete" means that the closure was seen whole, in any
  order of links; a defect-free bundle is not refused; cycles are found.
* evidence import: all records of an export or none are accepted; records have sources
  unless a power failure takes them; what a report says is in the store is there; the
  bundle is not written to; no output file is replaced.
* legacy ledger and migration: the file is whole; only overlapping writers lose
  runs; migrated records name the right run of the preserved copy, once.
* validation with history: no record is lost, records agree with exit codes, a
  regression against an earlier record is reported, one that is reported is real but
  for files edited between their validation and their naming, and history never turns
  a failure into a success.
* command line: what an accepted command passes over is known; every skill is judged under
  the settings of its own project; strict flags only tighten.
* capability graph: findings name the line they are about, quoting one more name
  never brings a new finding, the tool agrees with an agent that says the same, and
  a reported contradiction is one.

## 2. The modules

```
ImmutableStore  <-- implemented by -- ContentStore            storage.py
      ^ INSTANCE
      +---- EvidenceImport                                    product_commands.py
      +---- ValidationRuns                                    commands.py, history_store.py
      +---- HistoryMigration -- EXTENDS --> LegacyLedger      history_store.py, core/history_io.py
ReleaseGate -- EXTENDS --> Gate                               comparison.py, product_commands.py
DependencyAnalysis                                            dependencies.py
SkillReview -- EXTENDS --> AgentResponse                      commands.py, agents/, core/semantic.py
                 `-- EXTENDS --> CapabilityGraph              core/graph.py, core/graph_analyzers.py
Invocation -- EXTENDS --> Modes                               cli.py, commands.py, modes.py
      +------ EXTENDS --> Settings                            config_loader.py, cli.py
      `------ EXTENDS --> SkillRules                          rules/
```

`MC...` modules hold the values a configuration gives to constants, and nothing
else.  `...Proofs` modules hold theorems.  A definition whose comment starts
with *slip* is a definition of the same module with a plausible bug; no
specification uses it, and `PROJECT.json` says which property notices it.

Two abstractions are common to all modules.  A digest is represented by what it
is the digest of, so SHA-256 is taken to be free of collisions.  A conversion
between a record and its canonical JSON is left out; that a stored file may be
*no* record (damaged, foreign, torn) is always a case of its own.

### ContentStore and ImmutableStore

One action per system call of `put_bytes` (`storage.py:76-94`): `OpenTemp` (`mkdir`,
`mkstemp`), `Write` (in `Size` pieces), `Fsync`, `LinkTarget` (`os.link`),
`CompareExisting` (the `FileExistsError` branch) and `UnlinkTemp` (the `finally`).
`OpenFails`, `CallFails` and `UnlinkFails` are the exceptions each call may raise;
where the `unlink` of the `finally` raises, the call ends with an error although its
object may be there, and the `.pending-` name stays (`stuck`).  `link` is the
directory, `data` and `synced` are the inodes; the temporary and the target name are
links to the *same* inode until the former is removed.  `dirty` holds the names that
the directory has not written back: the code never asks for that, so `FlushDirectory`
belongs to the operating system and `Outage` may take any of these names away and cut
any file that was not fsynced; it may also bring back `.pending-` names whose removal
was not written back (`erased`).  `Kill` runs no `finally`.  The initial store may
hold damaged files.

`ImmutableStore` is the promise: whole objects appear at once, `acked` is a
subset of them.  The refinement mapping keeps `acked` and maps `objects` to the
payloads whose name refers to their whole content.

### Gate and ReleaseGate

`Gate` is `comparison.py` as operators on one `input` record: `Compatible` has a
conjunct for each group of rejections in `_compatible`, `CheckState` and
`Verdict` are the two halves of `compare`.  It has no variables, so each operator
can be reasoned about alone.

`ReleaseGate` is one `tracemantle compare` and what leads up to it.  The world:
editors (`Edit`), a new baseline (`Promote`), observers who leave records (`Observe`),
maintainers who commit policy revisions (`Trust`, `Revoke`, `Amend`), signers and
automation (`Sign`, `Approve`), the protected scheduler (`BeginRun`), the clock
(`Tick`).  An `Envelope` is what `approval_envelope` makes: the approval of a record
under a policy, within a run, until it expires; anybody can leave one beside a record,
and only a genuine one has a key's signature.  The command reads at three different
moments: `HashBundles` (policy commit, the run of the command line, baseline, file
hashes), `AnalyzeReferences` (the documents are opened again for their links; then the
clock), `LoadEvidence`, `RefuseSidecar` or `LoadFails` (the records and their
sidecars; an approval that does not bind, a file that cannot be read and a signature
tool that is missing or fails each end the command with exit 2).  `Decide` reads
nothing.  The world may move between any two of them.  The reading of the clock is
part of `AnalyzeReferences`: whatever happens between the two, except for edits, does
not touch what the first one reads, and edits do not look at the clock.  `Binding` is
the body of `verify_approval`.

### DependencyAnalysis

`analyze_dependencies` is a depth-first walk.  One action per outcome of one
reference (`Uncertain`, `Escape`, `Overflow`, `Mention`, `Cycle`, `Broken`,
`Known`, `Refuse`, `Garbled`, `Expand`), `Pop` takes the next document from the
stack, `Finish` is the second pass over the asserted edges.  The documents are
fixed during a walk; that they may not be is modelled in `ReleaseGate`.  The
properties compare the result with reachability over the documents themselves.
`RoundsSuffice` relates it to the rounds of `comparison.py:104`.

### EvidenceImport

`import-evidence` with `main`'s handling of `--output`.  `Hash` manifests the
bundle, `Accept` or `Reject` judges the whole export, `Publish` and `Acknowledge`
put the export and then its records, `PrintReport`, `RefuseOutput`,
`LookForOutput`, `CompareOutput`, `CreateOutput`, `FillOutput` are the steps of
the output file.  What an adapter makes of an export is a constant.  Reading the
export, adapting it and comparing its records is one step: nothing that another
process writes is read in between.  The store is `ImmutableStore`, so `Outage`
uses what `ContentStore` was shown to guarantee and no more.

### LegacyLedger and HistoryMigration

`append_run` is `Load`, then `save_ledger` as `WriteTemp`, `SyncTemp`, `Replace`.
There is no lock, so writers overlap; `GiveUp` is an error or a kill, `Delete` the
user who follows the advice of an error message, `Outage` a power failure around a
rename that was not written back.  `met` and `excused` are history: which calls
overlapped another one.

`HistoryMigration` extends it with `migrate-history`: `LoadSource` and
`ReadSource` read the *same name twice*, then the copy and one record per run go
to the store.  `PowerFails` is the outage of the ledger and of the store at once:
`sources/` and `records/` are two directories that nobody fsyncs, so any names in
either may be gone (`lost`), in no order.  `grown` is history: while the machine was
up, the ledger only ever had runs added to it.

### ValidationRuns

`tracemantle SKILL... --history`, several processes at a time.  `Validate` parses the
skills, runs the rules, merges agent responses and graph findings and filters; then,
per skill, `Identify` or `IdentifyFails` reads the bundle *again* to name it,
`ReadHistory` compares with earlier records, `Publish`, `Recorded` and `WriteFails`
are `append_history`, and `Report` computes the exit code.  `PassOver` skips a skill
that could not be parsed, `RefuseBatch` is the refusal of one response for several
skills.  The world: `Edit`, `Damage` (a file that is no record comes into a history),
`Kill`; a power failure would end every run at once, and a later run keeps nothing of
an earlier one but the records, so it is left to `ContentStore`.  What the rules find
is a constant (`Found`), a function of the text, the other files and `--strict`;
`SkillRules` says what that function is. Parsing a batch is one step.  `validated` and
`edited` are history, for `RegressionTrue`: which files a process has validated, and
whether they were edited before it named them.  The code records a run under what
`Identify` reads (`commands.py:481`), so in that window a run may be recorded under
files that it never looked at; what a reported regression then still says is that the
same `SKILL.md` passed.

### CapabilityGraph, AgentResponse and SkillReview

`CapabilityGraph` has the documents as sequences of lines, each as the regular
expressions of `core/graph.py` see it, and `extract_graph_heuristic`, the checks of
the `CapabilityGraph` constructor and the analyzers as operators.  `AgentResponse`
is what an agent may answer and which answers are accepted: the text around the
JSON value, its fields and their types, the bounds, and for a graph whether its
lines lie in the body of the document *as it is now*.

`SkillReview` is an author, an agent and the tool.  The author adds, cuts and
edits lines (`AddLine`, `Cut`, `Quote`, `Describe`, `Break`), asks for a prompt
(`Ask`), the agent replies to *that* text (`Reply`), and the tool analyses or
ingests what it finds (`Analyze`, `IngestGraph`, `IngestCritique`).  The author may
edit between any two of these.

### SkillRules, Settings, Modes and Invocation

`SkillRules` has the rules of `rules/` as operators: one per rule, from what the
rule looks at in a text to its identity and severity.  `Settings` is the search for
settings files, their layers and defaults; beside any `[tool]` table the keys of the
file itself do not count (`config_loader.py:163`).  `Modes` is `find_mode_conflict` and the
dispatch in `main`.

`Invocation` is one command: `Search`, `Load`, `LoadAgain` and `NextTarget` read the
settings of one target after the other, `Settle` puts the command line over them and
refuses, `Collect` walks the directories, `Confirm` searches the settings files of
each skill *again*, then `ShowHistory`, or `EmitOne` and `Emitted`, or `JudgeOne` and
`Judged`.  The editor (`Reconfigure`, `Rewrite`) may save a settings file or a skill
between any two of them.  `Parsed` is where `MAX_SCAN_BYTES` ends the reading of a
batch.  Exit codes, ignored prefixes in a report and history are
those of `ValidationRuns`.

## 3. The runs

| run | shows | distinct states |
|---|---|---|
| `store` | `put_bytes` per system call implements `ImmutableStore`; readers see whole objects; nothing is replaced; every temporary name is accounted for; calls return | 115,083 |
| `gate` | one comparison in four scenarios: records of the baseline reused with edits before and between the readings; allowlist, signatures and approvals that come and go meanwhile; records that disagree; approvals of two runs, signed or not, in time or expired | 405,404 |
| `dependency_walk` | the walk against reachability, for every set of documents of the instance | 318,899 |
| `import_records` | two imports of good, mixed, foreign and malformed exports with one output file | 1,559,088 |
| `migration` | unlocked writers on one ledger beside migrations, a deletion and power failures | 1,195,574 |
| `validation` | two validations with history, of one or two skills | 3,960,171 |
| `skill_review` | a document written line by line, analysed, and reviewed by an agent whose answers may be late, exact, over-claiming or malformed | 327,192 |
| `invocation` | commands over several targets, settings files in several places, every pair of modes, every kind of rule, with an edit at any moment | 305,274 |
| `gate_loose`, `dependency_depth`, `migration_complete`, `extraction_ends` | the four divergences of section 5 | (stop at the violation) |

### Bounds, and why they are enough

* `store`: two writers, two payloads, two files, two writes per payload.  Two
  writers of one payload race on its name; with two payloads a file is reused
  after a crash; a payload of two writes can be cut in the middle.  The proofs
  cover any number of each.
* `gate`: one bundle of three documents, for a dependency of a dependency, and a
  program.  One or two checks, so that a required and an optional one
  may differ.  `MaxRecords`: two records are needed for a conflict.  `MaxEdits`:
  one edit between the hashing and the second reading, and one that came earlier.
  `MaxNow` is 2: an age limit of 1 and an approval of one tick can both be passed, and
  `Lifetime` 2 lets an approval reach beyond it.  Two runs are needed for a replay.
  `MaxRounds` stays 32; `Skew` is 0 since a clock never runs back here.  Strict
  comparisons are looked at where records disagree.  Each of the four scenarios opens one
  dimension and bounds the others, because their product is out of reach; the
  theorems of `ReleaseGateProofs` have no such bound.
* `dependency_walk`: four documents, a leaf, a missing and an outside target,
  `Limit` 3 and `MaxFiles` 4 in place of 32 and `MAX_SCAN_FILES`, so that both
  limits bite on some documents and not on others.  Three documents link to each
  other in any way (up to two references each), which includes self loops and
  cycles across branches; a fourth is there for layered documents of up to three
  references in any order.
* `import_records`: five kinds of exports, two versions of a bundle, two processes.
* `migration`: three writers with two runs each, so that a writer can overlap with two
  calls that do not overlap each other, and power failures, while nothing has been
  migrated; then two of them with one run each beside two migrations, until a power
  failure takes one object away, after which one migration is repeated and nobody writes
  (`Scope`).  One object is enough: a record without its source.
* `validation`: two processes and two skills; `a` has one text with either of two
  other files, and a text that cannot be parsed, so that what is validated and what is
  named may differ in each way; `b` is the other skill of a batch and stays as it is;
  six command lines, one for each way a response, a batch, `--strict`,
  `--fail-on-regression` and `--ignore` can meet.  `MaxRecords` is 1 in place of
  10000, so the limit is passed.  `Inside` is empty: see section 6.
* `skill_review`: bodies of up to four lines, or one of four begun documents and a
  line more, from nine kinds of lines: sections of every class at two depths, a
  hidden one, an item declared twice.  Prompts are for bodies of up to two lines or
  the begun ones, and the text is one edit away when the answer comes.  `MaxNodes` is
  4 in place of 10000.
* `invocation`: two skills in one project, a third elsewhere, a fourth in a directory
  that no walk enters, `MaxFiles` 2.  Settings may lie in each of the three files of
  the project, or in a nested one; pairs of modes are complete; texts cover each rule
  at least once on either side of its threshold.  `MaxBytes` is 4 and the texts are of
  size 2 or 3, so that what is left of it is enough for the second text of a batch or
  is not.  One edit at any moment.

Symmetry is used only for processes, which the specifications treat alike, and
never in the run that checks liveness.  Deadlock is checked except where a system
really stops: a command that has answered, a walk that has ended, processes that
ran once.

### Fairness

Only `store` checks liveness: `PutReturns`, every `put_bytes` call ends, also the
one that meets a damaged object.  It assumes weak fairness of `Proceed(w)` for
each writer: a process that is not killed executes its next system call.  This is
ordinary scheduling.  Failures, kills and outages are not assumed to occur, and
nothing is assumed about other writers: `put_bytes` has no loop and waits for
nobody.  No other property is a liveness property, since every other command is a
straight line through the same kind of calls.

## 4. The proofs

Each invariant that is proved follows from an inductive invariant of its module,
by `Init => IInv`, `IInv /\ [Next]_vars => IInv'` and `IInv => Inv`; TLC checks
the properties on small instances as well.

* **ContentStore.**  `IInv` adds to `TypeOK` how far each writer is: its file is
  private until it is linked, holds what it has written so far, and is whole and
  synced from the moment it may be linked; published files are synced, which is why
  an outage cannot cut one.  From it: `TypeCorrect`, `ReadersSeeWholeObjects`,
  `AcknowledgedIsStored`.  `CallsCleanUp` adds that the `.pending-` names are those of
  the calls at work, of `orphans` and of `stuck`, and that a call ends well only by
  `UnlinkTemp`.  `ObjectsAreImmutable` is an action
  property from the same invariant.  `Refinement` maps each step to a step of
  `ImmutableStore` or to a stutter: `LinkTarget` publishes, `UnlinkTemp`
  acknowledges, `Outage` is an outage.
* **ReleaseGate.**  The first lemmas are about `Gate` alone, what the decision does
  whatever leads up to it: a pass needs a passing compatible record for each required
  check (`VerdictPasses`), one failing record makes a failure (`VerdictFails`), a
  record is judged without regard to the others (`JudgedAlone`).  `GInv` says that
  what the command has read is well formed and has a `SKILL.md`, that nothing counts
  as signed which was not signed, nor as approved (`Approved`) without an approval
  that binds it to the policy, the bundle and the run, and that its answer is the
  verdict on its input.  From these: `PassNeedsEvidence`, `FailureIsNotHidden`,
  `FailureStays`, `StrictWithholds`, and `SelfReportsHaveNoSay`: what the command
  answers for all records is what it answers for the authorised ones, but for approval
  files that do not bind. `ClosureStays` compares two closures of different reach:
  `comparison.py:104` adds the targets of recorded edges round by round,
  `ClosureUnchanged` asks for everything the edges lead to.  `LayersClose` shows that
  the rounds stop growing within as many rounds as there are paths, so the theorem
  assumes `Cardinality(Paths) <= MaxRounds`, which is 32 in the code; beyond it the
  property is false, as `dependency_depth` shows (section 5).  It needs `Manifested`
  besides: records and candidates have the digests and edges of manifests that were
  taken.
* **DependencyAnalysis.**  `DInv` has `ReadOnce` and `Progress`: while the walk
  still counts as complete, every reference before the current position of a
  document that was taken up is an asserted edge to a known target, and every
  document that was marked is finished, at hand or on the stack.  When the stack is
  empty this is `ClosedUnderLinks` (`CompleteWalksAreClosed`).  The other three
  properties compare the walk with `Leads`, the least set that is closed under the
  links.  `WInv` adds that the ancestors of a document lead to it by asserted edges
  (`Ancestry`), that a reported cycle is one of asserted edges and a finished walk within
  `MaxFiles` has reported each (`CycleFound`, `CycleTold`), that a complete walk has no
  errors (`ErrorsTell`), that what was taken up is reachable from `SKILL.md` (`Reading`),
  and that the walk of a sound bundle is complete at every moment (`Untroubled`).
  From it `CyclesAreReported`,
  `SoundBundlesAreComplete` and `CompleteWalksAreExact`, for any finite bundle and any
  limits.
* **EvidenceImport.**  `Stage(i)` says what a process at each step has achieved:
  an accepted export, the first `next[i]` objects of it stored, and all of them
  once it reports.  From it `RefusedExportsLeaveNothing`, `SourcesComeFirst`,
  `ReportsHold` and `BundleUntouched`, which no run repeats.  `OutputIsKept` needs
  `OneWriter` besides: the process that writes the report has created the file, and no
  other one is writing.  `ImportUsesStore`: publishing and acknowledging are those of
  `ImmutableStore`, every other step leaves the store alone.
* **LegacyLedger**, in `HistoryMigrationProofs`.  `LInv` has the unexcused runs in
  every ledger that a writer has read (`KeptRead`), that writers which are at work
  together know of it (`Met`), that nothing reaches the name before it was fsynced
  (`Flushed`), and the order of a writer's runs in every ledger in circulation
  (`Numbered`, `Built`).  `SingleWriterLosesNothing` is the claim of the module's
  header, for one writer: nothing that was saved is lost.
* **HistoryMigration.**  `MigrationOnlyReads` shows that the composition implements
  the ledger's own specification, so the theorems about the ledger carry over.
  `GrownInv` has the parsed ledger as a prefix of the preserved bytes, which makes the
  labels right (`LabelsHold`) and leaves one record per run however often a ledger is
  migrated (`NothingTwice`, which no run repeats).  The condition `grown` is not
  empty: `SingleWriterOnlyAdds` shows that it holds always with one writer and no
  deletion.  `SourcesComeFirst` is about names in two directories, of which a power
  failure may take any: it accounts for those in `lost`.  `MigrationUsesStore` maps
  the copy and its records to `ImmutableStore`.
* **ValidationRuns.**  `VInv` adds to `TypeOK` where a process is (`Where`) and what it
  has found, recorded and labelled (`PInv`) of the skills it is `Behind`: nothing that
  is ignored is among its findings, a history it could not read is, its own records
  are of skills it has passed and hold the code of what it had found, and a reported
  regression still has its witness.  Another process changes nothing of this but by
  adding records.  `NInv` adds that records and labels are `Truthful`: what they name is
  what was validated, unless it was edited in between, and then at least the same
  `SKILL.md`.  From it: `RecordsKept` (which no run repeats), `RegressionIsReal`,
  `MalformedFails`, `HistoryHasNoSay`, `RecordsTell`, and for skills of which none lies
  in another `RegressionIsSeen`.  `HistoryUsesStore` maps recording to
  `ImmutableStore`.  `RunAssumption` has each path of a request once, as
  `commands.py:132` leaves them.
* **SkillReview.**  `SInv` says that what the tool reports is a function of the
  document and the answer it has read (`AnalysisOf`, `GraphReviewOf`,
  `CritiqueReviewOf`) and that both are well formed; the rest are facts about these
  functions, for documents of any length.  `QuotingOnlySilences` shows that a name more
  in backticks leaves the sections and the nodes alone and only adds edges, and that each
  analyzer only looks for the *absence* of an edge.  `LinesAreRight` and
  `ContradictionsHold` follow a finding back to its line and to the node it is about.
  `EchoesAgree` follows a graph out, as an answer, and in again: the answer is accepted
  (`EchoAccepted`), what it carries has the nodes and edges of the extraction under other
  ids (`EchoPlaced`), and renaming changes no finding (`SameFindings`).  It assumes
  `MaxNodes <= MaxItems`, both 10000 in the code (`_ingest.py:34`, `io_limits.py:197`).
  `TypeCorrect` assumes `AnswersAreWorded`: what agents answer is made of the words of the
  model.  The other three assume nothing.
* **Invocation.**  `CInv` has the `Stages` of a command, that its settings were
  `Agreed` with its modes before it was dispatched, that its `Answer` is that of its
  mode, and that what it `Said` of a text is what the rules find in it.  From it
  `MeaningIsOne` (by the facts about `Modes` that end in `NothingElse`) and
  `StrictFlagsTighten`; the latter rests on `StrictTightens`, a fact about the rules
  for every text and all settings.  `TInv` is `TypeOK` with what settings files and
  texts are `Formed` of (`TypeCorrect`). `OwnSettingsHold` needs `OInv`: as long as
  nobody changes settings, what is loaded and what is still `todo` make up the files
  of the first target (`Loading`, `Settled`), and every skill that is past the
  confirmation has the very same files (`Confirming`).  The rest is about the search:
  `SearchFindsNearest` (it ends at the nearest directory that has files, or finds none
  and there is none) and `LayersSay` (the files of a directory, merged in the order of
  the code, say what the strongest layer says).

Reachability, the search upwards and the rounds of the comparison are recursive.  Where
a theorem needs what they compute, it is shown in two parts: that the recursion has a
solution, by writing one down (`IterationExists`, `LayersDef`, `UpsRise`,
`SearchRises`), and then by well-foundedness, for finite sets of the strict subset
relation, for directories of `DirsAssumption`: whoever goes up comes to a directory that
stops the search.  A real tree of directories has that by its root.

Assumptions are the named `ASSUME`s on constants, which state that sentinels
differ from data, that bounds are numbers, that bundles are finite and what settings
files, texts and command lines are made of, and nothing about behaviour; TLC
evaluates them in the runs.  `SingleWriter...` also assume one writer, and
`ClosureStays`, `EchoesAgree` and the `TypeCorrect` of `SkillReview` what is said above.

Model-checked only: `PutReturns`, a liveness property under fairness, which is out of
the prover's reach; and the four counterexamples of section 5, which are what they are.
Every other property of a run is stated by a theorem.

## 5. Where the code and its documents differ

Each is a run that TLC ends with a counterexample.

1. `gate_loose`.  `docs/evidence-workflow.md:119`: "Changed declared inputs and
   their Markdown dependency closure invalidate old results."  The dependencies
   start at `SKILL.md` alone (`dependencies.py:113`).  A declared input that
   `SKILL.md` does not lead to has no edges, so a change in a document *it* links
   to leaves the old result valid.
2. `dependency_depth`.  The same sentence, for documents `SKILL.md` does lead to.
   A document is expanded where it is first met, with the ancestors it has there.
   If `SKILL.md` links to middle documents of a long chain as well as to its
   start, no walk is too deep, but the end lies more rounds from the first
   document than `comparison.py:104` goes.
3. `migration_complete`.  `docs/migration.md:32`: "Migration validates the complete
   ledger, preserves its original bytes".  The two reads may see different files,
   so the preserved bytes may have a run that was not validated and has no record.
   `LabelsAreRight` says what still holds.
4. `extraction_ends`.  `CHANGELOG.md:144-145`: "`--analyze-graph` no longer crashes on a
   repeated tool", and such modes "no longer surface a traceback on a file that plain
   validation handles cleanly".  An item below a heading of inputs that lies inside of
   another section of inputs is an input of both, with the same kind, name and line and
   so with the same id; the constructor (`core/graph.py:450`) raises `ValueError`, and
   only `GraphLimitError` is caught.

Smaller ones that no run shows, each read from the code:

* A malformed `pyproject.toml` beside a nested skill ends a batch with a traceback:
  `resolve_paths` (`commands.py:137`) searches the settings of each skill outside of
  the handler that the targets have.  `docs/contracts.md` ("The 1.6.1 fixes") promises an
  error envelope with exit code 2.
* `pyproject.toml` is read twice (`config_loader.py:256`); a file that is broken between
  the two readings lets `TOMLDecodeError` escape.
* `reserved_words = []` counts as no setting (`cli.py:378`).
* `modes.py:13-15` says that an augmenting flag cannot pair with an emit mode;
  `modes.py:22-25` says that not every pair is disallowed.  What is accepted and then
  passed over: the analysis of the graph beside `--show-history`,
  `--activation-hypotheses`, `--emit-critique-prompt` and `--agent-reason`, and an
  ingested answer or `--agent-reason` beside the first two.  `OneMeaning` names these
  (`Beside`) and excludes every other one.
* The bundle of a record is read after the validation (`commands.py:481`): a run may be
  recorded as valid under files it never validated.  No document promises otherwise;
  `RegressionTrue` names it as its exception and fails without it.
* With one skill inside of another, recording a run of the inner one changes the
  bundle of the outer one (`history_store.py:1`, `bundle.py:18`): `BundlesUnaltered` of
  `ValidationRuns` fails as soon as `Inside` is not empty.

## 6. Not modelled, and the plan

Not modelled at all: activation scores, the wording of prompts and the layout of
reports, pure functions that keep no state; YAML and Markdown parsing, of which the
rules and the graph get the outcome; byte limits other than that of a batch, except
where a component's control depends on them; a `[tool]` entry that is no table; quotes
in backticks that span lines; `ssh-keygen`, `minisign` and git, of which only the
answer appears.  The eight hexadecimal digits in the id of a graph node stand for what
they are made from.  In `Gate` the state `skipped` as an overall answer (exit 5) is
never reached: a required check whose records were all skipped is unknown.

What the plan has left, most important first:

1. **BundleManifest**: the directory walk while files come and go, its limits and
   issues; `ReleaseGate.ManifestOf` is what it has to implement.
2. **Composition** of `Invocation` with `ValidationRuns`: `SkillRules.Judge` in place of
   the constant `Found`, and skills inside of skills in a run of their own.
3. **Theorems**: that `ReleaseGate`'s reading of a candidate that nobody
   edits gives the manifest of one tree; that what `DependencyAnalysis` asserts are the
   edges `ReleaseGate` takes for granted.
