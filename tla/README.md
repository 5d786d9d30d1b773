# Verification of compose-lint

TLA+ models, TLC runs and TLAPS proofs for compose-lint, a linter that reads
Docker Compose projects, reports insecure settings (`check`), repairs some of
them (`fix`) and writes a baseline configuration (`init`). Paths below are
relative to the package, `src/compose_lint/`, unless they start with `docs/`.

The program is sequential and keeps no state between runs but the files it
writes. What makes it hard is elsewhere: it edits files that other people save
meanwhile, on disks that fail; it follows references through files that refer
to each other; it has to keep going after one file, rule, fixer or reference
fails, and still not say "clean" of what it did not see; and it makes one
promise over many code paths, the exit code.

## 1. The system

One run goes through these parts, in this order. Calls go down the list; the
only shared state is the disk and a few accumulators of the command's loop.

| part | code | state it keeps | operations | modelled by |
|---|---|---|---|---|
| entry, exit codes | `cli.py` `main`, `_dispatch`, `_abort_on_write_failure`, `_exit_on_internal_error` | buffered stdout, the exception in flight | run a command, flush, turn each failure into an exit code | `CheckRun` |
| document selection | `_selection.py`, `cli.py` | groups planned so far, files they cover, gaps | plan named files, discover, honour `COMPOSE_FILE`, find overrides, refuse links that leave the repository | `Selection` |
| document loading | `parser.py` | the Python call stack; per document chains, budgets, gaps | `load_compose_full`, `load_merged`, includes, cross-file and in-file `extends:` | `Load` |
| document merge | `_merge.py` | none | merge documents, services, fields by kind, `!reset`, `!override` | `DocumentMerge` |
| YAML reading | `parser.py`, `_lines.py`, `_scalar.py`, `_yaml_error.py`, `_limits.py` | none | parse, line maps, limits | not modelled |
| interpolation, `.env`, `env_file:` | `parser.py`, `_env_file.py`, `_service_env.py` | value budget of a load | resolve `${NAME}`, layer `.env` files, attach `env_file:` keys | `Units` (`env_file:`), in part `FixRun`, `Load` |
| safe reading | `_safe_read.py` | none | bounded reads, containment | in part (`Selection`, `FixRun`) |
| configuration | `config.py`, `config_emit.py` | the three tables it returns, its diagnostics | discover, load, warn, render | `ConfigFile`, in part `CheckRun`, `RuleEngine` |
| rule engine | `engine.py`, `_units.py` | findings, templates of shared env files, crash reports | list the units, grade rule by unit, suppress, override, quote | `Units`, `RuleEngine` |
| rules | `rules/` (28 rules) | none | classify one unit | `HostPaths`, `ServiceRules`, `Rules`; oracles of `RuleEngine` |
| check run | `cli.py` `_run_check`, `formatters/` | `has_errors`, four error lists, warnings, results | grade each document, report | `CheckRun` |
| fixers | `rules/CL0003`, `0005`, `0007`, `0009`, `0014`, `0022`, `_yaml_edit.py` | none | `fix` of one finding, over the file's lines | `YamlLines`, `RuleFixes` |
| edit collection | `fix.py`, `_yaml_edit.py` | units of edits, conflicts | `collect_edits`, `apply_edits` | `CollectEdits`, `EditSweep`, `RuleFixes` |
| fix run | `cli.py` `_run_fix`, `_atomic_write`, `fix.py` `verify_apply` | `had_error`, scratch file, the target | load, read, grade, edit, reparse, verify, write | `FixRun`, `FixContract` |
| init run | `cli.py` `_run_init`, `config_emit.py` | findings, the output path, the baseline written | plan, load, grade, choose the output, refuse, note, write | `InitRun` |
| terminal output, explain | `_output.py`, `_terminal_markdown.py`, `explain.py`, `attack.py`, `models.py` | none | formatting | not modelled |
| repository scripts | `scripts/` | none | releases, corpus statistics, premises tried on a live daemon | not modelled |

### What is hard, and what makes each part correct

* **Fix run.** Another writer may save or delete any file between any two system
  calls; each call may fail; the process may be interrupted; the machine may
  lose power. Correct: no file is ever partly written, no scratch file outlives
  the run, only the keys a fix claims change, the result needs no second fix
  and trades no finding for another, and a sound fix is not refused.
* **Rules.** Twenty-eight predicates written apart, over parts of a service that
  overlap: tables of host paths that three rules share out by mode, two forms of
  most entries, settings that switch another rule off. Correct: what a container
  is given has exactly one owner, spelled or written in whichever way; nothing
  added to a service hides a finding; what a rule reports is what Docker makes
  of the setting.
* **Fixers.** A finding is about a merged value, a fix about the lines of one
  file. Between them stand anchors, aliases, merge keys, `extends:`, folded
  scalars, flow lists, interpolated defaults and comments. Correct: what the
  edits of a run amount to is what its fixed findings ask for; no fixer waits for
  another; verification refuses no right fix, so a file does come to rest.
* **Edit collection.** Fixers are many and any of them may crash, refuse or
  answer with a wrong span. Correct: the sorted sweep refuses exactly the
  clashing edits, what is accepted splices where it was aimed.
* **Rule engine.** Results of one unit are kept for others, units share names,
  rules crash, the findings limit cuts in. Correct: nothing is lost without a
  crash report or a declared limit, what env files put into a container is
  graded with the value it has there, and no finding quotes a `.env` value, or a
  separated part of one, that is as long as a secret (from 8 characters; two
  exceptions in section 6).
* **Check run.** Sixteen ways to end. Correct: 0 and 1 mean what ADR-006 says,
  the artifact says what the exit code says and names every gap, the
  verdict is the same in all three formats.
* **Selection.** Named files, `.env` lists and overrides claim files from each
  other. Correct: a named file is planned, a list is honoured whole or not at
  all, what is passed over is a gap.
* **Loading.** Files include and extend each other in any shape, each kind of
  reference starts the other's cycle check over, and `.env` files layer the
  other way round from the documents. Correct: without a gap, the answer is the
  configuration Compose runs; nothing is missed or invented; the recursion ends.

* **Init and configuration.** Two directories and two spellings may hold a
  config, `-o` and links may lead anywhere, and the baseline is only of use to a
  later run that has to find it. Correct: the check it is written for accepts it
  and is clean, no document it grades is replaced, no policy goes out of force unsaid, what a
  config asks for is in force or complained of.

`PROJECT.json` lists forty hazards, each at its line, with the properties that
would show it going wrong.

## 2. The modules

Values are abstracted to what the properties tell apart; the order of the
statements, the guards, the early returns and the error paths are the code's.

**`FixRun`** is one run of `fix`. An action is one step of the loop body in
`_run_fix` between two points where the world may intervene: `LoadOK`,
`LoadSkips`, `LoadFails` (first read), `ReadText` (second read), `Grade`,
`CollectEdits`, `ApplyEdits`, `Reparse`, `VerifyApply`, then `ShowDiff` or
`CheckMode`, and `_atomic_write` one system call at a time (`MakeScratch`,
`WriteScratch`, `SyncScratch`, `Replace`, `WriteFails`), and `Finish`. `Save`,
`Interrupt` and `PowerLoss` are the world. A document is a function from keys
(each standing for one service's one key) to values; a finding is a key and the
value it fires on. Nothing is assumed of fixers or the splice: the candidate is
any text. `disk` is what the names hold, `unsynced` which of them may not
survive a power loss. **`FixContract`** is what `docs/fix.md` and ADR-014
promise, in four actions (`Save`, `Swap`, `Leave`, `Stop`); `FixRun` refines it
(`ContractKept`), with the scratch file, phases and verification hidden.

**`EditSweep`** holds the span algebra and the sorted sweep of `collect_edits`
beside its reference, the comparison of every pair. **`CollectEdits`** walks
the findings: `Screen`, `Coordinate` (joint `security_opt` rewrites), `Ask`
(one fixer), `Confine` (`_within_own_service`), `Place`, `Sweep`, then
`apply_edits`: `Sort`, `Splice`, `Patched`.

**`Units`** is pure: `UnitsOf` a document (services, hooks, jobs, providers, the
bound), `UnitNotes`, and `ResolveEnvFiles`, which reads each `env_file:` target
once for all containers, narrows the `.env` to the names the files use, and
applies the targets of each container in order. A line of an env file is a key
with a literal, a reference or no value.

**`RuleEngine`** is the double loop of `run_rules` over those units: `Grade`,
`Crash`, `Stop` (the findings limit), `Complete`. `graded` is the cache of
`_env_file_findings`, kept by the keys the files make available. What a rule
truly has to say of a unit's own keys is given (`says`), so the properties can
compare what a sweep reports with what a faultless one would. `Reaching` is the
reference for env keys: the lines of all the readable files one after the
other, the last setting of a key deciding. A finding may quote whatever the
`.env` supplied to its unit (`Supplied`, `Cut`); `Quote` takes out what the walk of
`_service_pattern` finds and keeps (`Seen`, `Kept`), from `_QUOTED_FROM` characters
(`Replaced`).

**`CheckRun`** is `main` and `_run_check`: plan and config, then per document
`Skip`, `Refuse` or `Load`, `Sweep`, `EmitText` / `EmitJson` / `EmitSarif` /
`Vanish` (SARIF's second read fails), then `CheckExclusions`, `Report`, `Flush`;
`WriteFails`, `InternalError` and `Finalize` (the interpreter's last flush) may
cut in. What `RuleEngine` proves of a sweep (a loss only with a crash or a
declared stop) is the guard of `Sweep`.

**`Selection`** is `plan_documents` path by path (`Repeat`, `Refuse`,
`PlanNamed`, `Discover`, `Planned`) and the table by primary the commands build
of the plan (`Grade`).

**`ConfigFile`** is discovery, `load_config` and `render_config`; a policy is a
sequence of blocks, each key of which is absent or of some kind. **`InitRun`** is
`_run_init` followed by the `check` its baseline is for: `Refused`, `Plan`,
`Unloaded`, `Grade`, `Choose` (the output), `Guard` (the three refusals), `Note`
(`_note_config_shadowed`), `Write`, `WriteFails`; then `ReadConfig` and `Scan`.
`Save` is somebody else's. The disk is a function from places to entries; an
entry is a file, a link or a dangling link with an identity, so that two places
may be one file.

**`DocumentMerge`** is the merge over one field of each kind the table in
`_merge.py` tells apart. **`Load`** is `_loads_full` with its Python call stack
made explicit: a frame is one activation, an action follows one reference
(`IncludeOpen`, `IncludeAgain`, `IncludeRefused`, `ExtendOpen`,
`ExtendRefused`), folds a document's includes (`IncludesDone`) or returns
(`ReturnInclude`, `ReturnBase`, `ReturnPath`); `OpenPath`, `OpenBlank`,
`OpenRefused` and `Conclude` are the two entry points. A value stands for where
it came from, so a result says which documents it was merged from.
**`LoadContract`** states over the files alone which documents have to be
followed, **`LoadLayers`** what the answer should be: the layers of a service, in
Compose's order, and what they amount to.

**`HostPaths`** is the path arithmetic of `_mounts.py` and the tables of the
mount and device rules; a path is a sequence of names, normalised the way
`posixpath.normpath` does. **`ServiceRules`** is `check` of every rule, over a
service as the parser hands it over: a record of its settings, list entries as
records of the fields the rules tell apart. A rule is the set of places it
reports. **`Rules`** is a service under edit (`AddEntry`, `SetValue`,
`MakeNoList`), the rules being asked after every edit.

**`YamlLines`** is a Compose file as lines, each with an indent, a dash, a key, a
value and a mark (anchor, alias, flow, default), and the line helpers of
`_yaml_edit.py`. **`RuleFixes`** reads a file twice, as the loader does (merge
keys, aliases, `extends:`, folded scalars, the keyed merge of ports) and as the
fixers do, line by line; `Fix` is the six fixers, `Coordinated` the joint
`security_opt` edit, `WithinOwnService` and `Accepted` the rest of
`collect_edits` (with the sweep of `EditSweep`), `Verified` is `verify_apply`.
An author writes blocks (`Write`), fix is run (`Fixes`). What the rules report of
a file is `Reports` of `ServiceRules`, the same definitions `Rules` checks.

Both were compared with the program: 75 221 services and 22 636 files of the
instances below, rendered as Compose documents and run through the repository's
own `run_rules`, `collect_edits`, `apply_edits`, `reparse_or_error` and
`verify_apply`, gave the findings, the patched text and the verdict the modules
give, without a difference.

A module `MCx` instantiates `x` for TLC, `xProofs` holds its theorems. An
operator under a comment that begins "Mutant:" is a plausible bug, kept next to
the definition it would replace; `PROJECT.json` pairs each property with one
that breaks it. No specification uses them.

## 3. The runs

| run | instance | what it shows |
|---|---|---|
| `Fix` | two files in one batch, the first the override of the second; two keys, two values; one save by somebody else at any step; dry run or not, `--no-env` or not | `NeverTorn`, `NoScratchLeft`, `UnclaimedKept`, `RoundTrips`, `SoundFixPasses`, and refinement of `FixContract` |
| `CollectEdits` | three findings on one or two services, four characters, every insertion and replacement over them, edits that overlap themselves or cannot be placed | `SweepExact`, `SpliceExact`, `EachAnsweredOnce` |
| `RuleEngine` | two rules; three documents of four units (a service, its hook, two of one name) with one shared env file and `.env` values in all, some or one of them, and 4 204 documents of up to three containers over two env files, with limits of four units and seven findings | `GradedInFull`, `NothingLostQuietly`, `NoSecretQuoted`, `DeploymentGraded` |
| `CheckRun` | two documents of six shapes, twelve sets of flags, a SARIF log of two results | `NoSilentPass`, `FailMeansFindings`, `ArtifactAgrees`, `FailureShown`, `VerdictByContent` |
| `Selection` | two directories, four files, command lines of up to three paths with repetitions, 35 pairs of `.env` files | `NamedPlanned`, `ListsWhole`, `ForgoneIsGap` |
| `Load` | 7 920 projects of up to four files in two directories, alone or overlaid, depth limit 3, file limit 4 | `ResultIsLayers`, `NothingMissedQuietly`, `NoFalseGap`, `DepthBounded` |
| `InitRun` | two rules, a service and a hook whose name needs quotes; two config directories, two spellings, links and read-only files, `-o` to five places, thirteen policies; a sweep limit of two, one save by somebody else | `BaselineSuffices`, `InputsKept`, `PolicyKeptOrSaid`, `RequestsKept` |
| `Rules` | a bare and a hardened service, any two of 25 fields edited in up to three steps, 39 host paths in both modes, every form of entry | `RuntimeHasOneOwner`, `WritableNeverGradedLower`, `SpellingNeverHides`, `SocketsAreCritical`, `FormsAgree`, `ReportedEntriesUnconfine`, `GrantsHideNothing` |
| `RuleFixes` | six files (one service; two that extend, merge or alias), any two of 32 blocks written into them, fix run at any point | `EditsAmountToFixes`, `RefusalsForeseen`, `NoStalemate`, `ComesToRest` |
| `FixVerifyCrash`, `SelectionDrops`, `FixUncovers` | instances of the same | a disagreement each, section 6 |

Why the bounds are enough. *Fix*: the loop body keeps nothing between files but
`had_error`, so two files cover order and accumulation; the second is needed as
override of the first so that an edit of one changes what the other is graded
over; with one key a fix cannot damage a neighbour, with two it can; one save
separates any two reads. *CollectEdits*: conflicts are pairwise, but a unit
refused for one neighbour must not shield a third, so three findings; four
characters allow every relation of two intervals. *RuleEngine*: a cache hit
needs two units with one file, a stale hit that the first shadows a key the
second does not; a chain of env files needs a key, the name it refers to, one
file that sets either and a second that sets it again or leaves it unknown, two
lines each. A `.env` value there has a part of eight characters and one of seven, the
two sides of the length quoting starts at; a name is used once, by both units of
one name, with one value or two, in a field as substituted or one rewritten since. *CheckRun*: two documents make "earlier" and "later"; the limit
of two is below the four results they can have. *Selection*: a file named third
may be claimed by either of two earlier groups. *Load*: two parts that may
include and extend each other make cycles of both kinds and through both; depth
3 is reached by the cyclic projects and passed by the others; a budget of four
is exhausted by a diamond. *InitRun*: what goes wrong takes one config in front of another and one link; a
save can fall between the question and the write once. *Rules*: every
property is about one entry, or about one that another setting switches, so two
fields; three `security_opt` entries let a later one cancel an earlier one and a
third the second. *RuleFixes*: two findings of different fixers meet in one
service, or one of them in the service the other extends, merges or aliases; two
written blocks and what the six files hold make all such pairs. Terminated runs are
states without successor, so these runs do not check for deadlock; `InitRun`
does, with `Done` for its end.

*Fairness.* `RuleFixes` states weak fairness of `Saved`, a run of fix that writes:
fix is a pre-commit hook or a CI step and is run again as long as it has something
to write; nothing is assumed of the author. `ComesToRest` says that then, whatever
was written in between, nothing fixable is left but in the files verification
holds back for good (`HeldBack`, section 6). The other specifications state none:
a run is a loop over a finite batch with a finite body, and the one part where
its end is not plain, the loader's recursion over cyclic references, is the
safety property `DepthBounded` with the budgets of `NothingMissedQuietly`. A hung
disk is not something the code promises to survive.

## 4. What is proved

All proofs hold for every value of the constants under the named assumptions,
which only say what the constants are (sets, indices, sorts kept apart).

* **`FixRunProofs`**: `TypeCorrect`, `NoFileTorn`, `ScratchRemoved`,
  `FixTouchesWhatItClaims`, `FixConverges`, `SoundFixAlwaysPasses`,
  `RunKeepsContract`. The inductive
  invariant `IInv` adds to the types: files are settled in order (`InOrder`);
  the scratch file exists only from its creation to the swap, holds the
  candidate from the write on and is synced before the swap
  (`ScratchInPlace`, from which nothing torn can be swapped in); a candidate
  past verification is one verification accepted (`Verified`: the locals of the
  loop body do not change in between, whatever is saved meanwhile). The two
  action properties and the refinement follow step by step: only `Replace`
  swaps (`OnlyReplaceSwaps`), everything else settles, stops, saves or stutters.
  `SoundFixAlwaysPasses`: a primary nothing is merged over was graded with nothing
  over it (`AloneInv`), so a sound candidate is reread as the configuration it
  stands for (`SoundRereads`), and a rule that crashes only takes findings away.
* **`CollectEditsProofs`**: `SweepIsPairwise`, over any set of spans: every kind
  of clash needs the later span to begin no later than the earlier one ends, so
  stopping there loses nothing. `SweepAlwaysExact` carries it to every state.
  `SplicesLandWhereAimed`: the text is a sequence of pieces, characters that keep
  the place they had and insertions known by their edit, in the order of
  `SpliceBefore`. `SpliceInv`: the accepted edits no longer in the queue are in
  the text (`Reads`), each of them comes after all that are still in the queue,
  and no two accepted edits overlap (neighbours in the order do not, from which the
  rest follows: `Apart`). So in front of everything spliced so far the positions
  an edit was computed at still hold, and one splice adds exactly its pieces
  (`SplicedIndex`, `SplicedReads`). Assumed: an answer's edits do not end before
  they start, and blocks lie in the file.
  `EveryFindingAnswered`: no finding looked at is lost or counted twice between the
  coordination pass, the fixers and the four places a unit may fail at. `FateInv` says
  where a finding is meanwhile: still to be asked about, in one unit that stands, or
  in a list of the result, and no list or unit shares one with another; of the
  screening only membership and order are needed (`AmongListed`), of a result that
  joins units that their findings are disjoint (`FlatListed`). Assumed: the report
  lists no finding twice, each on a service. `CollectionTyped` is the type invariant.
* **`RuleEngineProofs`**: `EveryPairGradedInFull`, `NoFindingLostQuietly`,
  `NoSecretLeaves`. The invariant says what the cache holds (a template no unit's
  shadowing has touched), for any documents and env files, and that the findings are exactly those of the pairs
  behind the loops that did not crash; quoting then maps that set and changes
  nothing in a finding but what it quotes (`QuoteFinding`). `NoSecretLeaves`: of
  the texts one name stands for among the units of a finding's name, the walk keeps
  the one it sees last; if all of them are the same text, that one is kept
  (`SeenIsKept`), and with it go all its parts of `QuotedFrom` characters. The floor,
  the separators and the lengths are constants of which nothing is assumed but
  that the floor is a number. `SweepTyped` is the type invariant, the range of both
  loops.
  `EveryDeploymentGraded` joins that to the two readings of the env files. The
  program reads file by file, each in the scope of those before, and layers the
  results; the reference (`Reaching`) puts all readable lines one after the other
  and lets the last setting of a key decide. `Settled` relates them: after any
  number of targets the scope holds, for a key set to something known, the value
  of its last setting, the contributed keys the file of that line, and for any other key
  the scope holds what the `.env` supplies. A line keeps it within a file
  (`FileSteps`) and a target between files (`TargetSteps`, `SettledStep`); the
  narrowed `.env` supplies every name a line refers to (`SuppliedFor`).
  `DocumentUnits` finds each deployed container its unit, `GivenInv` says the sweep
  works on what it was given, and `EveryPairGradedInFull` does the rest.
  Assumed: a document is one the reader and the loader leave (`WellFormed`: names
  are keys of a mapping, targets, lines and the uses of the `.env` are sequences, no text is the absent
  value), and what a rule says of a unit's own keys names no env file.
* **`InitRunProofs`**: `InputsAlwaysKept`, `PolicyAlwaysKeptOrSaid`,
  `RequestsAlwaysKept`, `BaselineAlwaysSuffices`. `InputsInv`:
  once the guard has passed, the output is not an input under any name, and no
  save changes that, because saves make files of their own. `PolicyInv` follows
  the run from the first look at the disk: while it is unattended the disk is
  the one looked at, apart from the place written. `RequestsAlwaysKept`: a check
  about to judge has read the tables of the text in force, which is one sequence
  of blocks and names no rule twice (`ReadInv`), so each request is a row
  (`TablesSay`) and each row a request (`TablesSayNoMore`).
  `BaselineAlwaysSuffices`: past the sweep the findings are all the project
  raises; a baseline that stands is the text of them (`BaselineReads`: one
  well-formed block per rule, under the names the findings carry), it is the
  config the check finds first (`StandingFound`), and is only refused where
  strict meets two spellings (`StandingAccepted`). `InitTyped`: types. Assumed:
  there are finitely many rules, findings are of them and on units the run saw,
  and a text's blocks are a sequence.
* **`CheckRunProofs`**: `ExitZeroIsClean`, `ExitOneIsAVerdict`. The invariant is
  the books of the loop: while the error list is empty, every file before `at`
  was seen in full, and `has_errors` is set exactly when a failing finding was
  listed. The codes 0 and 1 are only ever decided from closed books.
  `VerdictFromContent` keeps the same books by content (`Accounts`): an error
  has a cause in the files, the flags or the config, the service names seen are
  those of the documents loaded so far, and `has_errors` is what the sweeps
  found. `CheckTyped`: types. `ArtifactAlwaysAgrees` and `FailureAlwaysShown`
  add `ShownInv`: while a listing is on, the results are those of the files
  behind `at` and `has_errors` was set by exactly them, and each gap come past is
  an error or a warning, which no later step takes back (`GapsStaySaid`). Of the
  results that fail, the first in the report's order among the most severe has
  nothing ahead of it that does not fail, so truncation keeps it
  (`KeptShowsFailing`). Assumed: what is at a threshold outranks what is not, and
  a report's order lists each set of findings in full.
* **`SelectionProofs`**: `NamedAlwaysPlanned`. Every path before `at` is in the
  planned set or refused with a gap, and the planned set is what the groups
  cover; a list that is honoured covers its own entries (`ListIsGroup`).
  `ListsAlwaysWhole`: a group is planned from a list only after every entry of
  it was found (`ListIsGroup`), and nothing adds to or takes from a group later.
  `ForgoneAlwaysGap`: where a group is planned without a list or an override the
  gap is added in the same step (`AloneOwes`), and gaps are only added to
  (`OwedStays`); what is found in a directory belongs to it (`FoundIsNamed`, by way
  of what filtering a list leaves of it, `AmongThem`). `PlanAlwaysTyped`: a group is
  made of a file that was named or found and of what lies beside it (`GroupIsMade`),
  and every gap is of a kind that is reported (`EnvGapsAre`).
* **`LoadProofs`**: `DepthAlwaysBounded`. The activation at position *i* of the
  stack was handed depth *i* - 1 and no more than the limit: a reference is only
  opened below it, and nothing done to a frame changes its depth.
  `NothingEverMissedQuietly`: what `Complete` asks of everything reached from the
  paths is restated node by node, a node being a document or one service of one.
  `Fine` is the least set that holds each node that leads to a document, has
  what is asked of it, and whose references are all in the set; so no chain of
  references within it goes on for ever (`FineEnds`), and once the roots are in
  it the load is complete (`FineIsComplete`, which counts the nodes to show that
  the bounded iterations of `Reached` and `Acyclic` suffice). The invariant
  `LoadInv` says of every activation on the stack, as long as it has recorded no
  gap, that each reference before the one it is at leads into `Fine`; the last
  one is `Ready`, every other `Waits` for exactly the node the next one loads,
  and what has been folded so far says no more of a service than the documents
  it came from (`Says`, `Folds`). An activation that returns without a gap has
  therefore followed all it was asked for (`FinishedIsFollowed`), its in-file
  chains included, since one without an end would have been cut as a cycle
  (`Descends`, `NoCut`). A file skipped as folded in before was followed then.
  This needs `~Mixed`: section 6. The invariant was checked by TLC on the
  instance of `Load` before it was proved. Assumed: finitely many files and
  services, and documents of the form the parser hands over (`IsWritten`).
  `NoGapInvented` is the converse: of a complete configuration no gap is reported
  but for the limits. Its roots are in `Fine` (`CompleteIsFine`), and `GapInv`
  says that then no activation meets a gap: each stands at a node of `Fine` and
  its chains hold only nodes above it (`Placed`), to which nothing below returns
  (`FineNotUnder`); what it holds says all that the documents before its reference
  say (`Gathered`, then `Based`), so that no base is missing; and every `extends:`
  it is to resolve is its document's own, below the node it stands at (`Due`), so
  that the base is in `Fine` again. What an `extends:` is after merging, and which
  document it came from, is followed through every merge (`Aims`, `FoldedAims`,
  `InheritedAims`). Three hypotheses: `[]WithinLimits`, since a document left out
  for a limit is read by its caller as one that failed; `~Mixed`; and `~Borrowed`:
  `_unwanted_services` asks the folded data, not the documents, for the chain of a
  base, so where a document others extend redefines a base resolved below it, the
  chain goes on through the redefinition, whose references the service that was
  asked for does not need (section 6). Assumed besides: an empty file is told from
  an unreadable one.
* **`RulesProofs`**: `MoreNeverHides`, `RuntimeOwned`, `WritableGraded`, for any
  project, any service an author starts from and any entry. A grant only makes
  the lists of a service longer (`Grown`), so each rule has a lemma that what it
  reported it reports still (`MountRulesGrow`, `CredentialRulesGrow`, ...): an
  entry stays where it was, and a flag of a command keeps the word after it. The
  runtime's own directories are not root-equivalent ones, which is why exactly
  one mount rule owns them; and making a mount writable takes no disjunct away
  from the grade of the rule about it. `ServiceTyped`: types.
  `SocketsAlwaysCritical`: what leads to a socket is
  one of the listed directories, above one, or the socket with its marker in the
  path (`LeadsToSocket`, `ClaimedOnTheWay`), and every path to mount is one an
  entry or the project spells (`MountsArePaths`).
  Three more follow from what an author may have written (`WrittenInv`: an entry
  of a list is one of the menu or of the service started from).
  `SpellingHidesNothing`: normalising twice changes nothing, the names of the
  normal form are names of the spelling, and what is left of the difference is
  the exception stated (`SpelledOrNormal`). `FormsAlwaysAgree`: an entry written
  long leaves the mounts of the service what they are (`MountsRespelled`), and of
  its volumes the rules ask nothing else (`FindingsRespelled`).
  `ReportedAlwaysUnconfine`: the last entry that sets a profile decides it
  (`LastAssigning`, `ProfileIsLast`), and without the entries reported none
  unsets it (`WithoutProfile`). Assumed of the project, the menu and the services:
  the paths in them are sequences of names, ports and options have the fields of
  their form.

The library's induction theorems take an operator the provers cannot instantiate.
What a walk over a list of any length computes is therefore proved of a recursive
function on the naturals: `InductionOnNat` is the principle over sets in place of
operators, proved from the least element `WFMin` gives, and a definition is first shown
to be the function it describes.

Only model-checked:

* `ResultIsLayers` of `Load`: what it compares the answer with, `LayersOf` of
  `LoadLayers`, is a `RECURSIVE` operator over a graph with cycles, and what it
  computes is shown by induction over data;
* the properties of `RuleFixes`, which relate two readings of the lines of a file:
  the records of `YamlLines` and what is inherited, merged and aliased among them
  are beyond what has been laid out for the provers, and `ComesToRest` is liveness;
* that a run ends: liveness and `ENABLED` are out of the provers' reach;
* the type invariant `LoadContract` states of a load, which no theorem rests on.
  The seven others are theorems, and therefore left out of the configurations.

## 5. Abstractions and what is left out

* Disk: permissions, links, special files and I/O errors are a nondeterministic
  refusal of the step they concern. The unlink in `_atomic_write`'s handler is
  taken to succeed (`cli.py:1480` ignores its failure). The user saves and
  deletes whole files; a name turned into a FIFO or a link between two steps of
  the run is not modelled.
* `--only` and the wording of notes are not modelled; a dry run stops before the
  write.
* In `CollectEdits` and `FixRun` a fixer's answer is any edit, so what they show
  holds of any fixer. The edits of the six there are, are those of `RuleFixes`,
  where a scalar is a token: quotes, CRLF, tabs, byte order marks and the escapes
  of a scalar are left out, and of `extends:` only one level, in the same file.
* `ServiceRules` leaves out the text of an entry below its fields (image
  references, sizes, quoting), and keeps of each table the classes of rows the
  rules tell apart. Severities are the rules' defaults.
* `RuleEngine` reduces the text of a finding to the values, and separated parts of
  values, it quotes; any of what the `.env` supplied to the unit may be quoted. A
  value or part below `_QUOTED_FROM` characters stays in a finding, as
  `engine.py:307-314` means it to: such values are settings, which the guidance
  writes too. Left out are the walk's limit of nodes (`_MAX_WALK`, after which the
  whole document's references are replaced), a YAML node two fields share, and that
  a literal text equal to a substituted one is replaced as well.
* Load leaves out the repeat budget, an `extends:` with a `file:` and no `service:`
  (a gap before anything else is looked at, `parser.py:1656`), `project_directory:`, rebasing of
  `env_file:` paths, jobs and hooks, and treats remote, interpolated and
  outside references alike (`Away`). It carries a `.env` as "who decides".
* Units: a reference is a bare `${NAME}`; defaults, quoting, multi-line values and
  the value budget are left out, and so is what a hook inherits. `DeploymentGraded`
  leaves out three cases by name (`Unambiguous`): see section 6.
* Init: the documents of the project are those whose lines the load recorded, as
  in the code. `PolicyKeptOrSaid` is about runs nobody interferes with. An
  explicit `--config`, and the second discovery that names the config in the
  banner, are not modelled; an explicit `-o` may put one config in front of
  another without a word, as `_note_config_shadowed` is asked of defaults only.
* Merge leaves out key/value and replaced sequences and the records of lines and
  sources; the logging rule and the lines of merged entries are in `RuleFixes`.
* Not modelled at all: YAML text processing below lines, formatting, `explain`,
  terminal rendering, and the scripts beside the program.

## 6. Disagreements

Shown by a run, with the quotation in `PROJECT.json`:

* `FixVerifyCrash`: a rule that crashes on the candidate only does not stop the
  write (`fix.py:996`).
* `SelectionDrops`: two groups with one primary document collapse in
  `overlay_of`, and a named file is not graded (`cli.py:1069`).
* `FixUncovers`: a service that repeats the unsafe port, or the `logging:` driver,
  of a base whose own entry cannot be fixed is fixed; the fixed value no longer
  stands in for the inherited one, and the same rule fires again on the verified
  file (`rules/CL0005_unbound_ports.py:393`, `rules/CL0014_logging_disabled.py:151`).

Seen while modelling and not given a run:

* files whose right fixes verification refuses on every run (`HeldBack`), each
  confirmed with the program: a fixed base lends to a service that has no fix of
  its own, which is then "altered" (`fix.py:897`, deliberate); a service repeats an
  inherited `security_opt` or `tmpfs` entry that the base's fix deletes or rewrites,
  so its own becomes fixable; a service whose only key is `logging: {driver: none}`
  is given `read_only: true`, upon which `logging:` may be deleted;
* under `fix --no-env` the verification of a file without override reads the `.env`
  (`fix.py:973`): `SoundFixPasses` without `LikeForLike` fails, a sound fix being
  refused as a drift or a new finding;
* an internal error whose buffered output cannot be flushed exits 120, not 2: the
  envelope is written inside `except Exception`, which the flushing clause beside
  it does not see (`cli.py:879`);
* an included `extends: {file:, service:}` under an including document's own
  `extends: {service:}` merges into a cross-file reference neither wrote
  (`parser.py:1548`), although `docs/what-a-run-reads.md:152` says the included one
  is resolved once, where it was declared. A base named by one of the two only may
  then not be followed, without a gap: `NothingMissedQuietly` excepts the pair by
  name (`Mixed` of `LoadContract`). `Load`'s instance has it where both mappings
  name one service, so that what is merged amounts to the layers all the same;
* `/run/systemd//private` is CL-0013 HIGH and `/run/systemd/private` CL-0001
  CRITICAL: the marker is looked for in the path as spelled
  (`rules/CL0001_docker_socket.py:110`), though `_mounts.py:260` says Docker cleans
  it; `SpellingNeverHides` therefore asks for a finding, not for its grade. The same
  marker takes a directory of the user's for the socket's: `/srv/systemd/private` is
  CRITICAL and `/srv/systemd/./private` not reported, which the property excepts;
* `/var/run/containerd` and `/var/run/systemd` are HIGH where `/run/containerd` and
  `/run/systemd` are CRITICAL;
* `_keeps_mknod` compares `privileged` with `True` (`rules/CL0016_dangerous_devices.py:268`)
  where CL-0002 takes the quoted boolean as well, so quoting it hides a device
  cgroup finding;
* an anchor on a `security_opt` item that CL-0009 deletes leaves its alias
  dangling: the re-parse refuses the file;
* `substitute_defaults('${A:+${B:-true}}')` with `A` set leaves the inner
  expression as it is (`rules/_interpolation.py:334`);
* an empty override accepted by the first load is refused by verification
  (`merge_patched`, `parser.py:2906`); `SoundFixPasses` excludes it by name;
* `parser.py:2508` and `:2539` start a budget each, so a document may open twice
  the 64 files of `docs/compatibility.md:152`; `spent` in `Load` is a pair;
* skipping a repeated include as "folding a document twice changes nothing"
  (`parser.py:1402`) is not so for the path list `[x, y, x]`, nor for the order
  of appended sequences in `[[b], [a], [b]]`; `ResultIsLayers` is checked on
  repeated entries, where it holds;
* `!reset` and `!override` in an including document are not applied against what
  it includes (`parser.py:1547`); `Fold` models what the code does, and the
  instance has tags in overlays only;
* `_unwanted_services` looks at folded data and may keep a sibling that an
  included document's reference names: a gap below that sibling is reported of a
  configuration that does not need it (`Borrowed` of `LoadContract`);
* `_is_an_input` knows the documents whose lines the load recorded, not the
  `.env` or the `env_file:` targets: `init compose.yml -o .env --force` replaces
  a file the run read, although `docs/ASSURANCE.md:26-28` says it "refuses an `-o`
  that resolves to one of the files it read, `--force` or not";
* `resolve_env_files` keys its plans by unit name (`_service_env.py:305`): of a
  service called `jobs.x` beside a job `x` only the job's `env_file:` is read, and
  both units are graded on it, although ADR-040 (line 64) says of the two that
  "both are still reported"; run `RuleEngine` without `Unambiguous` to see it;
* a `.env` value of fewer than 8 characters, or such a part of a longer one, is left
  in a finding (`engine.py:297`), though the docstring of `run_rules` says without
  a bound that a finding quotes `${NAME}` in its place (`engine.py:89-97`; that of
  `_quote_references` names the bound);
* `_service_pattern` collects what a unit used by name (`engine.py:283`), so of two
  values of one name, which documents with a `.env` of their own each can bring into
  one service, one is kept and the other stays in the findings; and a relative bind
  source is rewritten after its substituted text was recorded, so that it is not
  looked up. Both were confirmed with the program; `NoSecretQuoted` excepts them by
  name (`Contested`, `moved`), and fails without either exception;
* a key that a later env file sets to a value it cannot say keeps the value of
  the earlier file (`_service_env.py:429`), within one file it loses it
  (`_env_file.py:579`), although `ServiceEnvFiles` says "files applied in written
  order with a later one winning"; and a name that an earlier file leaves unknown
  takes the `.env`'s value where a later file refers to it, but within one file it
  stays unknown. `Unambiguous` excludes both;
* `_run_init` checks that the output does not exist and writes it later, so a
  configuration saved in between is replaced.

## 7. Plan

Done in this order: `FixContract`, `FixRun`, `EditSweep`, `CollectEdits`,
`Units` and `RuleEngine`, `CheckRun`, `Selection`, `DocumentMerge`,
`LoadContract`, `LoadLayers` and `Load`, `ConfigFile` and `InitRun`, `HostPaths`,
`ServiceRules` and `Rules`, `YamlLines` and `RuleFixes`, each with its runs and
then its theorems. What is left, most important first:

1. More proofs: the line helpers of `YamlLines`, and from them `RefusalsForeseen`
   and `EditsAmountToFixes`.
2. `SafeRead`: open, fstat, bounded read against a file that changes between
   them, and what each refusal becomes in `FixRun`, `Load` and `Units`.
3. Interpolation of documents: `${NAME:-default}`, the value budget, the closure
   of names in `read_env`, unread env files as coverage gaps.
4. Merge: key/value and replaced sequences, line and source records across
   documents; `Load`: jobs, `project_directory:`, the repeat budget.
