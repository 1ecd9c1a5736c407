# pydocformatter in TLA+

TLA+ models of [pydocformatter](../src), a Python comment and docstring
linter and formatter (`pydocfmt`), with the TLC configurations that check them
on small instances and TLAPS proofs of their main properties for every
instance. All source paths below are relative to `src/src/pydocformatter/`.

- [The system](#the-system): components, state, interactions, hazards
- [Modules](#modules): how the models correspond to the code
- [Runs](#runs): what is checked, the bounds, the fairness
- [Theorems](#theorems): what is proved, and how
- [Disagreements found](#disagreements-between-code-and-documentation)
- [Not modelled](#not-modelled) and the [plan](#plan)

Run, in this directory:

    tlc -workers 2 -config MCFixLoop.cfg MCFixLoop
    tlapm FixLoopProofs.tla

## The system

`pydocfmt check` selects files, resolves for each of them the settings and the
rules to run, and either reports what the rules find (`check`), rewrites the
files (`--fix`), or shows the rewrite (`--diff`). Files known to be clean are
skipped through a persistent cache that any number of processes share.
`pydocfmt clean` empties it.

| component | code | state it keeps | operations | correct if |
|---|---|---|---|---|
| rule runner | `rules/runner.py` | text, counted fixes, texts seen, errors, per run | check pass, fix pass, convergence, final check | what is reported is what happened; success is a fixed point |
| clean-proof cache protocol | `cache/session.py`, `cache/coordinator.py`, `cache/store.py`, `formatter.py` (`format_disk_file`) | SQLite rows; candidates, hints, snapshots and touches per process | prepare, lookup, probe, format, persist, prune, recover | nobody can tell that there is a cache |
| cache directory | `cache/directory.py`, `CacheStore.commit`, `cli/clean.py` | root, tag, lock, version directory, database group, quarantine | claim, lock, tag, lay out, quarantine, retain, clean | takes only what is its own, and whoever may store can |
| check command | `cli/check.py` | futures and results by file index, exit status | probe, submit, collect, persist, print | results complete and in file order; proofs and status agree with them |
| source edits | `rules/edits.py` | none (pure) | validate, order, apply replacements | the text is the one the replacements describe, in whatever order they were planned |
| suppressions | `rules/suppressions.py`, `rules/line_targets.py`, `rules/definition_helpers/directives.py` | directives and their use, per text | parse, match, audit, rewrite | exactly the findings aimed at are hidden; what the audit calls unused can go |
| Markdown | `markdown.py`, `formatter.py` | none across files | find fences, format, put back or roll back | all blocks or none, and the document keeps its shape |
| rule selection | `rules_selection.py`, `rules/codes.py` | none (pure) | select, ignore, extend, fixable, per-file | the documented precedence, and no two incompatible rules |
| file selection | `file_selection.py` | candidates, decisions, accepted position per file | walk, prune, include, exclude, ask Git, deduplicate | exactly the documented files, each once |
| settings | `settings.py`, `cli/settings_check.py`, `cli/config.py` | parsed files, nearest configurations and profiles per directory, for one invocation | discover, validate, layer, resolve | the documented precedence, whatever was looked up before |
| rules | `rules/definitions`, `rules/definition_helpers` | none (pure hooks) | prepare a category, find, fix | each fix removes its finding; what is selected together can be satisfied together |
| registration, documentation, entry points | `rules/collection.py`, `rules/registration.py`, `rules/documentation.py`, `cli/main.py`, `utils` | static tables | import, render, dispatch | checked at import |

**How they interact.** `check_files` selects files and rules and hands them
as one batch to `format_selected_files`. That asks the cache session for
identities (engine key, analysis key, path key, path context), probes the
store, runs `format_disk_file` for the misses, in the process itself or in a
pool of worker processes, and lets the session persist what was found clean.
`format_disk_file` reads the file, runs the rule runner on it (once per Python
file, once per fence of a Markdown file) and writes the result back. The
runner calls hooks of rules and categories and applies their edits. The store
calls the directory module before, for and under the mutation lock.
Invocations interact only through the source files, which nothing locks, and
through the cache root, of which the database is read without the lock and
changed with it.

**What is hard.**

- *Interleaving.* Editors and other invocations change files at any time: between
  stat and read, between truncation and write, between write and stat. The
  cache lookup is several unlocked SELECTs. The first runs in a directory race
  for its ownership, and look at the root before and after they get the lock.
- *Crashes.* A process may die after creating the tag and before writing it,
  with the database moved aside, or with a source file truncated.
- *Staleness.* Equal size and mtime with other contents; a package that becomes
  public; a category context from before an earlier fix; a line ending resolved
  before the fixes.
- *Partial failure.* Renames of a database group, hooks that raise in one pass
  of many, texts that cannot be aligned half way through a run, a worker that
  raises or dies while others rewrite files.
- *Ordering.* Workers finish in any order; the clearer spelling of a file may
  come after the one already accepted.
- *Aliases.* One physical file under several spellings, some of them excluded.
- *Loops.* Rules that undo each other over any number of passes.
- *Borders.* Formatted code that contains a fence; two replacements that touch; a
  directive that moves onto another line when a comment next to it goes.
- *Contradictions.* Rules, each right by itself, that together ask for what no
  docstring can have; selectors of equal strength for incompatible rules.
- *Limits.* The last allowed pass, the daily pruning and its cutoffs, a clock
  that goes back, the number of quarantined databases.

`PROJECT.json` lists every hazard at the line where it bites, with the
properties that watch it.

## Modules

| module | what it is |
|---|---|
| `Analysis` | what one run of the rules over a text returns, as the cache can tell texts apart; the rules are parameters |
| `UncachedCheck` | abstract specification: what `pydocfmt check` does to files and reports without a cache |
| `CacheProtocol` | the same with the clean-proof cache; implements `UncachedCheck` |
| `CacheDirectory` | claiming, locking, laying out, repairing and cleaning the cache root |
| `FixLoop` | `run_rule_plan`: precheck, fix passes, convergence, final check, and a rerun |
| `FileSelection` | `select_files`: walking, filtering and deduplicating the files of a command line |
| `CheckBatch` | `check_files` from the selected files to the exit status, with the worker pool |
| `DocstringLayout` | the rules about the lines of a docstring (PDF102 to PDF110, PDF200, PDF201), run together by the fix loop |
| `MarkdownFences`, `MarkdownRewrite` | the fences of a Markdown document; formatting its Python blocks and putting them back, or not |
| `MarkdownDocument` | abstract specification: a document is replaced at once, in its Python bodies only, line for line the same everywhere else, or it stays; implemented by `MarkdownRewrite` |
| `Subsequences` | what a list keeps at a set of positions |
| `Directives`, `Suppressions` | directive comments and their rewriting; what they suppress, and which of their entries suppress nothing |
| `SourceEdits` | order, refusal and application of the replacements of a fix |
| `SuppressedCheck` | one check pass, its audit of the directives and its first fix |
| `Globs`, `RuleSelection` | path patterns; selectors, the rules they select, fixability, incompatibilities, per-file ignores |
| `Settings`, `SettingsResolver` | the schema, validation and layering of settings; one invocation that looks them up and plans the check of files |
| `DocumentedSource` | what the documentation rules see of a file: definitions, their bodies, documented entries, packages |
| `ParameterRules`, `ValueRules`, `AttributeRules`, `OwnerRules`, `TypeRules` | the rules PDF500 to PDF723, one operator per rule |
| `Documentation` | a file under these rules, their fixes, and an author who answers their findings |
| `CacheProtocolProofs`, `CacheDirectoryProofs`, `FixLoopProofs`, `FileSelectionProofs`, `MarkdownRewriteProofs`, `SettingsResolverProofs` | the theorems about the modules of these names |
| `CheckProofs`, `DocstringProofs` | the theorems about `CheckBatch` and `SuppressedCheck`, and about `DocstringLayout` and `Documentation` |
| `MC...` | constants for TLC |

`CacheProtocol` EXTENDS `UncachedCheck`, which EXTENDS `Analysis`: the detailed
specification keeps the abstract variables (`disk`, `run`, `report`, `writing`)
and adds those of the cache, so the refinement mapping is the identity on them
and the abstract specification is the property `CacheTransparent`.
`CacheDirectory` looks more closely at what is one or two actions in
`CacheProtocol` (`AcquireLock`, `OpenDatabase`, `QuarantineDatabase`,
`CreateDatabase`, `CleanerRemoves`), and forgets what the rows say.
`FixLoop` opens up `Analysis!RunRulePlan` in the same way, and `CheckBatch` does
the reverse: it forgets what a text is and keeps of `format_disk_file` what its
outcome says and whether it wrote. `FileSelection` comes before all of them; what
they assume of it is that the files of an invocation are distinct.
`MarkdownRewrite` is the case of `RunRulePlan` for a file of several fences, each
of them a run of `FixLoop`; its refinement mapping to `MarkdownDocument` shows
the document only when it is finished. `SuppressedCheck` EXTENDS `Suppressions`
(which EXTENDS `Directives`, and that `Subsequences`) and `SourceEdits`: it opens up the hooks and edits
of one pass of `FixLoop`. `SettingsResolver` EXTENDS `Settings`, `RuleSelection`
and `Globs`, and its `plans` are the profile and rules other modules start from.
`Documentation` EXTENDS the five modules of rules over `DocumentedSource`.

### Analysis, UncachedCheck

`Verdict` and `Rewrite` are arbitrary functions of everything the rules may
see: engine, settings, path context, text and line ending. `RunRulePlan` keeps
the order of `_format_parsed_python_source_plan`: the line ending is resolved
once, from the text that was read. `UncachedCheck` has one action for the
analysis of a file, one each for truncating and writing it, and failures,
crashes and editors. Files are not locked and are read at one moment each.
A write that is cut short leaves the file empty here; an arbitrary prefix is
the same followed by `Edit`.

### CacheProtocol

| code | model |
|---|---|
| `clean_proofs`, `cache_state` | `rows`, `engineDay`, `pruneDay`; `dbState` for the file itself |
| `CacheSession.prepare` | `Prepare`: keys and path contexts fixed, any files without identity |
| `CacheStore.lookup` | `LookupRow` per key, `EndLookup` |
| `CacheCoordinator.probe` | `StatCandidate`, `ProbeReadFails`, `ValidateSource`, `EndProbe` |
| `format_disk_file` | `OpenSource`, `ReadSource`, `TruncateSource`, `WriteSource`, `StatWritten`, failures |
| `CacheCoordinator.persist`, `CacheStore.commit` | `Persist`, `AcquireLock`, `StoreFails`, `OpenDatabase`, `QuarantineDatabase`, `CreateDatabase`, `CommitTransaction` |
| `_prune_if_due` | part of `CommitTransaction`: `PruneDue`, `Stale`, `StaleEngine`, `PrunedRow`, `PrunedEngineDay` |
| process exit and death, editors, `pydocfmt clean`, damage, the clock | `ExitNormally`, `Die`, `EditFile`, `ChangeMarker`, `CleanerLocks`, `CleanerRemoves`, `DamageDatabase`, `ChangeClock` |

A digest is the content it is of. Every store operation may fail, which turns
the invocation into an uncached one. A transaction is one action: SQLite makes
it atomic, and nothing the code does depends on its inside.

### CacheDirectory

One action per look at, or change of, the file system. `inspect`, `claim` and
`make` are `prepare_cache_root_for_lock`, which runs before the lock and again
under it (`ensure_cache_layout`); `lock` and `recheck` are the two looks of
`mutation_lock`; `tag` and `write` are the two steps of
`_write_marker_if_missing`; `move` to `retain` are `quarantine_database` and
`prune_quarantine_files`; `verify` and `remove` are `_clean_owned_cache`.
Each locked step may fail or be the last of a process that dies. Other
programs put files into the root at any time, and spoil the database between
two holders of the lock. Left out: the `.gitignore` marker, which nothing
reads; symlinks, which every look refuses just as other odd entries; a user
who removes the root by hand.

### FixLoop

The hooks are an arbitrary but fixed function of text and line ending (`Hooks`),
chosen in the initial state: that is what "deterministic rules" means in the
code, and nothing else is assumed of them. They may find nothing, report without
a fix, raise, return edits that do not apply, claim a fix and change nothing, or
fix. What suppression comments hide is part of the outcome of the hook here;
`SuppressedCheck` has the comments. One action per step of `_run_fix_pass` for
one rule; `PassStable`, `PassRepeats` and `PassProgresses` are what
`run_rule_plan` does after a pass; `Rerun` is the user repeating the command on
the result.

### FileSelection

A path is a spelling, and `Physical` says which file it opens. `Collect...` and
the directory actions are `_collect_candidates` and `_walk_directory`, one
action per argument and per listed directory; `EvaluateCandidates` and
`ApplyGitignore` are the two filters; `PassOn`, `AcceptFirst`, `ReplaceSpelling`
and `RejectAlias` are the loop of `_deduplicated_decisions`. What patterns,
settings and Git answer for a path is the `policy` of the run: the resolver is a
snapshot (`SettingsResolver!OneSnapshot`), and the matching of patterns is in
`Globs`. `Wanted` is the decision table of `docs/public/file_selection_spec.md`,
on sets and without order. Files may vanish at any time; that one is replaced by
another between two looks is left out, as are directories that change during the
walk and standard input (`select_virtual_file` is the case of one explicit
argument).

### CheckBatch

`Probe` stands for the cache session: any files may have an identity, and any of
those a proof. `FormatNext` is the loop without a pool; `StartTask`,
`FinishTask`, `RaiseTask` and `WorkerDies` are
`concurrent.futures.ProcessPoolExecutor`, `CollectFuture` and `CollectException`
the loop over `as_completed`, and `ShutDown` the end of its `with` block, which
waits for the tasks that are left. `Outcomes` has what later steps look at in a
`FormatterResult`. An exception leaves open whether the file was written, and a
failing write whether it was cut short. Interrupts from the keyboard are left
out.

### DocstringLayout

Here the rules are no parameters but the code's own: one operator per rule,
named after it, from docstring to docstring. A docstring is a sequence of lines
and whether a newline ends it; a line has a kind (prose, header of a Google
section, entry of a section, list item, blank), the whitespace before and after
it, and a number for its text. `Reparsed` is what reading the rewritten value
again does to the last line. `setup` has the selection and what settings and
surroundings decide: margin, blank line style, the blank line after the last
section, whether the summary fits on a line, whether the last content can touch
the quotes. `ApplyRule` is the next rule of the pass that finds something, `EndPass`
what `run_rule_plan` does after a pass.

The operators were compared with the hooks of the repository on random
docstrings, about 120,000 applications of a rule, rendered to source and read
back. Left out: concatenated literals and those whose lines do not map to source
lines, which these rules refuse; escapes, except that content may not touch the
quotes; Unicode whitespace, which is content or stops a rule; other
conventions and the other blocks of `DocstringBlockKind`; and an indented line
right after a list item in a section, which belongs to the item.

### MarkdownFences, MarkdownRewrite

A document is a sequence of lines, a line its indentation and either a fence
(its character, length and info string) or other text. `Fences` is the search
of `markdown.py`, `RenderedBody` and `WithBodies` put formatted bodies back into the
indentation of their fences, and `KeepsShape` is the comparison that
decides whether the result is kept. `FormatBlock` formats the next block that
parses, with any outcome the rules may have (`OutcomesOf`); `ReturnCheck`,
`RollBackFailed`, `RollBackUnsafe` and `ReturnRewrite` are the four ways to end, with
`result` as the `FormatterResult`. The alignment `difflib` finds between old and new lines is any
alignment. Left out: byte order marks and the wording of errors.

### Directives, Suppressions, SourceEdits, SuppressedCheck

A source is its lines, each with at most one comment, by form and placement,
and the string tokens of its code. A directive has a list of tokens, classified
as `_classify_token` does. `Selectors` are the entries of all comments, with the
lines and ranges they suppress; `AuditFindings` what PCF101 says of them;
`Normalize` and `Represent` the rewrites of PCF100 and of PCF102 and PCF103.
`SourceEdits` has texts as sequences of characters, edits between positions,
their order (`InOrder`, by the rank of each), what is refused as overlapping
(`Applicable`), and the result, chunk by chunk (`Assembled`).
`SuppressedCheck` runs the selected rules in order (`CheckRule`, `CheckFails`), audits
(`AuditSuppressions`) and, under `--fix`, goes on to the first fix (`FixApplied`,
`FixRefused`); what
the rules find is part of the case, built by the constructors of
`violations.py`. Left out: the regular expressions that recognise a comment,
whose answer is its form, and the spacing of lists.

### Globs, RuleSelection, Settings, SettingsResolver

Codes are sequences, tags their beginnings, so that selection by prefix is
`IsPrefix`. `SelectRules` is `select_rules`, with strengths, extensions, setting effects,
`require-explicit`, incompatible rules, fixability and the errors reported.
`Settings` has the kinds of fields, their validation (raw values carry their
TOML type: a Boolean is no integer), nested tables, options given repeatedly, and
the layers: defaults, configuration file, inline TOML, command line, then
language defaults and per-file settings. `SettingsResolver` has the caches of
`_SettingsResolutionContext` as variables, one action for each step of a lookup,
which may fail at most of them, `PlanFiles` for `cli/check.py`, and `Edit`
for somebody who edits the configuration meanwhile.
Left out: which single segment `fnmatch` accepts (a constant), and showing the
settings. `Fields` and `Defaults` are constants: a run has some fields of every
kind.

### DocumentedSource and the documentation rules

A file is its path in packages and a sequence of definitions with the
statements the collectors of the PDF category look at. A docstring is the set of
its sections, a sequence of entries (kind, name, type, whether described,
field or item), and how far fixes can write to it (`editable`); a section of what is
returned or yielded may have text that is no entry (`TextIn`), and in Google docstrings
its entries always have a type (`EntriesAreTyped`); `attached` says which assignments have a string after
them. Each rule is an operator with the name of its class, from the state to
the set of places it reports; the operators of `TypeRules` pair reST value and
type fields as the code does. `Documentation!Fix` applies the fixes some rules
offer, `Answer` is an author who does what a message asks for: adds the missing
docstring, entry, type or description, or removes what is extraneous. An entry
has one name: a section entry for several names is several entries here. In
reST, the author removes a field together with the field it is paired with.

Fixes are declined as in the code: where the value of a docstring is not mapped to its
source, where the closing quotes leave no line for a new field, and where an empty type
field has something below it (`InsertionDeclined`). The author answers these findings.

Left out: parsing of docstrings into sections and entries, normalisation of type
expressions before they are compared, annotations of several lines, which no fix copies,
and the wording of messages.

## Runs

| run | question | instance |
|---|---|---|
| `cache_races` | do concurrent invocations, an editor, a cleaner and damage ever make a stored proof false, a report wrong, a proof vanish, an invocation hang? | one fixing and one checking invocation, one file, four contents |
| `cache_histories` | is a proof ever reused for what it does not prove, and does pruning remove what it must and nothing else? | successive invocations, either in all modes with four contents, two mtimes and two path contexts, or of two engines over three days with a TTL of one and a clock that goes back |
| `cache_directory` | do writers and cleaners that race on one root claim, store, repair and clean as they should? | two writers, one cleaner, every initial root, two failing operations, two days |
| `fix_loop` | does every run end, with a truthful report and a fixed point? | three rules, two categories, three texts, two passes, all hook behaviours from the listed outcomes |
| `file_selection` | are exactly the documented files selected, each once and under its clearest spelling? | 7 command lines, 6 policies, a tree of 6 directories with hard links, a cache, a symlink, a missing file |
| `check_batch` | are results, proofs and exit status right, whatever the workers do, and does every invocation end? | three files, all modes, one or two workers |
| `diff_status` | does `--diff` exit with 0 if there are no diffs, as its help says? It does not: the run ends with a counterexample (the fourth disagreement below) | as `check_batch` |
| `docstring_layout` | do the layout rules, in any permitted selection, settle, keep the text and agree on quotes and blank lines? | all docstrings of up to 3 lines and three longer ones, neat and untidy; all rules without opposites, and these but one |
| `markdown_rewrite` | is a document replaced as a whole or not at all, with every border between blocks and every reported line in its place? | sixty documents of one or two fences: backticks and tildes, indented, skipped, foreign, unclosed, unparsable; six formatted bodies, three of which contain fences |
| `suppressed_check` | is exactly what suppresses nothing called unused, and does rewriting or fixing keep what is suppressed? | five rules, sources of four lines: eleven lists of entries in seven forms of comment, strings of one and two tokens |
| `settings_resolution` | do settings and rules of a file come from their strongest origins, in any order of lookups and while files are edited? | three directories, two optional files, seven rules with two incompatible pairs |
| `documentation_rules` | can whatever PDF500 to PDF723 report together be answered, in any order and between fixes? | files of one to eleven definitions; every one of the rules reports in some initial state; all conventions |

**Properties.** `RowsProveClean`: every stored proof is true of its content.
`CacheTransparent`: the refinement of `UncachedCheck`. `ProofsSurvive`: a proof
goes only by cleaning, an unusable database or age. `InvocationsFinish`: an
invocation ends although another one holds the lock for ever.
`NeverClaimsData`: a directory with other people's data is not tagged.
`LockedWriterStores`: races never make a writer that has the lock give up.
`QuarantineWhole`: one failing rename does not split a database group.
`FixesExplainSource`: the reported fixes lead from the text read to the text
left. `RepeatIsError`: a cycle is an error. `FixesCompose`: a fix is computed from
the text it is applied to. `FixedPoint`: a rerun of a successful fix run changes
nothing. `Terminates`.
`SelectsAsDocumented`: the selected files are those of the decision table.
`SelectedOnce`: no two workers get one file. `ClearestSpellingKept`: a spelling
is given up only for a clearer one that stays. `ReportInFileOrder`: each result
is printed at the place of its file. `AbortsOnlyByWorker`: every file gets a
worker, so the assertion that all have results never fires. `StatusAsDocumented`:
status 0 means nothing to report, with `--diff` too, as the table of exit codes has it.
`DiffExitsAsHelped`: what the help of `--diff` says instead, which is violated.
`BatchEnds`: every invocation ends.
`Settles`: no permitted selection of layout
rules feeds itself. `ContentKept`: text and hard breaks survive them.
`LastSectionSpaced`: PDF108, PDF200 and PDF201 mean the same blank line.
`BlocksIntact`: what a reader takes for the body of a block is what the rules
left of it. `FindingsInPlace`: reported lines are those of the findings in the
document as it is left, and none is forgotten. `WholeOrNothing`: the refinement
of `MarkdownDocument`.
`UnusedIsRemovable`: the entries PCF101 reports can go, all at once, without a
change of any other report. `UsedIsNeeded`: every other entry suppresses
something by itself. `RewritesKeepMeaning`: PCF100, PCF102 and PCF103 change neither
what is suppressed nor what is unused, and settle: in either order the second pass
comes to the same lists, which the third leaves, and where a list can be rendered
the first does.
`SuppressedLinesKept`: a line that only fixes of suppressed findings would touch
stands in the fixed text, right behind what the other edits make of the text above it.
`FixIsItsEdits`: a fix is its edits one by one, in whatever order they were
planned.
`LookupsAreIndependent`: a kept result is what a lookup of its own would give,
after failed lookups too. `OneSnapshot`: while files are edited, directories
with the same configuration have the same settings. `StrongestOriginWins`: each
value of a file is that of its strongest origin. `SelectionIsFair`: of
incompatible rules the stronger stays, what falls to none stronger is reported,
and nothing else is missing.
`OwnersFallToOneRule`: an undocumented definition is reported by exactly one rule
or is exempt. `ExceptionIndexAgrees`: the index used above a number of exception
names gives what comparing all pairs gives. `AnswersSettle`: an author who does
what the messages say ends with a file without findings. `FixesOnlyRemoveFindings`:
a fix brings up no finding, and it leaves fewer of its own rule or, with as many, fewer
fields without a type field, so that fixing ends.

Proved as steps of the theorems below and not run any more: the type
invariants, `RowsHaveEngine`, `NoFixableLeft`, `RewritesReported`,
`ProofsOnlyOfClean`.

**Why the bounds are enough.** Two invocations are enough for every race of the
cache protocol: each hazard is one process acting between two steps of another,
and the proofs cover more of them. One file is enough because files meet only
in the batch of a commit, whose rows do not depend on each other, and in a lookup, whose
chunks may see the store at different times: those differ with more keys only, and it is
`CacheRefinesUncached` that covers them, for any number of files; two engines
because pruning treats the running engine and all others differently; three
days with a TTL of one put a row before, at and after the cutoff. `cache_histories`
has a state constraint, `OneWorldOrTheOther`: a file and its package change on one day
under one engine (`OneDayOneEngine`), or days and engines change around a file of one
package and mtime that is only checked (`OnePackageOneMtime`). A verdict does not depend
on the day and pruning does not look at contents, so the two together would add states
and no case; the constraint costs no liveness, which this run does not check. A text that
is fixed, its fixed form, an unparsable one and the empty one left by
truncation are all the cache can distinguish. In the directory, the second
writer is the one that sees the first half way; the second failure is the one
that meets the rollback; `MaxGroups` is 1 and `MaxAge` 0 so that both limits
are reached with two writers and two days. In the fix loop, three texts and
three rules give cycles within a pass and over passes, and two passes reach the
limit both with and without something left. In the selection, a file has up to
four spellings, found by walking, by overlapping walks and as arguments, so that
the accepted one is replaced more than once. In the batch, three files and two
workers leave one task pending while another finishes, raises or dies; one CPU
and half of it meet the rounding. A docstring of three lines has every combination of what is
before, in and after a block; the longer ones have two blocks in a section,
sections after prose, and several blank lines in each place. Two opposites never
run together, so the largest permitted selections and these without one rule
are where rules can meet; `MaxPasses` is 3, and the third pass finds nothing.
A block of a Markdown document meets the block after it, or a fence that never
closes, and both happen with two. Suppression is decided per line and per
range, and four lines have a file-wide entry, one above a run of comments, one in
it, and a string of two lines with a trailing comment behind each. Configuration is
inherited from the nearest directory that has one: three directories are one
between two others. Two incompatible pairs that share a rule are the smallest
case in which a rule dropped for one no longer excludes the other. The rules about
documentation relate one name of one definition to its documentation, and
only those about attributes look at several definitions: an owner, its methods,
and nested classes; the files have these. One entry for several names is not
in the files: an assignment to a public and a private name, of which PDF508
asks for documentation that PDF516 and PDF519 both forbid, cannot be satisfied under
these three, which nothing declares incompatible and nothing promises otherwise.
Files, contents, engines and hooks
are otherwise unbounded in the theorems.

**Fairness.** `CacheProtocol!FairSpec` assumes weak fairness of the steps of
*responsive* invocations only; other processes may hang for ever, even with the
lock. That is what the bounded lock wait and SQLite's busy timeout are there
for. `FixLoop!FairSpec` assumes that a run, a sequential computation in one
process, is not suspended for ever. `Rerun` has no fairness. `CheckBatch!FairSpec`
assumes it of the parent process, of the pool handing out tasks, and of each
task, since formatting a file terminates (`FixLoop!Terminates`); no worker has
to die or to raise. `Documentation!Spec` assumes that the author goes on as long as
there are findings; applying fixes has no fairness.

**Deadlock** is checked except where what is modelled ends: a run in `FixLoop`, a
commit or a cleaning in `CacheDirectory`, a selection, an invocation in
`CheckBatch`, a docstring or a file that settled, a Markdown document that is
formatted, a check pass, an invocation that has looked up all it wants.

## Theorems

| theorem | states | argument |
|---|---|---|
| `TypeCorrect` | `Spec => [](TypeOK /\ Shape)` | `Shape` says which stages a phase admits and what is carried in them |
| `BlocksStayIntact`, `FixesAreOfRewrites` | `BlocksIntact`; no fix is claimed for a document that stays, and one with an error stays | `IInv`: what a caller gets is the document, or a rewrite that was compared with it by `KeepsShape`, block by block; nothing else of the search for fences is used |
| `FindingsStayInPlace` | `FindingsInPlace` | `PlacedInv`: a result is the document with the findings of its blocks, or with the first ones after a rollback, or an accepted rewrite with the findings of its own blocks, whose bodies begin where its fences do; that needs the search for fences to find the same blocks in the rewrite, in order |
| `RewritesImplementPromise` | `Spec => WholeOrNothing` | every step but `ReturnRewrite` is a stutter; that one has compared the fences of old and new (`KeepsShape`), so their number is the same, and `RewriteKeepsOthers` says that the lines between and in other fences are copied |
| `OwnersHaveOneRule` | `OwnersFallToOneRule` | by cases on the kind, the visibility and the parent of a definition: the conditions of the rules about missing docstrings exclude each other, and the exemptions are what is left |
| `IndexAgrees` | `ExceptionIndexAgrees` | a qualified name matches by itself or by its last part, an unqualified one only by its last part, which is what the index has |
| `StoredProofsAreTrue` | `LineEndingStable /\ Spec => []RowsProveClean` | `Sound`: besides the rows, every candidate, planned write and snapshot in flight is true |
| `CacheRefinesUncached` | `LineEndingStable /\ Spec => CacheTransparent` | step by step: each action is the action of `UncachedCheck` on the shared variables, or a stutter; a hit is `Analyse` because the proof is true |
| `ProofsHaveEngine`, `ProofsAreKept` | `RowsHaveEngine`, `ProofsSurvive` | `StoreShape`: writers hold the lock, an opened database exists |
| `DirectoryTypes` | `TypeOK` of the directory, with mutual exclusion | only the holder is at a locked step |
| `DataStaysTheirs` | `NeverClaimsData` | a tag is created or written only by the holder of the lock, which looked at the root after it got it |
| `LockIsEnough` | `LockedWriterStores` | `Orderly`: in an undisturbed root, nothing is laid out before the tag, and the tag is empty only while the holder writes it |
| `QuarantineIsWhole` | `QuarantineWhole` | a rollback comes after a failure, so with one failure it moves everything back |
| `RunTypes`, `FixesExplain`, `NothingFixableLeft`, `RepeatReported`, `FixesAreOfTheText` | the properties of `FixLoop` | `IInv`: the counted fixes of every text seen lead to that text; only the text a pass started with, and has not left, may have nothing to fix |
| `RepeatedRunIsStable` | `FixedPoint` if all texts resolve to one line ending (`LineEndingKept`) | an error-free end has nothing to fix, so the precheck of the rerun stops it |
| `SelectionTypes`, `ClearestIsKept` | types, `ClearestSpellingKept` | `Dedup`: the position recorded for a file is that of its only accepted decision, and all others of it score no better |
| `FilesSelectedOnce` | `NormalizationKeepsFile /\ Spec => []SelectedOnce` | from `Dedup`; the hypothesis makes the displayed spelling open the file that was identified |
| `SelectionAsDocumented` | `NormalizationKeepsFile /\ Spec => []SelectsAsDocumented` | `Collection`: everything below an argument was collected, or is below a directory that is still to be walked or was pruned for the documented reason; `Filters` and `Answered`: each filter has left exactly what the policy lets it; with `Dedup`, a wanted file has an accepted decision |
| `SettingsAreOneSnapshot` | `OneSnapshot` | `Chain`: an entry of `closest` is that of the parent, or the directory's own file; `Shared`: the profile of a directory is the one kept for the source of its closest file |
| `LookupsStayIndependent` | `LookupsAreIndependent` | `IndependenceInv`: what was parsed is never parsed again, so the upward search of any directory, run over the parsed files, ends at what is kept; the property is about invocations during which nobody edits, and so is this part of the invariant |
| `StrongestOriginsWin` | `StrongestOriginWins` | `SoundProfile`: each layer is applied over weaker ones, and a value keeps the origin of the strongest that has one; of the per-file settings the last matching one |
| `SelectionsAreFair` | `SelectionIsFair` | each rule has a strongest match, as matches are finitely many; the order by strength and then code is total, so rules are taken one by one (`TakenInOrder`); a rule is kept when no rule kept before it excludes it (`Greedy`), hence one that is dropped has lost to a kept rule that is not weaker, and ties are what is reported |
| `TextIsKept` | `ContentKept` | `LayoutIInv` with `KeptIn`: rule by rule, the lines with content before and after correspond one to one (`Corresponds`), with their text, and with a hard break unless they are the last; a rule that only deletes or inserts blank lines keeps the places of the others (`SamePlaces`, `Flattening`) |
| `OneBlankLineAfterSections` | `LastSectionSpaced` | a settled docstring is a fixed point of PDF200 and PDF201; what the one does not delete and the other does not insert leaves exactly one line behind the last content, or two without a final newline |
| `AuditedIsRemovable`, `AuditSparesTheUsed` | `UnusedIsRemovable`, `UsedIsNeeded` | `PassIInv`: without errors, what was used and found is what the rules checked so far use and find; a key stands for one entry (`KeysAreDistinct`); deleting entries keeps what the others cover, form by form of comment (`LineKeepsReach`), also where the list is then empty |
| `RewritesAreSafe` | `RewritesKeepMeaning` | what a list selects depends on what its retained tokens match (`SameCodesSelect`); PCF100 normalizes these and the policies respell them (`Normalized`, `Represented`), and the two commute on lists that can be rendered (`RewritesCommute`) |
| `FixesAreTheirEdits` | `FixIsItsEdits` | `FixIInv`: only the step that ends the pass has a result, which is what its edits make of the text. Accepted edits follow one another (`Successive`), so their order is the only one (`InOrderIs`, by counting those that come no later); after the last edits down to the k-th are made, the text is what is put together up to there and the same rest (`LeftAtEdit`), down to none |
| `SuppressedLinesAreKept` | `SuppressedLinesKept` | an edit beside a line is of a text that ends above it, or begins behind it (`EditAbove`, `EditBelow`); in order, those above come first (`AboveThenBelow`), and put together over the text above they give what the whole has there (`AboveAssembled`), with the line next (`LineIsKept`) |
| `BatchTypes`, `ReportsAreOrdered`, `RewritesAreReported`, `ProofsAreOfClean`, `OnlyWorkersAbort`, `StatusIsTruthful` | the safety properties of `CheckBatch` | `Progress`: the parent goes on only when every file is at its end; `Delivery`: what it holds of a file is that file's outcome; `Effects`: what was rewritten is what outcomes say; `SomeWorkers`: a rounded-up share of the CPUs is never zero |

All hold for any constants that satisfy the named assumptions
(`AnalysisAssumption`, `LaunchesAssumption`, `NoneAssumption`,
`ProtocolAssumption`, `AbsentAssumption`, `CacheDirectoryAssumption`,
`FixLoopAssumption`, `FileSelectionAssumption`, `CheckBatchAssumption`,
`MarkdownFencesAssumption`, `MarkdownRewriteAssumption`, `FieldsAssumption`,
`ResolverAssumption`, `RulesAssumption`, `CasesAssumption`, `GoogleValuesAssumption`,
`DocstringLayoutAssumption`, `DirectivesAssumption`, `SuppressionsAssumption`,
`SourceEditsAssumption`, `SuppressedCheckAssumption`), which only give the
constants their types and keep absent values apart: the fields of `settings.py`,
directories closed under parents, finitely many rules that a `RuleCollection`
accepts at import, files that are one module and the classes and functions in it, sources whose
directives with brackets have a list, violations that are finitely many, with finitely
many edits. Some theorems have a
hypothesis of their own: `LineEndingStable` and `LineEndingKept` exclude exactly
the texts of mixed line endings for which the statement is false (the first
disagreement below), and `NormalizationKeepsFile` the paths of the third.

An attempt to prove an older form of `RewritesKeepMeaning`, that PCF100 and a
policy commute and are done after one rewrite, failed on a list that cannot be
rendered, such as a code, a blank segment and the name of the same rule: PCF100
leaves it, the policy makes it one entry, and PCF100 normalizes that in the next pass.
The fix loop has that pass, so the property now says so, and the list is among those
TLC checks.

**Only model-checked:** the liveness properties `InvocationsFinish`, `Terminates`,
`BatchEnds` and `AnswersSettle`, which are beyond the prover; `Settles`, which is
about a number of passes and so about chains of fixes of up to eleven rules;
`FixesOnlyRemoveFindings`, a statement about every pair of rules, which TLC goes
through; its files have the case where a fix takes two passes to answer its finding (the
fifth disagreement below). Recursive functions over lines and directories (`Fences`, the upward search)
are proved about without induction theorems, by the least argument for which the
claim fails; so is the numbering of the places of a subsequence, the joining of chunks
(`FlattenNext`), and the making of edits one at a time.

## Disagreements between code and documentation

The run `diff_status` shows the fourth. TLC has a counterexample of each of the first
three when the case is added to the instance: `FixedPoint` and `RowsProveClean`
over a file of mixed line endings, the age of quarantined groups over two days,
`SelectedOnce` with a path through a symlinked directory. The instances of the runs
above exclude these cases, and no run shows the violations. The fifth is in the
instance of `documentation_rules`.

1. `docs/public/cache_spec.md:90` says a clean proof is reusable across modes
   because the proven source has nothing to diagnose or rewrite. The automatic
   line ending is resolved from the text before the fixes (`formatter.py:385`); a
   fix that removes the first line ending of a file of mixed line endings makes
   the next run resolve another one, and PCF000 then has something to rewrite. The
   same step contradicts `docs_site/versioning.md:36`, which says that a
   successful fix run reaches a fixed point: the rerun changes the text.
2. `cache/directory.py:269` calls `max_age_days` the maximum quarantine age. The
   code goes by the modification time of the moved file, which the move keeps, so
   an old database is deleted by the line after the one that quarantines it.
3. `docs/public/file_selection_spec.md:56` says that accepted paths of one
   physical file are deduplicated. `_display_path` (`file_selection.py:516`)
   normalizes lexically after the file was identified, and `link/../x.py`, where
   `link` is a symlink to a directory elsewhere, becomes the `x.py` here: given
   both, `x.py` is selected twice, and the file that was meant is not. Calling
   `select_files` on such a tree shows the same.
4. The help of `--diff` (`cli/check.py:149`) says "exit 0 if there are no diffs.
   Implies fix-only." Findings that have no fix make it exit 1
   (`cli/check.py:349`), as `docs_site/checking.md:32` says. `StatusAsDocumented` goes by
   the latter; `DiffExitsAsHelped` states the former and is violated.
5. `PDF701_parameter_type_required.md:14` says that the fix adds a paired
   `:type:` field. The code puts it behind the field that lacks a type
   (`typed_documentation.py:190`) but pairs fields of one name in order of appearance
   (`rest_fields.py:162`): after `:param int a:` and `:param a:`, the inserted
   `:type a: int` falls to the first, which then has its type twice, and the finding
   stays. The next pass adds a second field in front of it, which pairs the two as
   they should be and answers the finding. So `FixesOnlyRemoveFindings` does not ask
   of one fix that it leaves fewer findings of its rule, which is false here, but that
   otherwise fewer fields lack a type field; with k such typed fields before the one
   without a type, the finding is answered in k + 1 passes.

## Not modelled

- Of the rules: delimiters and strings (PDF000 to PDF004), wrapping (PDF100,
  PDF101), empty docstrings, summaries and blank lines around docstrings (PDF202
  to PDF213), wording (PDF300 to PDF312), spelling, order and shape of sections
  and entries (PDF400 to PDF418), and the comment rules other than PCF100 to
  PCF103. Most of their decisions are about characters, columns and words, which
  the abstraction leaves out.
- Parsing: docstrings into sections, lists and entries, comments into tokens,
  inline markup, string literals, Python itself. The modules start from what
  the parsers return, and a wrong parse is outside of them.
- Registration, which runs once at import; rendering of documentation; the
  argument parser, printing, `--show-settings` and its relatives; standard
  input; byte order marks.
- Hashing: a key is the tuple of what goes into it.

`PROJECT.json` has the reason for each component. SQLite is taken to be
atomic and isolated, `filelock` to exclude and to be released by the system when
its holder dies, and SHA-256 not to collide.

## Plan

Done: the cache (`Analysis`, `UncachedCheck`, `CacheProtocol`, `CacheDirectory`),
the runs (`FixLoop`, `FileSelection`, `CheckBatch`, `SuppressedCheck`), Markdown,
settings and selection, the layout of docstrings and the documentation rules.
Left, in this order:

1. Blank lines around docstrings (PDF204 to PDF211), which insert and remove lines
   between statements and meet both the rules of `DocstringLayout` and the
   formatter of the code.
2. Order, spelling and duplicates of sections, after a model of section structure.
3. The collection of fingerprint inputs: everything that can change a verdict is
   in the key.
4. `FixLoop` with the hooks of `SuppressedCheck`: directives that move or go while
   other rules fix.

Theorems to add: that `FixLoop` implements `RunRulePlan`; `FixesOnlyRemoveFindings`,
one lemma for each fix.
