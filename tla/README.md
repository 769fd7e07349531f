# AuditZoo: specifications

TLA+ specifications of the parts of AuditZoo in which the order of things
matters: the in-memory code graph that concurrent agents share; the Joern
servers that a sweep starts and stops; the sweep that runs for days and has to
survive hangs, kills and restarts; the refinement loop of the study, in which an
LLM judges findings and changes what the next iteration looks for; and the
programs that make the dataset and the seeds, which know of each other only what
they find in files. TLC checks each on small instances; every invariant it
checks is also proved with TLAPS for all instances.

## 1. The system

AuditZoo runs analysis *agents* on a code property graph (CPG) that Joern
builds. The study in this repository (`agents/cwe78_study`) looks for command
injection: two tool *arms*, Semgrep and Joern, scan a repository, an LLM triages
the findings and proposes refinements, and the loop repeats. An evaluation
harness runs that over a dataset of CVEs.

| Component | State | Operations | Talks to |
|---|---|---|---|
| IR view (`core/ir/view.py`) | networkx multigraph of units and relations with their facts, `_type_index`, four `_loaded_*` sets | get/fetch units, relations, facts; preload, sync, reload, cleanup | awaits the backend |
| IR storage agent (`core/agents/ir_storage_agent.py`, `base.py`) | the view | one handler per `ir.*` message | called by agents through the AutoGen runtime |
| Analysis runtime (`core/runtime/runtime.py`) | backend, view, message loop | `initialize`, `start`, `stop`, `register_agent`, `send_message` | creates backend and view |
| Joern client, backend (`backends/joern`) | `_process`, `_connected_core`, `_connected` | connect, query, disconnect, reload | a JVM over TCP, the workspace on disk |
| CPG cache (`cpg_cache.py`, `build_cpg_cache.py`) | one directory per repository and commit | locate, hit test, metadata, offline build | opened by the client |
| Study pipeline (`pipeline.py`) | the iterations of a run | connect with retry; scan, triage, refine; clean up | arms, agents, runtime |
| Joern arm (`joern_arm.py`) | catalogs of sources, sinks, sanitizers | strict scan, three recovery passes, merge of their records, expansion | the view |
| Semgrep arm (`semgrep_arm.py`) | the rule set as YAML | scan, apply a refinement | the `semgrep` program |
| Triage and refinement agents, LLM client | usage counters | verdict on a finding, with a brake on citations; proposal for rules, classification of helpers, with a gate for sinks | an HTTP service |
| Evaluation harness (`scripts/run_evaluation.py`) | `all_results`, `results.json` | one CVE after the other with a time budget, labelling, saving | pipeline, git, `pkill` |
| Sweep wrapper (`run_joern_validation_full.sh`, `run_joern_sweep.py`) | resume counter | relaunch until every CVE has a row | harness by exit code and file |
| Dataset collection and supplement (`scripts/dataset_collection`) | six checkpoints, diffs, `metadata.json` | six phases, single phases, resume; supplement, validate | GitHub, NVD, OSV; files |
| Sweep programs, seed cache (`splitEvaluations`) | run configurations, cached seeds | choose and split the CVEs; train, cache, reuse, bootstrap a seed | `metadata.json`, the seed model |
| Audits, roll-ups | result files | tables | files |

What is hard about it, and what has to be true:

* *Interleaving.* The handlers of the IR storage agent are coroutines on one
  event loop and take no lock. They interleave at each await of the backend, so
  what a coroutine read before an await may be wrong after it. Correct means:
  index, graph and loaded flags agree at every moment; a flag that stops the
  view from asking the backend never hides anything; the graph shows no relation
  the backend does not have; every request is answered.
* *Processes.* A Joern server outlives the client that started it, and a client
  takes whatever listens on the port for its server. Correct means: no run talks
  to the server of another run, and a server left behind does no harm beyond the
  CVE that left it.
* *Time.* Any run may exceed its budget, and its clean-up may hang as well; then
  the process exits with 124 and a wrapper resumes. Correct means: the sweep
  ends, no CVE has two rows, "done" means that nothing is missing.
* *Crashes.* Kills and write errors strike between any two steps. Correct means:
  no recorded CVE is lost.
* *Replies.* The LLM may answer anything, and what it says is scored, and used to
  change the next scan. Correct means: an expression it cites was in what it was
  shown; a sink it adds wraps a sink that was there; refinement never loses what
  was found; what an iteration reports is what it did.
* *Long protocols through files.* The programs of a study run one after the
  other, in an order the operator chooses, and each trusts the files of the ones
  before. Correct means: the dataset has one usable record per CVE, located by
  its own patch; every advisory is accounted for; a seed is evaluated on a CVE
  it was trained on only where the operator lent it the fingerprint of another
  split.

`PROJECT.json` lists the components and, with their lines, the hazards.

## 2. Modules

| Module | Models |
|---|---|
| `IRView` | IR view behind the handlers of the IR storage agent |
| `IRViewOverlap` | `IRView` with the history of who was overtaken by a clear or a reload |
| `ResultsLog` | what a resumable sweep promises about its results (abstract) |
| `Sweep` | wrapper, sweep process, results file; implements `ResultsLog` |
| `JoernSession` | servers, port, client, CPG cache over one sweep |
| `SinkCalls` | what the modules about findings share: calls, sources, kinds |
| `Selection` | what a filtering loop makes of a list: the elements at given positions |
| `Dedup` | the merge of query records into findings, record by record |
| `Catalog` | which names enter the catalogs, what the four queries find with them |
| `Rules` | the Semgrep rule set and its refinement |
| `Triage` | evidence, verdicts and the brake of the agent; labels and scores of the harness |
| `Study` | one `Pipeline.run`: both arms, all iterations, composed of the five above |
| `PatchDiff` | what is read out of the diff of a patch, and what it should say |
| `Collection` | the six phases of the dataset collection, their checkpoints and kills |
| `Supplement` | records from other sources, merged into the dataset; the validation |
| `Seeds` | choice and split of the CVEs of a sweep, seeds and their cache |
| `Campaign` | the three above, started in any order over the same files |
| `MCIRView`, `MCIRViewOverlap`, `MCSweep`, `MCJoernSession`, `MCStudy`, `MCCampaign` | instances for TLC |
| `IRViewProofs`, `IRViewRestartProofs`, `JoernSessionProofs`, `SweepProofs`, `DedupProofs`, `StudyProofs`, `CampaignProofs` | inductive invariants and theorems |
| `SelectionProofs` | lemmas: induction over the naturals, recursive functions, counting, what `Kept` returns |

The order in which they were written follows the risk: first what is concurrent
(`IRView`, `JoernSession`, `Sweep`), then the core of the study (`Study`), then what
feeds it (`Campaign`).

### IRView

State: `nodes`, `version`, `facts`, `edges`, `index` are `self._graph` (insertion
order included, because two coroutines iterate over the live dict) and
`_type_index`; the `loaded*` variables are the four `_loaded_*` sets, for one
relation kind. `version` says from which CPG the unit on a node was built; 0 is
a node without the `unit` attribute, which networkx creates when an edge names a
missing end. `cpg` and `tags` are the backend.

A request is a *script* of phases, one per coroutine that its handler awaits
(`reload` is clear, backend reload, kinds, relations, facts). `running` is the
task that holds the event loop: a step between two awaits can be taken only by
that task, an `Await` releases the loop, and an answer (`UnitArrives`,
`AnswerArrives`, `TagStored`, ...) or an exception (`BackendFails`) takes it again
at any later moment. The answer is computed when the query is issued; the backend
works in order. `Obtain` is the pattern
"present, or ask the backend, or give up" of `get_unit` and `has_unit`.

A few things are abstracted: units are model values with a fixed kind, a fact is
counted and not described, one relation kind is modelled, and an exception is one
outcome, the failed response. `backend.reload` is several queries (`backend.py:95-117`);
the model has one await for them and changes `cpg` when the answer arrives.

Nothing keeps requests apart: the handlers take no lock (the TODO at
`ir_storage_agent.py:116` wants one). `IRViewOverlap` therefore adds history variables,
which restrict no step. `overtaken` has the tasks that are in a phase during which
another task cleared the view or reloaded the backend. `late` has the entries of the
view (units, edges, marks) that such a phase put there. `dirty` has, for each cleanup in
progress, the units that got a fact since it began, or all of them if the CPG was
replaced. The four properties then say what the view promises under overlap: only what
is `late` is old or incomplete, only what is `dirty` is lost.

### Sweep and ResultsLog

The wrapper's loop (`Cycle`, `ProcessExited`), an operator who starts it again
(`Relaunch`), the process (`Load` to `WriteResults`, `pc` follows
`run_main_comparison`) and the file (`disk`: absent, torn, valid). `Endings` says
how `pipeline.run` may end on a CVE: it returns, raises, exceeds its budget, or
hangs beyond the five seconds of grace, which is exit 124. Faults: a kill, an
`OSError` while saving, Ctrl-C. `ResultsLog` is the promise: CVEs are recorded
one at a time, and recorded CVEs are lost only when a fault strikes during a
save. `RecordsResults` states the refinement: recorded are the CVEs in the file
or, during a save, those it is going to hold.

### JoernSession

`jvm` and `port` are the operating system's: a server boots, binds the port if it
is free (else it ends) and stays until killed. The sweep process is sequential,
`pc` names its place: harness (`StartCve`, `NextRun`, `Finally`), connection
(`Construct` to `PreloadView`: the port check in the constructor, `Popen`, the
wait for *any* listener, the workspace queries, predefined scripts, the preload
of the view), scan, `stop()`, and the second attempt. `connected` is what `stop()`
looks at: it becomes true only when `create_backend` returned, so an attempt that
fails earlier has nothing to disconnect and its server stays. `BudgetExceeded` may
strike at each await and kills every server, `GiveUpOnHungTask` is exit 124,
`Crash` kills the sweep process but not its servers. A query may stay unanswered
for ever; only the budget ends it.

`projects` is the cache: `connect` imports the code when Joern does not list the
project and opens it otherwise. An import that was cut short leaves a partial
project, and whether Joern lists that one is left open.

Two history variables serve the properties: `late` is the server that bound the
port when no client had it any more as its own, `troubled` says that something
failed in the present run.

### Study and its parts

`Study` is sequential: every call is awaited, and nothing else runs. What makes it
hard is the length of an iteration, the number of calls that may fail in it, and
how much later the same data are looked at again. `pc` names the place in
`Pipeline.run`: connect, scan (`SemgrepScan`, `JoernScan`), the strict merge, the
recovery passes, the second merge, triage, refinement, report. `Raise` is an
exception: it ends the Joern arm with what it had reported, or with an error row
if that is nothing, and the whole run when it happens in the Semgrep arm. Semgrep is
called with a time limit, the LLM with that of its client library; a Joern query, or the clean-up after the last, is
not, and may be answered never (`Hang`). Then only the budget of the harness ends the run
(`BudgetSpent`: a cancellation, which no handler of the run catches, so that its results
are lost), and not even that with `--per-cve-timeout 0`, the configuration
`budget = FALSE`.

`Dedup` is the loop of `_parse_taint_results`, one action per record. It runs twice
per iteration: over the records of the strict query, and over the findings of
that, turned back into records (`Rebuilt`), followed by the records of the
recovery passes. `Catalog` takes the analysed program as data: its calls, data
flows and call graph in the order in which Joern lists them; a query is the set of
conditions it puts on them, with its `.take(N)`. `clean_catalog_entry` is a function
`Cleaned` on names, idempotent as the code's is. `Rules` has a rule as a value with
an id and the calls it matches, and every kind of reply `apply_refinement` tells
apart. `Triage` has a text as the set of source expressions that occur in it, once
as the agent sees it (`TriageText`) and once as the scorer rebuilds it
(`ScorerText`); `label_findings` may match a finding with any line within the
tolerance, as the code takes the first of a set.

### Campaign and its parts

One program runs at a time. `pc` is the file it works on, `saving` that it has the
rows and writes them; a kill while it works keeps the diffs written so far, a kill
while it saves leaves a prefix of the records or a file that cannot be read, for a
JSON document always the latter. A program that cannot read its input ends at
once, which is no step.

`PatchDiff` models the parser twice: as the code has it, in one pass with a state,
and as a statement about the diff as a whole (`PlaceOf`): the first Python file that
it touches, with the old numbers of the lines removed there, or, if there are none, the
number the counter has reached where the section ends. `LocationFromPatch` compares
them in every case. `Collection` has an action per record for the phases that call
GitHub, because their failures are per record and the diffs are written one by
one, and a step for the whole of a phase that reads only. `Supplement` reads what
`Collection` left. `Seeds` has one action per sweep program; what a sweep does with
a CVE is the matter of `Sweep` and `Study`. A sweep may die between caching its seed
and writing its configuration. A sweep with `--seed-source-run-config` uses the
cache slot of the run it names, whether it is targeted or has a split of its own; in
the second case its seed, if it has to make one, is trained on its own training part
and filed in that slot. The history variable `misfiled` has the slots that hold such a
seed.

A run starts with a checkout, which holds the shipped dataset and no checkpoints,
or with an empty directory.

## 3. Runs

| Run | Instance | Question, result |
|---|---|---|
| `irview_concurrent` | 2 handlers at a time, 2 requests, 2 kinds, every kind of request, backend failures, reload and cleanup during other requests | `IndexMatchesGraph`, `LoadedUnitsPresent`, `EdgesSound`, `RequestsAnswered` hold |
| `irview_overlap` | 2 handlers at a time, 3 requests, reloads and cleanups overlapping each other and any other request, backend failures | `EdgesHaveUnits`, `RelationsComplete`, `SyncedBeforeClear`, `ViewIsCurrent` hold |
| `irview_tracked` | as small as the case allows | `AllNodesTracked` is violated |
| `irview_facts_kept` | as small as the case allows | `FactsKept` is violated |
| `sweep_resume` | 6 CVEs, one of each fate, patched runs, 2 resumes, 1 relaunch, 2 faults | `OneRowPerCve`, `CompleteWhenDone`, `RecordsResults`, `WrapperStops` hold |
| `sweep_kill` | 2 CVEs, 1 kill | `FinishedWorkKept` is violated |
| `sweep_starved` | 2 CVEs, the first hangs always, 4 resumes | `OthersRecorded` is violated |
| `joern_sweep` | 2 CVEs, 3 runs, 3 servers at a time, slow and dying servers, 2 restarts | `NoPortCascade`, `OwnServer`, `CleanRunLeavesNothing`, `SweepEnds` hold |
| `joern_stop` | 1 CVE, 1 server, no crash | `StopReleasesServer` is violated |
| `joern_cache` | 1 CVE, 1 restart | `ScansCompleteProject` is violated |
| `study_loop` | 3 sink calls, 6 flows, 10 names, 3 rules, every kind of reply; both arms with 2 refinements, the Joern arm without recovery, both arms without an LLM; with and without a budget; 1 failing call anywhere, any Joern query hanging | 14 invariants and `RunEnds` hold, see below |
| `campaign_files` | 7 advisories of 5 CVEs, 2 answers of OSV, 2 of the NVD, 5 commits; 3 commands, 1 failing call, 1 kill, 1 dying sweep | 6 invariants hold, see below |

What `study_loop` shows: the merge keeps every sink call, its strongest record and
exact counts (`EverySiteOnce`, `StrongestRecordWins`, `MergeIsExact`), over both merges
and with queries missing (`CandidatesKept`); the brake of the agent and the one of
the scorer agree (`BrakesAgree`); whichever lines the findings are matched with, the
score fits together: its positives are the verdicts the LLM committed to, it misses
all lines exactly when it has no true positive, and true positives and missed lines
make up the lines exactly when no line was credited twice (`ScoreAddsUp`); catalogs stay clean (`CatalogClean`), helpers cannot
vouch for one another (`SinksGrounded`), refinement never loses a strict hit
(`HitsPersist`), and an iteration that reports no change is followed by one that
finds the same (`NoChangeNoNews`); results have keys of their own, errors included
(`OneResultPerKey`); tokens are booked on the right iteration (`TokensAttributed`), and
none without an LLM (`BaselineIsFree`); the run ends, unless a query hangs and there is
no budget (`RunEnds`).

What `campaign_files` shows: the dataset has one record per CVE (`OneEntryPerCve`);
what passes `validate()` has both commits, from whichever checkpoint it was made
(`ValidatedIsUsable`); locations come from the patch of the record
(`LocationFromPatch`); a collection from the beginning accepts or truthfully
rejects every advisory (`AdvisoriesAccounted`); the sample has its size and its
minima (`SampleIsStratified`); a sweep is evaluated on training CVEs of its seed only
after a fingerprint was borrowed, by it or by the sweep that filed the seed
(`LeaksAreBorrowed`).

The violations are disagreements between the code and what it says of itself:

* A unit that enters the graph after its relation kind was loaded never gets its
  relations, although "we track all nodes" (`view.py:340`).
* Loading a kind re-adds units that are already there and wipes their facts
  (`view.py:183`).
* `_save_json` truncates and then writes; a kill in between loses every row,
  although the resume is "without losing any completed CVEs"
  (`run_evaluation.py:579`).
* A CVE that hangs each time is first in each cycle; the wrapper gives up with
  the others unprocessed.
* `backend.disconnect` sends four queries before it stops the server; one that
  raises keeps the server alive, although the step "must always execute"
  (`runtime.py:131`).
* An import that was cut short is opened, and scanned, by the resumed run,
  although the cache is "never a regression" (`pipeline.py:791`).

*Bounds.* `MaxRequests` and the two tasks bound `IRView`: each of its hazards
needs two coroutines, one suspended at an await and one that changes what the
first has read, and three requests let a third prepare or observe. Two units of
one kind and one of another, with two relations into one of them, tell
apart source and target, the kinds, and a look-up that fails (one id the backend
does not know). `irview_overlap` uses symmetry over tasks; it checks
invariants only. It has no unknown id and leaves out the kinds of request that are
phases of `reload` or `cleanup` (`load_facts`, `sync_backend`, `preload_from_backend`,
`get_all_relations_by_kind`), and `fetch_unit`, which awaits the unit it adds as `get_unit` does; with these 3
requests are enough for a coroutine that is overtaken, the one that overtakes it, and
one that finds what is left. The theorems about the four properties have all requests. In `Sweep` the third CVE may end in every way, the others bring
in what the loop skips; two faults let a fault strike during the recovery another one. In `JoernSession` three servers are a leaked one, one that boots late
and the client's own; two restarts allow a crash after a crash. In `Study` the
program has a call that only strict flows reach, one that only recovery reaches,
and a wrapper that refinement has to discover, with a wrapper of the wrapper, so
that two refinements are needed and enough; one failing call is enough because
every call ends in one of three ways and a second failure finds the state of an
iteration that lost one. In `Campaign` three commands let one program read what a
second made of the files of a first; among the advisories are one CVE twice with
different commits, two CVEs in one place, a tag that cannot be dereferenced and a
patch without a Python file, and the numbers are so small that the sample has to
choose.

*Restrictions of an instance.* `JoernSession` takes it that
`pkill -9` works and that the port is free when the wait of the reaping ends.
`Campaign` has `--resume` with phase 0 only (a single phase loads the checkpoint and
does not use it), and no `--seed-cache-fingerprint` given by hand; `LeaksAreBorrowed` is about
runs with a training part of their own, or targeted reruns inside the validation
part of the run they name: the code promises nothing for others. In it, the programs
of the collection and the sweeps share one dataset; at this commit they do not,
because `ROOT` is the directory `scripts` (`collect_cwe78_dataset.py:49`) and the sweeps
read the shipped file. Who copies the one over the other is left out, so the model has
more behaviours than one checkout.

*Fairness.* Weak fairness only, and only of what has to happen by itself: a
suspended coroutine is resumed and the backend answers or raises
(`IRView`); the processes run, budgets expire, booting servers come up (`Sweep`,
`JoernSession`). New requests, operators, faults and the answers of Joern are
owed by nobody: in `JoernSession` a query that is never answered is ended by the
budget. In `Study` the next-state relation without `Hang` is weakly fair: the run is one
coroutine, a call is answered, fails, runs into its limit or hangs, and which of these
is left open. No fairness is asked of an answer of Joern: `Hang` may take its place, after
which only `BudgetSpent` can follow, and only if the harness has a budget; it is what
`asyncio.wait` with a timeout guarantees (`run_evaluation.py:516`). `RunEnds` says that every
run ends but one that hangs without a budget; it would be false if a loop over
iterations, findings or neighbours could go on for ever.
`Campaign` states safety only; nobody has to start a command.

Deadlock is not checked: each instance stops when its bound on requests, CVEs,
restarts or commands is reached, or when the run is over.

### Observed, not run

Reading the code for `Study` and `Campaign` showed more places where code and text
disagree. They need no state space, so they are listed and not run.

* `joern_catalog_grew` is true in the first iteration even without an expansion, as
  the snapshot of an arm that does not exist yet is empty (`pipeline.py:906`).
* With `triage_disabled` the Joern arm fails at `pipeline.py:998`, as there is no triage
  agent; the comment at 550 takes the arm to run. The Joern arm of a baseline is
  an error row.
* `pipeline.py:679-682` says that `label_findings` scores the uncertain verdicts of a
  baseline "as raw Semgrep would (TP on GT-line match, FP otherwise)", and the help of
  `--no-triage` (`run_semgrep_sweep.py:98-102`) builds on it; an uncertain verdict is
  neither, so that a baseline always has tp = fp = 0 and misses every line.
* tp counts findings and fn counts lines: two findings credited to one line are two
  true positives, and tp + fn exceeds the number of lines (`ScoreAddsUp` says when).
  `fn_by_llm` is called a subset of the total FN in `run_evaluation.py`; a finding that the
  LLM rejected near a line on which another was accepted is in the first only.
* `verify_sink_wrapper` is called structural, but a sink that the LLM names as its
  evidence is not compared with the code.
* A source that is the sink itself is replaced by an alternative only when the
  finding has one; findings of the strict query come back with one source.
* A reply of the LLM that is JSON but no object raises `AttributeError`, although
  "keep" is called the safe default.
* Of two vulnerable lines within the tolerance, a finding on one may be credited to
  the other.
* `result.metadata["llm_usage"]` is that of the last iteration.
* The docstring of `apply_refinement` (`semgrep_arm.py:198-201`) says that the rules are
  always serialised again, even for "keep"; that reply returns before (203-204).
* With `--seed-source-run-config` and without `--only-cves` (`run_semgrep_sweep.py:138-148`), a
  sweep evaluates its own validation split with a seed found under the fingerprint of
  another split, which may have been trained on these CVEs; and if it finds none, it files
  a seed trained on its own training part there, for later sweeps of the other split to
  find. `LeaksAreBorrowed` says that this is the only way.
* For a patch that only adds, `vulnerable_lines` is one number: where the counter stands
  when the section ends, which counts the hunks to their end and then the headers
  (`diff --git`, `index`) of the next file. The docstring
  (`collect_cwe78_dataset.py:668-669`) and `DATASET.md:86-89, 305-308` say context
  lines around the addition, and no lines at all.
* The parser takes the first Python file touched, a `version.py` or a test if it comes
  first; `validate_dataset.py:127-131` knows, `_parse_diff_for_vuln_lines` does not say so.
* The supplement reads `baseSeverity` from the CVSS 2 data of the NVD as well
  (`supplement_huntr_osv.py:358-363`), which have none: the severity becomes "".
* A rejection reason stays: a second `--phase 3` that resolves the commit does not
  make the record acceptable.
* `--phase 3` or `--phase 5` after a whole run starts from `filtered_accepted`, so that the
  earlier checkpoints lose the rejected records; "most recent" checkpoint means
  that of the latest phase (`_find_latest_checkpoint`). In a used directory the
  phase-by-phase rebuild of `DATASET.md:203` repeats nothing but phase 1.
* `--resume` takes a checkpoint that was cut short for a complete one.
* `rstrip("~1")` in `_fetch_commit_diff` also strips trailing 1s of a commit.
* Records without a Python file all have the location `("", [])`, and all but the
  first of a repository are rejected as duplicates.
* `supplement_huntr_osv.py --dry-run` writes diffs; of two sources with different
  commits the first record is kept beside the diff of the last.
* The minima of the bins may together exceed `target_n`.
* A targeted rerun with `--force-seed` caches a seed of no examples under the
  fingerprint of the run it names.
* Under overlap, and only there: an edge may have an end without a unit, a mark may be set
  with edges missing, a unit of the old CPG may stay after a reload, and a cleanup with
  sync may drop facts that were never stored. TLC finds each of the four when the
  exception for `late` or `dirty` is taken out of the property; the code has the TODO for
  a lock, and no text that denies it.

## 4. Proofs

Every invariant that a passing run checks is proved, for every value of the
constants, and so are the refinements `RecordsResults` (of `ResultsLog` by `Sweep`)
and `RunImplementsDedup` (of the merge on its own by the merge inside a run). For a
property that a run refutes, it is proved how far it is true: which step alone
breaks it, or under which condition it holds. Each proof follows one pattern: an
inductive invariant, a lemma per action that keeps it, and a theorem that puts them
together.

### The view

`IRViewProofs`, for any tasks, units, kinds, backend relation and number of
requests, reload and cleanup at any moment:

* `TypeCorrect`: `Spec => []TypeOK`,
* `IndexAgrees`: `Spec => []IndexMatchesGraph`,
* `LoadedFlagsHideNothing`: `Spec => []LoadedUnitsPresent`,
* `NoInventedRelation`: `Spec => []EdgesSound`,
* `FactsLostOnlyByReAdding`: `Spec => FactsLostByReAdding`,
* `FactsKeptUnlessReAdded`: `Spec /\ [][\A t \in Task : ~ReAdded(t)]_vars => FactsKept`.

The first four follow from `IInv` (theorem `Invariance`). Its parts: `LoopOK` types the scripts and
the locals of every suspended coroutine and says that only a task with a script
runs or waits; `GraphOK` types the graph and holds `IndexMatchesGraph`; `LoadedOK` holds
`LoadedUnitsPresent`; `CountersOK` the counters; `KindProgress` is what makes
`LoadedUnitsPresent` inductive: while a coroutine goes through the units of a kind,
the units it has already taken up are in the graph, which no other coroutine can
undo because the loop has no await there. `EdgesSound` rests on the part of `LoopOK`
that ties `cur`, `tgt` and `left` to the backend's relation at each place of the
program.

The last two give the extent of what `irview_facts_kept` shows. Three places call
`_add_unit`; the one of `fetch_unit` looks whether the node is there and never drops a
fact, because a node that is absent has none (`FactsOnUnits`, an invariant on top of
`IInv`). The other two lose the facts of a unit that is there, and of no other.

`IRViewRestartProofs`, for the same, with the history of `IRViewOverlap`: reloads and
cleanups overlap anything.

* `ReloadLeavesNothingOld`: `HSpec => []ViewIsCurrent`,
* `RelatedUnitsAreThere`: `HSpec => []EdgesHaveUnits`,
* `LoadedRelationsComplete`: `HSpec => []RelationsComplete`,
* `ClearLosesNoFact`: `HSpec => []SyncedBeforeClear`,
* `TrackedUnlessJoined`: `HSpec /\ [][~JoinsLate]_hvars => [](<<"loaded", NoUnit, "out">> \notin late => AllNodesTracked)`.

`RInv` is used on top of `IInv`. `Shapes` says where in a script a clear may stand,
`Overtakes` that a reload of the backend overtakes all that is under way. `Local` has two
parts. Of a coroutine that was not overtaken it says that it comes back from an await to
find the nodes it had looked up, of the CPG it had asked (`Linking`, `FromCurrent`):
that is what an overtaken one may not rely on, so that all it adds is `late`. Of any
coroutine it says that whatever the view holds during a reload is late (`AllLate`),
which is why nothing has to be current when the CPG is replaced; and that a sync that
precedes a clear has stored the facts of the nodes it has passed, but for those that
became `dirty` (`Syncing`). The sync itself needs no exception for being overtaken: if
the nodes change under its iterator, the request fails before it reaches the clear, and
if they were cleared, there are no facts to lose but new ones.

`TrackedUnlessJoined` says how much of `AllNodesTracked`, which `irview_tracked` refutes, is true:
when `get_all_relations_by_kind` sets its mark without having been overtaken, every node has
its edges, although units and edges may have been added at each of its awaits, and only a
unit that joins the graph after that makes the mark untrue (`JoinsLate`). It rests on
one more invariant, `TInv`: the nodes that the iteration has passed have their outgoing
edges, but for the one it is at. That survives the others' steps because, without a clear,
nodes are only appended and edges only added (`Ordered`), so positions passed stay
passed; the node it is at becomes complete by `Linking`.

### Servers and sweeps

`JoernSessionProofs`, for any servers, projects, list of CVEs and number of
restarts, with or without slow servers:

* `SessionTypeCorrect`: `Spec => []TypeOK`,
* `NoCascade`: `Spec => []NoPortCascade`,
* `TalksToOwnServer`: `Spec => []OwnServer`,
* `CleanRunsLeaveNothing`: `Spec => []CleanRunLeavesNothing`,
* `UncutImportsAreComplete`: `Spec /\ [][~ImportCut]_vars => []ScansCompleteProject`,
* `QuietStopReleases`: `Spec /\ [][~DisconnectFails]_vars => []StopReleasesServer`.

The invariant is `SInv`: from the first port check of a CVE until its run reaches
`stop()`, the port is free, held by the client's own process, or by a latecomer;
and no client owns a process while none should be (`construct`, `spawn`, `start`).
The second half is needed because a server that binds the port is a latecomer
exactly when the client has forgotten it. `CleanOK` is kept beside it, for runs in
which nothing failed: the client is connected when `stop()` is called, which is
why `stop()` does disconnect, and the port is given back there.

The last two are what is true of the properties that `joern_cache` and `joern_stop` refute, with
the one step excluded that breaks each; everything else may still fail, hang, die
or be restarted. For the cache, `ProjectsOK`: a project is partial only while its import
runs, so what `connect()` finds and opens without importing is complete.

`SweepProofs`, for any list of CVEs, ways for a run to end, faults, resumes and
relaunches:

* `SweepTypeCorrect`: `Spec => []TypeOK`,
* `RowsStaySingle`: `Spec => []OneRowPerCve`,
* `DoneIsComplete`: `Spec => []CompleteWhenDone`,
* `SweepImplementsLog`: `Spec => RecordsResults`, that is `Log!Spec`,
* `WorkLostOnlyMidSave`: `Spec => LostOnlyMidSave`,
* `WorkKeptWithoutKills`: `Spec => FinishedWorkKept`, if the only faults are Ctrl-C,
* `EarlierCvesRecorded`: `Spec => []GivesUpBehindAHang`,
* `OthersRecordedIfHangsLast`: `Spec => []OthersRecorded`, if `MaxResumes` is not 0 and the CVEs that
  hang come last.

While a process runs, a CVE is still to do, has its row, or is in hand. The
invariant says that no CVE is in two of these places (`RowsOK`), that a CVE which
must have a row is in one (`CoverOK`), and that outside of a save the rows of the
process are those of the file (`PlaceOK`). `CoverOK` leaves out the save on Ctrl-C, in
which the CVE in hand is dropped: that save ends with exit code 130, which is never
"done". The refinement needs in addition that a file about to be overwritten holds
no CVE that the process does not have.

The last four give the extent of the two findings. A finished CVE is lost only by a kill
or a failing write between the truncation and the end of the write of `results.json`: the same argument as
for the refinement. That the wrapper starves the CVEs behind one that hangs, and only
those, is `HInv`: the process takes the CVEs up in their order, so that when it ends with
exit code 124 all that come before the hanging one are recorded, and stay so until
the wrapper has counted its resumes (`Hung`).

### The study

`DedupProofs` proves the three promises of the merge (`MergeListsEverySite`,
`MergePrefersStrongest`, `MergeLosesNothing`) for any records in any order. They speak
of the records the loop has been through, so together with the types they are
inductive: a turn adds one record and changes one finding.

`StudyProofs`, for any program under analysis, any replies, configurations and
failing calls:

* `StudyTyped`: `Spec => []TypeOK`,
* `RunImplementsDedup`: `Spec => DedupSpec`,
* `CandidatesAreKept`: `Spec => []CandidatesKept`,
* `CatalogsStayClean`: `Spec => []CatalogClean`,
* `SinksStayGrounded`: `Spec => []SinksGrounded`,
* `HitsAlwaysPersist`: `Spec => []HitsPersist`,
* `NoNewsWithoutChange`: `Spec => []NoChangeNoNews`,
* `ScoreAlwaysAddsUp`: `Spec => []ScoreAddsUp`,
* `BrakesAlwaysAgree`: `Spec => []BrakesAgree`,
* `TokensAreAttributed`: `Spec => []TokensAttributed`,
* `BaselineStaysFree`: `Spec => []BaselineIsFree`,
* `ResultsHaveTheirKeys`: `Spec => []OneResultPerKey`.

Each rests on an invariant about a few variables.

* `TypeInv` joins the types of all variables with the promises of the merge, because
  a finding of the first merge becomes a record of the second, and would not be
  typed as one without them. As every step of a run is a step of the merge or
  leaves its variables alone, and both merges start as `DedupInit` says,
  `RunImplementsDedup` follows, and with it the theorems of `DedupProofs` about a run.
* `QueryInv` says what the list in hand carries at each place: the calls that the
  queries which did not fail have found with the catalog of this iteration, through
  the strict merge, each recovery pass and the second merge.
* The argument for the sinks: a part of the grown catalog that has the configured
  sinks either has all of the catalog before, and then any name that is new and
  missing was let through by a sink of that catalog; or it misses some of it, and
  then the part of the old catalog it has is one the invariant speaks of.
* `NewsInv` compares iterations. A larger catalog reaches more, and catalogs only
  grow, so a strict hit persists. "No change" is decided on the sizes of finite
  lists: a list that grew and has the size it had is the same list. Hence
  the catalogs of two iterations with no change between them are equal, and so is
  what they find if no query failed. For the rules it is the sequence itself
  that did not change.
* `BrakeInv` says that the evidence on each finding is the one the agent is given,
  from the moment it is stamped to the report; `EarnedInv` that a true positive that
  stands cites a text in it. Hence the agent's commitments are the scorer's positives, and
  the rest is counting: fn counts the lines outside the image of the credits, and a
  function is injective on a finite set exactly if its image is as large.
* `ResultsInv` gives the position of each result by its arm and iteration, so that an
  error can only stand where the first iteration of the Joern arm would.

### The dataset and the seeds

`CampaignProofs`, for any advisories, patches, answers, limits, files and order of the
commands, killed or not:

* `FilesTyped`: `Spec => []CollectionTyped`,
* `LocationsComeFromPatches`: `Spec => []LocationFromPatch`,
* `ValidatedStaysUsable`: `Spec => []ValidatedIsUsable`,
* `EntriesStaySingle`: `Spec => []OneEntryPerCve`,
* `EveryAdvisoryAccounted`: `Spec => []AdvisoriesAccounted`,
* `SamplesStayStratified`: `Spec => []SampleIsStratified`,
* `SweepsLeakOnlyBorrowed`: `Spec => []LeaksAreBorrowed`.

Their invariants, with the files in mind rather than one program:

* *Types.* A `Row` is a `Record` that is honest about itself: a patch commit comes with
  the vulnerable one, a diff with a patch commit whose place the location is, and
  a record whose commit was not resolved has no diff. `CollectionTyped` says that all
  records in memory and in files are rows, those of a torn file as well.
  `ValidatedIsUsable` is a consequence: `validate()` asks for a diff, and a row has
  everything else then.
* *Parser.* `Parsed` relates the state after i lines to the diff up to there:
  `InSection` says that the lines collected are the old numbers of those removed
  so far from the section, and that the counter is the old number of the next line;
  `Best` that what is committed is the place of the first Python file touched in the
  sections before. A line number is right because the
  counter moves on each line a hunk takes from the old file.
* *Single records.* `EntriesSingle` has one record per CVE in every file a program
  reads, except the rejected ones, which may repeat CVEs; the supplement brings
  them back only after they are compared with the dataset and with one another.
* *Accounting.* `Accounted` follows a collection from the beginning through its
  phases: the records in memory are the selected CVEs throughout; each record is
  `Raw`, then `Resolved`, then `ExtractedWith` the diffs on disk, and from the filter on
  kept or dropped, never both, with a reason that holds. That records of one CVE
  share a diff file is harmless as long as CVEs are single, so `EntriesSingle` is used.
* *Sample.* `FromLatest`: phase 6 has the rows of the latest checkpoint in memory until
  it has sampled them. The loops of the sampling are followed on the positions
  they choose: the shares of the bins are disjoint, so their sizes add up; filling
  up ends at the target, or with everything.
* *Seeds.* Under a fingerprint with training CVEs that is not `misfiled` the cache has a
  seed that was trained on no others, and each run has its seed from its own training
  part or, if targeted, from that of the run it names, unless it is `Mixed`.

`SelectionProofs` has the lemmas about filtering loops: `Kept` returns the elements at
the positions it is given, each once and in order. The recursion in it, as in the
parser, is handled by `Induction` and `RecursiveFunction`: a set that holds 0 and with
n also n + 1 holds all naturals, as it would miss a least one otherwise
(`LeastElement`, from the well-foundedness of the naturals in the library).

### Assumptions

The only assumptions are the named `ASSUME`s of the modules, which every run
evaluates; a theorem that needs a condition on the steps, such as `~JoinsLate`,
states it as a hypothesis. Most only type the constants. Three
say more:

* `FormatAssumption` (`PatchDiff`): the lines that a diff removes from a file are in
  hunks, and in the order of the file. That is the unified format, which git
  writes; the parser relies on it when it numbers the lines. The diffs of the 105
  shipped records have it.
* `ShippedAssumption` (`Collection`): the dataset in a checkout was made by these
  programs, that is, has one record per CVE, with commits, and with the location
  that its patch has. The location of each of the 105 shipped records is what the
  repository's parser reads in its diff.
* `StudyAssumption` (`Study`) types what a reply can be: the code parses replies into these
  shapes before it uses them, and gives up on others. Its lists of names are
  finite.

### Only model-checked

The liveness properties: `RequestsAnswered`, `SweepEnds`, `WrapperStops` and `RunEnds`. Liveness
under fairness and `ENABLED` are out of the prover's reach. So are the induction
theorems of the library that take an operator as a parameter, and modules with
`RECURSIVE` operators; the specifications use recursive functions instead, which the
lemmas of `SelectionProofs` can follow. `Kept` stands where one would expect `SelectSeq`
for the same reason: `SelectSeq` takes an operator and is recursive inside.

That the six refuted properties are false is shown by TLC's counterexamples alone.

## 5. Not modelled

* In the view: relation facts (a list beside the graph), `apply_graph_update`,
  calls with `fetch_backend=False`, synthetic ids, and the graph queries that only
  read.
* In the runtime: agent registration, the AutoGen loop, and the `atexit` hook that
  disconnects the backends that are still connected when the process ends.
* In the Joern client: the texts of queries and answers, the retry of a query
  that hits a transient compile error, `reload` (its effect is in `IRView`).
* In the harness: the variance analysis, LOC counting, resource snapshots. In
  `Sweep`, whether the servers of a killed process live on is left to
  `JoernSession`.
* In the study: prompts and the texts of queries and rules; how broken JSON is
  recovered (it decides which reply arrives); timings, hashes and log records.
* In the collection: the HTTP layer with its retries and rate limits (a call
  answers or fails), the order of the sample, collisions of fingerprints, diffs
  that are cut short, the remote check and the spot-check sample of the
  validator, which only report.
* In the seeds: the scripts that write, clean and merge a Joern catalog by hand.
* The offline builder of the CPG cache, the audits and roll-ups, the parser of
  Joern's answers, the value classes and schemas, terminal input, installation and
  CI: pure conversions, or input and output without state of their own.
