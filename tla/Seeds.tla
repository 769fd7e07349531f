------------------------------- MODULE Seeds -------------------------------
(***************************************************************************)
(* The sweeps as programs that are started by hand, one at a time: how     *)
(* each chooses the CVEs its seed is trained on and those it evaluates     *)
(* (splitEvaluations/common.py, run_semgrep_sweep.py, run_joern_sweep.py), *)
(* and the cache through which the seed of one Semgrep sweep serves later  *)
(* ones (seed_cache.py, model_seed.py).  What a sweep does with a CVE is   *)
(* the subject of Sweep and Study.                                         *)
(*                                                                         *)
(* Seed, model and train fraction are the same for all sweeps; a           *)
(* fingerprint is what else it is computed from, the size asked for and    *)
(* the training CVEs.                                                      *)
(***************************************************************************)
EXTENDS Naturals, Sequences, FiniteSets

CONSTANTS
    Sizes,          \* values of --dataset-size; 0 stands for "full"
    TrainingSize,   \* [Nat -> ceil(n * train_fraction)]
    Skips,          \* values of --skip-cves
    Onlys,          \* values of --only-cves, {} for none
    SeedReplies,    \* rules of the seed model: sequences of [id, pattern, python]
    CatalogReplies, \* its catalogs, as far as they are valid: [sources, sinks]
    MaxDeaths       \* bound: sweeps that die after they cached a seed

ASSUME SeedsAssumption ==
    /\ Sizes \subseteq Nat /\ MaxDeaths \in Nat
    /\ \A n \in DOMAIN TrainingSize : TrainingSize[n] \in Nat

VARIABLES
    cache,          \* the seed cache: [fingerprints -> CVEs the seed there was trained on]
    runs,           \* run_config.json and seed of the sweeps so far
    misfiled,       \* (history) fingerprints under which the seed of another split was filed
    deaths

seedsVars == <<cache, runs, misfiled, deaths>>

SeedsInit == cache = [fp \in {} |-> {}] /\ runs = <<>> /\ misfiled = {} /\ deaths = 0

-----------------------------------------------------------------------------
(* The partitions. *)

\* filter_dataset
Filter(cves, only) == IF only = {} THEN cves ELSE cves \cap only

\* parse_dataset_size
Bounded(size, total) == IF size = 0 \/ size > total THEN total ELSE size

\* select_dataset_subset: any of its size, as the shuffle wants.
Subsets(cves, size) == {s \in SUBSET cves : Cardinality(s) = Bounded(size, Cardinality(cves))}

\* Of n CVEs, at least one and never all are for training.
TrainingCount(n) ==
    LET wanted == IF TrainingSize[n] = 0 THEN 1 ELSE TrainingSize[n]
    IN  IF n = 0 THEN 0 ELSE IF wanted > n - 1 THEN n - 1 ELSE wanted

\* split_train_validate
Trainings(selected) ==
    {t \in SUBSET selected : Cardinality(t) = TrainingCount(Cardinality(selected))}

-----------------------------------------------------------------------------
(* The cache. *)

Put(fp, trained) == [f \in DOMAIN cache \cup {fp} |-> IF f = fp THEN trained ELSE cache[f]]

\* (mutant) the training CVEs do not count
FingerprintOfSize(size, training) == [size |-> size, training |-> {}]

\* seed_fingerprint
Fingerprint(size, training) == [size |-> size, training |-> training]

\* fingerprint_from_run_config: the training CVEs are those of the split, {} for a
\* targeted run, whatever its seed was trained on.
FingerprintOf(run) == Fingerprint(run.size, run.training)

\* The slot of a sweep: its own, or with --seed-source-run-config that of an earlier run.
Slot(run) == IF run.source = 0 THEN FingerprintOf(run) ELSE FingerprintOf(runs[run.source])

\* A sweep with one split looks its seed up, and files it, under another.
Borrows(run) ==
    ~run.targeted /\ run.source # 0 /\ runs[run.source].training # run.training

\* The seed of a run is perhaps not of the split that its slot stands for.
Mixed(run) == Borrows(run) \/ Slot(run) \in misfiled

FileSeed(fp, trained, mixed) ==
    /\ cache' = Put(fp, trained)
    /\ misfiled' = IF mixed THEN misfiled \cup {fp} ELSE misfiled

\* parse_semgrep_seed_yaml raises for anything else.
ValidSeed(rules) ==
    /\ rules # <<>>
    /\ \A i, j \in 1..Len(rules) : rules[i].id = rules[j].id => i = j
    /\ \A i \in 1..Len(rules) : rules[i].pattern /\ rules[i].python

\* parse_joern_seed_catalog wants a source and a sink that are valid names.
ValidCatalog(reply) == reply.sources # {} /\ reply.sinks # {}

Run(tool, targeted, source, size, training, validation, trained) ==
    [tool |-> tool, targeted |-> targeted, source |-> source, size |-> size,
     training |-> training, validation |-> validation, trained |-> trained]

Hit(run, force) == Slot(run) \in DOMAIN cache /\ ~force

Generated == \E rules \in SeedReplies : ValidSeed(rules)

\* load_or_build_semgrep_seed for a sweep: it takes the seed that is there, or has one
\* generated from its own training examples and caches it, in this cache or in one of
\* its own (--seed-cache-dir).
Launch(run, force) ==
    \/ /\ Hit(run, force)
       /\ runs' = Append(runs, [run EXCEPT !.trained = cache[Slot(run)]])
       /\ UNCHANGED <<cache, misfiled>>
    \/ /\ ~Hit(run, force) /\ (run.targeted => force)    \* require_cache
       /\ Generated
       /\ FileSeed(Slot(run), run.trained, Borrows(run))
       /\ runs' = Append(runs, run)
    \/ /\ ~run.targeted /\ Generated
       /\ runs' = Append(runs, run) /\ UNCHANGED <<cache, misfiled>>

\* The same for a sweep that dies before it has written its configuration.
Die(run, force) ==
    /\ deaths < MaxDeaths /\ deaths' = deaths + 1
    /\ ~Hit(run, force) /\ (run.targeted => force)
    /\ Generated
    /\ FileSeed(Slot(run), run.trained, Borrows(run)) /\ UNCHANGED runs

LaunchOrDie(run, force) == (Launch(run, force) /\ UNCHANGED deaths) \/ Die(run, force)

-----------------------------------------------------------------------------
(* The programs; dataset is what metadata.json holds: the CVEs of its records, and those *)
(* with vulnerable lines.                                                                *)

\* eligible_dataset with skip_empty_gt
Eligible(dataset, skip) == dataset.located \ skip

Validation(selected, training) == selected \ training

\* --seed-source-run-config
Sources == {0} \cup {i \in 1..Len(runs) : runs[i].tool = "semgrep"}

\* run_semgrep_sweep.py.  The training examples are those of its own split, whichever
\* slot it uses.  Without an LLM (--no-triage) it may only reuse a seed, which it insists
\* on finding by --only-cves.
SemgrepSweep(dataset) ==
    \E size \in Sizes, skip \in Skips, force \in BOOLEAN, source \in Sources :
        \E selected \in Subsets(Eligible(dataset, skip), size) :
            \E training \in Trainings(selected) :
                LaunchOrDie(Run("semgrep", FALSE, source, size, training,
                                Validation(selected, training), training), force)

\* The same with --only-cves: nothing is for training.
TargetedSweep(dataset) ==
    \E size \in Sizes, skip \in Skips, only \in Onlys \ {{}}, force \in BOOLEAN, source \in Sources :
        LaunchOrDie(Run("semgrep", TRUE, source, size, {}, Eligible(dataset, skip) \cap only, {}), force)

\* run_joern_sweep.py: a catalog from a file leaves every CVE for evaluation, and what it
\* was trained on is not recorded; otherwise a catalog is generated for this sweep.
JoernSweep(dataset) ==
    \E size \in Sizes, skip \in Skips, only \in Onlys :
        \E selected \in Subsets(Filter(Eligible(dataset, skip), only), size) :
            \/ runs' = Append(runs, Run("catalog", FALSE, 0, size, {}, selected, {}))
            \/ /\ \E reply \in CatalogReplies : ValidCatalog(reply)
               /\ \E training \in Trainings(selected) :
                    runs' = Append(runs, Run("joern", FALSE, 0, size, training,
                                             Validation(selected, training), training))

\* bootstrap_semgrep_seed_from_run: the slot is filled unless it is taken.
Bootstrap(run) ==
    /\ run.tool = "semgrep"
    /\ FingerprintOf(run) \notin DOMAIN cache
    /\ FileSeed(FingerprintOf(run), run.trained, Mixed(run))

SeedsNext(dataset) ==
    \/ SemgrepSweep(dataset)
    \/ TargetedSweep(dataset)
    \/ JoernSweep(dataset) /\ UNCHANGED <<cache, misfiled, deaths>>
    \/ (\E i \in 1..Len(runs) : Bootstrap(runs[i])) /\ UNCHANGED <<runs, deaths>>

-----------------------------------------------------------------------------
(* Properties. *)

\* A run that the claim is about: its own split or, when targeted, that of the run it
\* names has a training part, and it evaluates none but CVEs that run evaluated.
Separated(run) ==
    \/ ~run.targeted /\ run.training # {}
    \/ /\ run.targeted /\ run.source # 0 /\ runs[run.source].training # {}
       /\ run.validation \subseteq runs[run.source].validation

\* A sweep evaluates a CVE that its seed was trained on only after a fingerprint was
\* borrowed: by itself, or by the sweep that filed the seed in its slot, or a bootstrap of
\* such a sweep's run.  Neither a seed of the cache, whoever put it there, dead or alive,
\* nor a dataset that has changed since, has it evaluate a CVE of its training otherwise.
LeaksAreBorrowed ==
    \A i \in 1..Len(runs) :
        Separated(runs[i]) /\ ~Mixed(runs[i]) => runs[i].validation \cap runs[i].trained = {}
=============================================================================
