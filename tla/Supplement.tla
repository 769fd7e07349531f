---------------------------- MODULE Supplement ----------------------------
(***************************************************************************)
(* supplement_huntr_osv.py: adds records from other sources to a dataset   *)
(* that is short of its target, and tries again what the collection had    *)
(* rejected; and what validate_dataset.py asks of the result.              *)
(***************************************************************************)
EXTENDS Collection

CONSTANTS
    Osv,                \* answers of OSV, package by package
    NvdCandidates,      \* huntr_nvd_candidates.json
    SupplementTarget    \* --target

ASSUME SupplementAssumption ==
    /\ Osv \in Seq(Advisory) /\ NvdCandidates \in Seq(Advisory) /\ SupplementTarget \in Nat

\* _load_existing_cve_ids; nothing but this command changes the file while it runs.
ExistingCves == CvesOf(Rows("metadata"))

-----------------------------------------------------------------------------
(* The sources. *)

\* _osv_list_pypi_packages_with_cwe78 and _osv_to_records: what is in the dataset, or
\* was met before, is left out.
FromOsv(answers) ==
    LET New(a) == (a.cwe78 \/ a.signal) /\ a.cve \notin ExistingCves
    IN  FirstOfEach(Kept(answers, {i \in 1..Len(answers) : New(answers[i])}))

\* _nvd_huntr_python_cve78: compared with the dataset only.
FromNvd ==
    LET New(a) == a.signal /\ a.cve \notin ExistingCves
        taken == Kept(NvdCandidates, {i \in 1..Len(NvdCandidates) : New(NvdCandidates[i])})
    IN  [n \in 1..Len(taken) |-> [NewRecord(taken[n]) EXCEPT !.severity = NoSeverity]]

\* _salvage_rejected: the reason is taken back and the commit looked up again.
Salvaged ==
    LET Salvageable(r) ==
            /\ r.cve \notin ExistingCves /\ r.repo # NoRepo
            /\ r.reason \in {"no_commit_resolved", "no_patch_commit"}
        again == Kept(Rows("rejected"), {i \in 1..Len(Rows("rejected")) : Salvageable(Rows("rejected")[i])})
    IN  [n \in 1..Len(again) |-> [again[n] EXCEPT !.reason = "none", !.patch = NoCommit]]

\* The command reads the dataset, the packages of phase 1 and the rejected records, and
\* fails if one of them cannot be read.  A query to OSV may fail: its answer is missing.
StartSupplement ==
    /\ pc = "idle" /\ commands < MaxCommands /\ commands' = commands + 1
    /\ ~disk["metadata"].torn /\ Cardinality(ExistingCves) < SupplementTarget
    /\ ~disk["ghsa"].torn /\ ~disk["rejected"].torn
    /\ \E lost \in SUBSET (1..Len(Osv)), dry \in BOOLEAN :
        /\ Lose(Cardinality(lost))
        /\ cmd' = [phase |-> 0, resume |-> FALSE, dry |-> dry]
        /\ Begin("supplement", FromOsv(Kept(Osv, (1..Len(Osv)) \ lost)) \o FromNvd \o Salvaged)
    /\ UNCHANGED <<disk, diffs, kills>>

-----------------------------------------------------------------------------
(* Resolve, enrich, merge. *)

\* _enrich_single_nvd: the newest score there is.  One by CVSS 2 has its severity in
\* another place, and the record loses its own.
ScoredLate(r) ==
    LET nvd == Nvd[r.cve]
        With(severity) == [r EXCEPT !.severity = severity, !.scored = TRUE]
    IN  IF r.scored \/ r.cve \notin Numbered THEN r
        ELSE IF nvd.v31 # NoSeverity THEN With(nvd.v31)
        ELSE IF nvd.v30 # NoSeverity THEN With(nvd.v30)
        ELSE IF nvd.v2 THEN With(NoSeverity)
        ELSE r

\* resolve_and_enrich, for one record: without a commit, a repository or a diff it is
\* passed over.
EnrichRecord ==
    /\ Working("supplement") /\ at <= Len(records)
    /\ \E res \in Resolutions(records[at]), parent \in BOOLEAN, lost \in 0..1 :
        LET r == WithCommit(records[at], res.commit, parent)
            diff == IF res.commit = NoCommit \/ r.repo = NoRepo THEN <<>> ELSE Diff[res.commit]
        IN  \/ diff = <<>> /\ Lose(res.lost) /\ UNCHANGED <<kept, diffs>>
            \/ diff # <<>> /\ Lose(res.lost + 1) /\ UNCHANGED <<kept, diffs>>
            \/ /\ diff # <<>> /\ Lose(res.lost + lost)
               /\ kept' = Append(kept, IF lost = 1 THEN WithDiff(r) ELSE ScoredLate(WithDiff(r)))
               /\ diffs' = [diffs EXCEPT ![r.cve] = r.patch]
    /\ at' = at + 1
    /\ UNCHANGED <<disk, pc, saving, cmd, records, dropped, commands, kills>>

\* (mutant) the records are compared with the dataset, not with each other
AgainstDatasetOnly(rows) == Kept(rows, {i \in 1..Len(rows) : rows[i].cve \notin ExistingCves})

\* dedup_and_merge
NewToDataset(rows) ==
    LET Passes(r) == r.cve \notin ExistingCves /\ r.patch # NoCommit /\ r.vulnerable
        First(i) == \A j \in 1..(i - 1) : Passes(rows[j]) => rows[j].cve # rows[i].cve
    IN  Kept(rows, {i \in 1..Len(rows) : Passes(rows[i]) /\ First(i)})

DedupSupplement ==
    /\ Working("supplement") /\ at = Len(records) + 1
    /\ IF NewToDataset(kept) = <<>> THEN Exit
       ELSE Save /\ records' = NewToDataset(kept) /\ UNCHANGED <<at, kept, dropped>>
    /\ UNCHANGED <<disk, diffs, counters>>

\* merge_into_dataset
Merged == Rows("metadata") \o Kept(records, {i \in 1..Len(records) : records[i].cve \notin ExistingCves})

\* The checkpoint is written before it is decided whether this is a dry run.
SaveSupplement ==
    /\ pc = "supplement" /\ saving
    /\ disk' = [disk EXCEPT !["supplement"] = Written(records)]
    /\ IF cmd.dry THEN Exit ELSE pc' = "merge" /\ UNCHANGED <<saving, memory>>
    /\ UNCHANGED <<diffs, counters>>

MergeIntoDataset ==
    /\ pc = "merge"
    /\ disk' = [disk EXCEPT !["metadata"] = Written(Merged)]
    /\ Exit /\ UNCHANGED <<diffs, counters>>

\* Killed before it opens the file, or while it writes: then the dataset is lost, as it is
\* written in place.
KilledMerging ==
    /\ pc = "merge" \/ (pc = "supplement" /\ saving)
    /\ kills < MaxKills /\ kills' = kills + 1
    /\ UNCHANGED disk \/ disk' = [disk EXCEPT ![IF pc = "merge" THEN "metadata" ELSE pc] = Torn]
    /\ Exit /\ UNCHANGED <<diffs, commands, faults>>

SupplementNext ==
    \/ StartSupplement \/ EnrichRecord \/ DedupSupplement \/ SaveSupplement
    \/ MergeIntoDataset \/ KilledMerging

-----------------------------------------------------------------------------
(* validate_dataset.py *)

\* What validate reports as an error; the rest are warnings.
Validates(rows) ==
    /\ \A i, j \in 1..Len(rows) : rows[i].cve = rows[j].cve => i = j
    /\ \A i \in 1..Len(rows) : rows[i].diff /\ diffs[rows[i].cve] # NoCommit
=============================================================================
