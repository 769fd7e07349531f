----------------------------- MODULE Collection -----------------------------
(***************************************************************************)
(* collect_cwe78_dataset.py: the six phases that turn the advisories of    *)
(* GitHub into the dataset of the study.  Each phase works on the records  *)
(* in memory and then writes them to a checkpoint, from which a later      *)
(* command may go on (--phase, --resume).  A command may be killed at any  *)
(* moment; a checkpoint it was writing is then cut short.                  *)
(***************************************************************************)
EXTENDS PatchDiff, Selection

CONSTANTS
    Cve,            \* identifiers, CVE-... or, for an advisory without one, GHSA-...
    Numbered,       \* those that begin with CVE-
    Refs,           \* lists of references of the advisories
    Links,          \* [Refs -> where each says a patch commit can be found, in the order
                    \*  of the strategies: sequence of [commit, online, tag]]
    Repo, NoRepo,
    Severity, NoSeverity,
    Nvd,            \* [Cve -> [v31, v30 : severity by the NVD, NoSeverity for none; v2 : it
                    \*  has a CVSS 2 score]]
    Advisories,     \* the advisory database, in the order in which it is read
    Shipped,        \* the records of the dataset that comes with the repository
    TargetN, MinPerLocBin, MinPerSink, MinPerSeverity,  \* conf/dataset.yaml
    LocLimits,      \* where the second and the following bins of lengths begin
    MaxCommands, MaxFaults, MaxKills    \* bounds: commands, failing calls, killed commands

Advisory == [cve : Cve, refs : Refs, repo : Repo \cup {NoRepo},
             severity : Severity \cup {NoSeverity},
             cwe78 : BOOLEAN, pip : BOOLEAN, signal : BOOLEAN]

ASSUME CollectionAssumption ==
    /\ Numbered \subseteq Cve /\ NoRepo \notin Repo
    /\ Nvd \in [Cve -> [v31 : Severity \cup {NoSeverity}, v30 : Severity \cup {NoSeverity}, v2 : BOOLEAN]]
    /\ Links \in [Refs -> Seq([commit : Commit \cup {NoCommit}, online : BOOLEAN,
                               tag : Commit \cup {NoCommit}])]
    /\ Advisories \in Seq(Advisory)
    /\ LocLimits \in Seq(Nat)
    /\ {TargetN, MinPerLocBin, MinPerSink, MinPerSeverity} \subseteq Nat
    /\ {MaxCommands, MaxFaults, MaxKills} \subseteq Nat

\* CVERecord; diff says that it has a patch_diff_path.
Record == [cve : Cve, refs : Refs, repo : Repo \cup {NoRepo}, severity : Severity \cup {NoSeverity},
           scored : BOOLEAN, patch : Commit \cup {NoCommit}, vulnerable : BOOLEAN, diff : BOOLEAN,
           where : [file : Path \cup {NoPath}, lines : Seq(Nat),
                    sink : Sink \cup {NoPath, "unknown"}, loc : Nat],
           reason : {"none", "no_repo_url", "no_commit_resolved", "diff_fetch_failed",
                     "duplicate_cve_id", "no_patch_commit", "no_vulnerable_commit",
                     "duplicate_location"}]

\* The dataset that is shipped was made by these programs.
ASSUME ShippedAssumption ==
    /\ Shipped \in Seq(Record)
    /\ \A i, j \in 1..Len(Shipped) : Shipped[i].cve = Shipped[j].cve => i = j
    /\ \A i \in 1..Len(Shipped) :
        LET r == Shipped[i] IN
        r.patch # NoCommit /\ r.vulnerable /\ r.reason = "none" /\ Locates(r.where, r.patch)

File == {"ghsa", "nvd", "commits", "sinks", "rejected", "accepted", "supplement", "metadata"}

VARIABLES
    disk,           \* the checkpoints and metadata.json: [exists, torn, rows]
    diffs,          \* diffs/<cve>.diff: the commit it is the diff of, or NoCommit
    cmd,            \* the arguments of the command that runs: [phase, resume, dry]
    pc,             \* the file it works on, or "idle"
    saving,         \* it has the rows and writes them
    records,        \* in memory
    at,             \* the record in hand
    kept, dropped,  \* accepted and rejected
    commands, faults, kills

memory == <<cmd, records, at, kept, dropped>>
counters == <<commands, faults, kills>>
collectionVars == <<disk, diffs, pc, saving, memory, counters>>

Absent == [exists |-> FALSE, torn |-> FALSE, rows |-> <<>>]
Written(rows) == [exists |-> TRUE, torn |-> FALSE, rows |-> rows]
Torn == [exists |-> TRUE, torn |-> TRUE, rows |-> <<>>]

Readable(file) == disk[file].exists /\ ~disk[file].torn
Rows(file) == disk[file].rows
CvesOf(rows) == {rows[i].cve : i \in 1..Len(rows)}

NoCommand == [phase |-> 0, resume |-> FALSE, dry |-> FALSE]

\* A checkout, with its dataset and no checkpoints, or a directory of one's own.
CollectionInit ==
    /\ \/ disk = [f \in File |-> Absent] /\ diffs = [c \in Cve |-> NoCommit]
       \/ /\ disk = [f \in File |-> IF f = "metadata" THEN Written(Shipped) ELSE Absent]
          /\ diffs = [c \in Cve |-> IF c \notin CvesOf(Shipped) THEN NoCommit
                                    ELSE Shipped[CHOOSE i \in 1..Len(Shipped) : Shipped[i].cve = c].patch]
    /\ cmd = NoCommand /\ pc = "idle" /\ saving = FALSE
    /\ records = <<>> /\ at = 1 /\ kept = <<>> /\ dropped = <<>>
    /\ commands = 0 /\ faults = 0 /\ kills = 0

Lose(n) == faults + n <= MaxFaults /\ faults' = faults + n

\* Process exit: what it had in memory is gone.
Exit ==
    /\ pc' = "idle" /\ saving' = FALSE /\ cmd' = NoCommand
    /\ records' = <<>> /\ at' = 1 /\ kept' = <<>> /\ dropped' = <<>>

Begin(file, rows) ==
    /\ pc' = file /\ saving' = FALSE /\ at' = 1 /\ records' = rows
    /\ kept' = <<>> /\ dropped' = <<>>

-----------------------------------------------------------------------------
(* Commands. *)

Checkpoints == <<"accepted", "sinks", "commits", "nvd", "ghsa">>
Existing == {i \in 1..Len(Checkpoints) : disk[Checkpoints[i]].exists}

\* _find_latest_checkpoint
LatestCheckpoint == Checkpoints[CHOOSE i \in Existing : \A j \in Existing : i <= j]

Phases == <<"ghsa", "nvd", "commits", "sinks", "rejected", "metadata">>

\* --phase 0 begins with phase 1; a single phase begins with the latest checkpoint, and
\* fails if there is none or it cannot be read.
StartCollection ==
    /\ pc = "idle" /\ commands < MaxCommands /\ commands' = commands + 1
    /\ \E phase \in 0..6, resume \in BOOLEAN :
        /\ cmd' = [phase |-> phase, resume |-> resume, dry |-> FALSE]
        /\ resume => phase = 0      \* what is loaded for a single phase is loaded for nothing
        /\ IF phase <= 1 THEN Begin("ghsa", <<>>)
           ELSE Existing # {} /\ Readable(LatestCheckpoint)
                    /\ Begin(Phases[phase], Rows(LatestCheckpoint))
    /\ UNCHANGED <<disk, diffs, faults, kills>>

\* The command dies while it works: the diffs it wrote stay.
KilledWorking ==
    /\ pc # "idle" /\ ~saving /\ kills < MaxKills /\ kills' = kills + 1
    /\ Exit /\ UNCHANGED <<disk, diffs, commands, faults>>

Working(file) == pc = file /\ ~saving
Save == saving' = TRUE /\ UNCHANGED <<pc, cmd>>

-----------------------------------------------------------------------------
(* Phases 1 and 2. *)

Selected(a) == a.cwe78 /\ (a.pip \/ a.signal)

NewRecord(a) == [
    cve |-> a.cve, refs |-> a.refs, repo |-> a.repo, severity |-> a.severity, scored |-> FALSE,
    patch |-> NoCommit, vulnerable |-> FALSE, diff |-> FALSE, where |-> Nowhere, reason |-> "none"]

\* seen_cves, in phase 1 and among the answers of OSV: the first of its CVE is taken.
FirstOfEach(wanted) ==
    LET First(i) == \A j \in 1..(i - 1) : wanted[j].cve # wanted[i].cve
        taken == Kept(wanted, {i \in 1..Len(wanted) : First(i)})
    IN  [n \in 1..Len(taken) |-> NewRecord(taken[n])]

\* phase1_collect_ghsa
CollectGhsa ==
    /\ Working("ghsa") /\ ~(cmd.resume /\ disk["ghsa"].exists)
    /\ records' = FirstOfEach(Kept(Advisories, {i \in 1..Len(Advisories) : Selected(Advisories[i])}))
    /\ Save /\ UNCHANGED <<disk, diffs, at, kept, dropped, counters>>

\* --resume: the file of a phase, if there is one, stands for the phase.
Resume ==
    /\ pc \in {"ghsa", "nvd", "commits"} /\ ~saving /\ at = 1
    /\ cmd.resume /\ disk[pc].exists
    /\ IF disk[pc].torn THEN Exit
       ELSE /\ Begin(CASE pc = "ghsa" -> "nvd" [] pc = "nvd" -> "commits" [] pc = "commits" -> "sinks",
                     Rows(pc))
            /\ UNCHANGED cmd
    /\ UNCHANGED <<disk, diffs, counters>>

\* phase2_enrich_nvd, for one record: CVSS 3.1 overrides, 3.0 fills a gap.
Scored(r) ==
    LET nvd == Nvd[r.cve] IN
    IF r.cve \notin Numbered THEN r
    ELSE IF nvd.v31 # NoSeverity THEN [r EXCEPT !.severity = nvd.v31, !.scored = TRUE]
    ELSE IF r.severity = NoSeverity /\ nvd.v30 # NoSeverity
         THEN [r EXCEPT !.severity = nvd.v30, !.scored = TRUE]
    ELSE r

\* A query that fails leaves its record as it is.
EnrichNvd ==
    /\ Working("nvd") /\ ~(cmd.resume /\ disk["nvd"].exists)
    /\ \E lost \in SUBSET {i \in 1..Len(records) : Scored(records[i]) # records[i]} :
        /\ Lose(Cardinality(lost))
        /\ records' = [i \in 1..Len(records) |-> IF i \in lost THEN records[i] ELSE Scored(records[i])]
    /\ Save /\ UNCHANGED <<disk, diffs, at, kept, dropped, commands, kills>>

-----------------------------------------------------------------------------
(* Phases 3 and 4: one record after the other. *)

\* What a strategy may answer.  One that asks GitHub may fail; when the failure is in
\* dereferencing an annotated tag, the tag itself is taken for the commit.
Answers(link) == {link.commit} \cup (IF link.online THEN {NoCommit, link.tag} ELSE {})

\* _resolve_commit_from_references: the first strategy that finds a commit wins.
FirstFound(answers) ==
    LET found == {i \in 1..Len(answers) : answers[i] # NoCommit}
    IN  IF found = {} THEN NoCommit ELSE answers[CHOOSE i \in found : \A j \in found : i <= j]

\* The commits that the references of r may lead to, with the failures it takes.
Resolutions(r) ==
    LET links == Links[r.refs]
        Possible == {a \in [1..Len(links) -> Commit \cup {NoCommit}] :
                        \A i \in 1..Len(links) : a[i] \in Answers(links[i])}
    IN  {[commit |-> FirstFound(a),
          lost |-> Cardinality({i \in 1..Len(links) : a[i] # links[i].commit})] : a \in Possible}

\* (mutant) a commit whose parent is not known is left without a vulnerable one
WithCommitOfParent(r, commit, parent) == [r EXCEPT !.patch = commit, !.vulnerable = parent]

\* _get_parent_commit, or else "<commit>~1".
WithCommit(r, commit, parent) == [r EXCEPT !.patch = commit, !.vulnerable = TRUE]

\* phase3_resolve_commits, for one record.  A reason is never taken back.
ResolveRecord(r) ==
    \/ r.patch # NoCommit /\ UNCHANGED <<records, faults>>
    \/ /\ r.patch = NoCommit /\ r.repo = NoRepo
       /\ records' = [records EXCEPT ![at].reason = "no_repo_url"] /\ UNCHANGED faults
    \/ /\ r.patch = NoCommit /\ r.repo # NoRepo
       /\ \E res \in Resolutions(r), parent \in BOOLEAN :
            /\ Lose(res.lost)
            /\ records' = [records EXCEPT ![at] =
                    IF res.commit # NoCommit THEN WithCommit(r, res.commit, parent)
                    ELSE [r EXCEPT !.reason = "no_commit_resolved"]]

ResolveCommit ==
    /\ Working("commits") /\ ~(cmd.resume /\ disk["commits"].exists)
    /\ at <= Len(records) /\ ResolveRecord(records[at])
    /\ at' = at + 1
    /\ UNCHANGED <<disk, diffs, pc, saving, cmd, kept, dropped, commands, kills>>

\* _fetch_commit_diff fails, as it always does for what is no commit of the repository.
FetchFails(commit) ==
    \/ Diff[commit] = <<>> /\ UNCHANGED faults
    \/ Diff[commit] # <<>> /\ Lose(1)

\* (mutant) nothing is noted
KeptForLater(r) == r

WithoutDiff(r) == [r EXCEPT !.reason = "diff_fetch_failed"]

\* A diff arrives: it is written, then read.
WithDiff(r) == [r EXCEPT !.diff = TRUE, !.where = Where(Diff[r.patch])]

\* phase4_extract_sinks_and_loc, for one record.
ExtractSink ==
    /\ Working("sinks") /\ at <= Len(records)
    /\ LET r == records[at] IN
        \/ /\ r.patch = NoCommit \/ r.reason # "none" \/ r.repo = NoRepo
           /\ UNCHANGED <<records, diffs, faults>>
        \/ /\ r.patch # NoCommit /\ r.reason = "none" /\ r.repo # NoRepo
           /\ \/ /\ FetchFails(r.patch)
                 /\ records' = [records EXCEPT ![at] = WithoutDiff(r)]
                 /\ UNCHANGED diffs
              \/ /\ Diff[r.patch] # <<>>
                 /\ records' = [records EXCEPT ![at] = WithDiff(r)]
                 /\ diffs' = [diffs EXCEPT ![r.cve] = r.patch]
                 /\ UNCHANGED faults
    /\ at' = at + 1
    /\ UNCHANGED <<disk, pc, saving, cmd, kept, dropped, commands, kills>>

\* The loop of phase 3, 4 or 5 is over.
LoopDone ==
    /\ pc \in {"commits", "sinks", "rejected"} /\ ~saving /\ at = Len(records) + 1
    /\ ~(pc = "commits" /\ cmd.resume /\ disk["commits"].exists)
    /\ Save /\ UNCHANGED <<disk, diffs, records, at, kept, dropped, counters>>

-----------------------------------------------------------------------------
(* Phases 5 and 6. *)

\* The repository, the file and the first five lines; Python sorts them.
LocationKey(r) ==
    LET lines == r.where.lines
    IN  <<r.repo, r.where.file, {lines[n] : n \in {m \in 1..Len(lines) : m <= 5}}>>

\* phase5_filter_and_dedup, for one record
Reason(r) ==
    IF r.reason # "none" THEN r.reason
    ELSE IF r.cve \in CvesOf(kept) THEN "duplicate_cve_id"
    ELSE IF r.patch = NoCommit THEN "no_patch_commit"
    ELSE IF ~r.vulnerable THEN "no_vulnerable_commit"
    ELSE IF \E i \in 1..Len(kept) : LocationKey(kept[i]) = LocationKey(r) THEN "duplicate_location"
    ELSE "none"

FilterRecord ==
    /\ Working("rejected") /\ at <= Len(records)
    /\ LET r == records[at] IN
        IF Reason(r) = "none" THEN kept' = Append(kept, r) /\ UNCHANGED dropped
        ELSE dropped' = Append(dropped, [r EXCEPT !.reason = Reason(r)]) /\ UNCHANGED kept
    /\ at' = at + 1
    /\ UNCHANGED <<disk, diffs, pc, saving, cmd, records, counters>>

\* loc_bins
BinOf(r) == Cardinality({n \in 1..Len(LocLimits) : LocLimits[n] <= r.where.loc})
Bins == 0..Len(LocLimits)
InBin(rows, bin) == {i \in 1..Len(rows) : BinOf(rows[i]) = bin}

Smaller(m, n) == IF m < n THEN m ELSE n

\* The orders in which a shuffle may leave the set.
Orders(set) == {o \in [1..Cardinality(set) -> set] : \A i, j \in DOMAIN o : o[i] = o[j] => i = j}

\* A record is needed while its sink or its severity is rare among the selected.
Needed(i, selected) ==
    \/ Cardinality({j \in selected : records[j].where.sink = records[i].where.sink}) < MinPerSink
    \/ Cardinality({j \in selected : records[j].severity = records[i].severity}) < MinPerSeverity

\* The needed ones of the remaining join what was picked, until the target is met.
WithNeeded(picked, order) ==
    LET after[n \in 0..Len(order)] ==
            IF n = 0 THEN picked
            ELSE IF Cardinality(after[n - 1]) < TargetN /\ Needed(order[n], after[n - 1])
                 THEN after[n - 1] \cup {order[n]} ELSE after[n - 1]
    IN  after[Len(order)]

\* (mutant) the target is exceeded by one
FilledPastTarget(selected, order) ==
    LET left == Kept(order, {n \in 1..Len(order) : order[n] \notin selected})
    IN  selected \cup {left[n] : n \in {m \in 1..Len(left) : m + Cardinality(selected) <= TargetN + 1}}

\* What is left fills the sample up to the target.
Filled(selected, order) ==
    LET left == Kept(order, {n \in 1..Len(order) : order[n] \notin selected})
    IN  selected \cup {left[n] : n \in {m \in 1..Len(left) : m + Cardinality(selected) <= TargetN}}

\* The sample, in the order of the records: no reader depends on the order.
Sampled(selected) == Kept(records, selected)

\* phase6_stratified_sample
Sample ==
    /\ Working("metadata")
    /\ \/ Len(records) <= TargetN /\ UNCHANGED records
       \/ /\ Len(records) > TargetN
          /\ \E picked \in SUBSET (1..Len(records)) :
                /\ \A bin \in Bins : Cardinality(picked \cap InBin(records, bin))
                                        = Smaller(MinPerLocBin, Cardinality(InBin(records, bin)))
                /\ \E order \in Orders((1..Len(records)) \ picked) :
                        records' = Sampled(Filled(WithNeeded(picked, order), order))
    /\ Save /\ UNCHANGED <<disk, diffs, at, kept, dropped, counters>>

-----------------------------------------------------------------------------
(* Checkpoints. *)

\* What is written, and to which file.
Content == CASE pc = "rejected" -> dropped
             [] pc = "accepted" -> kept
             [] OTHER -> records

\* The command goes on with the next phase, unless it was started for one phase only.
GoOn ==
    LET Then(file, rows) == Begin(file, rows) /\ UNCHANGED cmd IN
    \/ /\ pc = "rejected"
       /\ pc' = "accepted" /\ UNCHANGED <<saving, memory>>
    \/ pc \in {"ghsa", "nvd", "commits", "sinks", "accepted"} /\ cmd.phase # 0 /\ Exit
    \/ pc = "metadata" /\ Exit
    \/ /\ cmd.phase = 0
       /\ \/ pc = "ghsa" /\ Then("nvd", records)
          \/ pc = "nvd" /\ Then("commits", records)
          \/ pc = "commits" /\ Then("sinks", records)
          \/ pc = "sinks" /\ Then("rejected", records)
          \/ pc = "accepted" /\ Then("metadata", kept)

Saving == saving /\ pc \in {"ghsa", "nvd", "commits", "sinks", "rejected", "accepted", "metadata"}

\* _write_jsonl and write_final_dataset
SaveRows ==
    /\ Saving /\ disk' = [disk EXCEPT ![pc] = Written(Content)] /\ GoOn
    /\ UNCHANGED <<diffs, counters>>

\* Killed before it opens the file, or while it writes: some of the records are in the
\* file, the last perhaps cut short.  A JSON document cut short cannot be read at all.
KilledSaving ==
    /\ Saving /\ kills < MaxKills /\ kills' = kills + 1
    /\ \/ UNCHANGED disk
       \/ disk' = [disk EXCEPT ![pc] = Torn]
       \/ \E n \in 0..Len(Content) :
            pc # "metadata" /\ disk' = [disk EXCEPT ![pc] = Written(SubSeq(Content, 1, n))]
    /\ Exit /\ UNCHANGED <<diffs, commands, faults>>

CollectionNext ==
    \/ StartCollection \/ KilledWorking \/ Resume
    \/ CollectGhsa \/ EnrichNvd \/ ResolveCommit \/ ExtractSink \/ LoopDone \/ FilterRecord
    \/ Sample \/ SaveRows \/ KilledSaving
=============================================================================
