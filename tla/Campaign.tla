----------------------------- MODULE Campaign -----------------------------
(***************************************************************************)
(* The programs of a study, as an operator runs them one after the other:  *)
(* the collection of the dataset, its supplement, and the sweeps over it.  *)
(* They know of each other only what they find in files, in whatever order *)
(* the operator starts, repeats or kills them.                             *)
(***************************************************************************)
EXTENDS Supplement, Seeds

vars == <<collectionVars, seedsVars>>

Init == CollectionInit /\ SeedsInit

\* What a sweep reads from metadata.json.
Dataset == LET rows == Rows("metadata") IN
    [located |-> {rows[i].cve : i \in {j \in 1..Len(rows) : rows[j].where.lines # <<>>}}]

Sweeping ==
    /\ pc = "idle" /\ Readable("metadata")
    /\ commands < MaxCommands /\ commands' = commands + 1
    /\ SeedsNext(Dataset)
    /\ UNCHANGED <<disk, diffs, pc, saving, memory, faults, kills>>

Next ==
    \/ (CollectionNext \/ SupplementNext) /\ UNCHANGED seedsVars
    \/ Sweeping

Spec == Init /\ [][Next]_vars
-----------------------------------------------------------------------------
(* Properties. *)

\* metadata.json never holds two records of one CVE, although the advisories repeat
\* CVEs, three sources of the supplement deliver them again, and any phase may be run
\* on any checkpoint.
OneEntryPerCve ==
    \A i, j \in 1..Len(Rows("metadata")) :
        Rows("metadata")[i].cve = Rows("metadata")[j].cve => i = j

\* What validate() passes can be used: every record has both of its commits, which
\* validate() itself does not look at, although metadata.json may come from phase 6 on
\* an early checkpoint, or from one that was cut short.
ValidatedIsUsable ==
    Validates(Rows("metadata")) =>
        \A i \in 1..Len(Rows("metadata")) :
            LET r == Rows("metadata")[i] IN r.patch # NoCommit /\ r.vulnerable

\* The vulnerable location of a record is that of its own patch commit, while a program
\* works on it and in the dataset, whichever program located it and however often its
\* commit was looked up: the first Python file touched, with the lines removed from it or,
\* where only lines are added, the one the count has reached when the section ends.
LocationFromPatch ==
    \A rows \in {records, kept, Rows("metadata")} : \A i \in 1..Len(rows) :
        rows[i].diff => rows[i].patch # NoCommit /\ Locates(rows[i].where, rows[i].patch)

Located(r) == r.diff /\ diffs[r.cve] = r.patch

\* What a reason says of its record.
Truthful(r) ==
    CASE r.reason = "no_repo_url" -> r.repo = NoRepo /\ r.patch = NoCommit
      [] r.reason = "no_commit_resolved" -> r.patch = NoCommit
      [] r.reason = "diff_fetch_failed" -> r.patch # NoCommit /\ ~r.diff
      [] r.reason = "duplicate_location" ->
            Located(r) /\ \E i \in 1..Len(kept) : kept[i].cve # r.cve
                                                    /\ LocationKey(kept[i]) = LocationKey(r)
      [] OTHER -> FALSE

\* A collection from the beginning accounts for every advisory it selected: each CVE is
\* accepted, with its diff on disk, or rejected for a reason that is true, whatever calls
\* failed and whatever earlier commands left behind.
AdvisoriesAccounted ==
    pc = "accepted" /\ cmd.phase = 0 /\ ~cmd.resume =>
        /\ {Advisories[i].cve : i \in {j \in 1..Len(Advisories) : Selected(Advisories[j])}}
            = CvesOf(kept) \cup CvesOf(dropped)
        /\ CvesOf(kept) \cap CvesOf(dropped) = {}
        /\ \A i \in 1..Len(kept) : Located(kept[i])
        /\ \A i \in 1..Len(dropped) : Truthful(dropped[i])

\* What the bins of the candidates are entitled to, all in all.
Reserved(pool) ==
    Cardinality({p \in Bins \X (1..Len(pool)) :
                    p[2] <= Smaller(MinPerLocBin, Cardinality(InBin(pool, p[1])))})

\* The sample of phase 6 is as large as asked for, unless the bins need more, and has its
\* share of every bin, however the candidates are shuffled and whichever of them are
\* needed for their sink or severity.
SampleIsStratified ==
    pc = "metadata" /\ saving =>
        LET pool == Rows(LatestCheckpoint) IN
        /\ Len(records) = IF Len(pool) <= TargetN THEN Len(pool)
                          ELSE IF Reserved(pool) > TargetN THEN Reserved(pool) ELSE TargetN
        /\ \A bin \in Bins : Cardinality(InBin(records, bin))
                                >= Smaller(MinPerLocBin, Cardinality(InBin(pool, bin)))
        /\ CvesOf(records) \subseteq CvesOf(pool)
=============================================================================
