------------------------------- MODULE Sweep -------------------------------
(***************************************************************************)
(* A Joern sweep over a list of CVEs: the shell wrapper that relaunches    *)
(* the sweep process (splitEvaluations/run_joern_validation_full.sh), the  *)
(* process itself (run_main_comparison and _run_with_timeout of            *)
(* scripts/run_evaluation.py) and the results file the two share.          *)
(*                                                                         *)
(* CVEs are their positions in the wrapper's list, so the next CVE of a    *)
(* process is the least one it still has to do.  What a CVE does to the    *)
(* harness is data of the instance: whether it can be cloned and how       *)
(* pipeline.run may end on it.                                             *)
(***************************************************************************)
EXTENDS Naturals, Sequences

CONSTANTS
    CVE,            \* positions in ALL_CVES
    CloneFails,     \* CVEs whose repository cannot be cloned
    NoLines,        \* CVEs without ground-truth lines (when skip_empty_gt)
    Explicit,       \* CVEs on the skip_cves list
    Endings,        \* [CVE -> how pipeline.run may end on it]
    RunPatched,     \* whether the patched commit is run as well
    MaxResumes,     \* AUDITZOO_MAX_RESUMES
    Relaunches,     \* bound: how often an operator starts the wrapper again
    Faults,         \* faults the environment may inject
    MaxFaults       \* bound: how many of them

\* "result": it returns; "raises": it raises; "slow": it exceeds its budget and
\* acknowledges the cancellation; "hangs": it does not, within the grace period.
Ending == {"result", "raises", "slow", "hangs"}

ASSUME SweepAssumption ==
    /\ CVE \subseteq Nat
    /\ CloneFails \subseteq CVE /\ NoLines \subseteq CVE /\ Explicit \subseteq CVE
    /\ Endings \in [CVE -> SUBSET Ending]
    /\ RunPatched \in BOOLEAN
    /\ MaxResumes \in Nat /\ Relaunches \in Nat /\ MaxFaults \in Nat
    /\ Faults \subseteq {"kill", "oserror", "sigint"}

VARIABLES
    wrapper,        \* "check", "running", "done", "gaveup", "aborted"
    attempt,        \* resume cycles of this wrapper invocation
    relaunched,     \* wrapper invocations after the first
    pc,             \* where the sweep process is; "off" when there is none
    todo,           \* CVEs the process has still to take up
    cve,            \* the CVE in hand
    rows,           \* all_results
    saving,         \* the context of the _save_json in progress
    sigint,         \* Ctrl-C: "none", "pending" or "delivered"
    rc,             \* exit code the process is about to end with
    disk,           \* results.json
    faults          \* faults injected so far

process == <<pc, todo, cve, rows, saving, sigint, rc>>
vars == <<wrapper, attempt, relaunched, process, disk, faults>>

Row(c, kind) == [cve |-> c, kind |-> kind]
Rows == [cve : CVE, kind : {"arms", "timeout", "error", "explicit"}]
CvesOf(s) == {s[i].cve : i \in 1..Len(s)}

\* (mutant) only a row with arms counts as done
DoneWithArms ==
    IF disk.state = "valid"
    THEN {disk.rows[i].cve : i \in {j \in 1..Len(disk.rows) : disk.rows[j].kind = "arms"}}
    ELSE {}

\* remaining_cves: a file that cannot be parsed counts as no row at all.
DoneOnDisk == IF disk.state = "valid" THEN CvesOf(disk.rows) ELSE {}
Remaining == CVE \ DoneOnDisk

-----------------------------------------------------------------------------
(* The wrapper. *)

\* (mutant) one cycle too many
OutOfResumesLate == attempt > MaxResumes

OutOfResumes == attempt >= MaxResumes

Cycle ==
    /\ wrapper = "check"
    /\ \/ Remaining = {} /\ wrapper' = "done" /\ UNCHANGED process
       \/ Remaining # {} /\ OutOfResumes /\ wrapper' = "gaveup" /\ UNCHANGED process
       \/ /\ Remaining # {} /\ ~OutOfResumes
          /\ wrapper' = "running"
          /\ pc' = "load" /\ todo' = Remaining /\ cve' = 0 /\ rows' = <<>>
          /\ saving' = "none" /\ sigint' = "none" /\ rc' = 0
    /\ UNCHANGED <<attempt, relaunched, disk, faults>>

\* (mutant) the wrapper does not count its resumes
ProcessExitedUncounted ==
    /\ wrapper = "running" /\ pc = "off"
    /\ \/ rc = 0 /\ wrapper' = "done"
       \/ rc = 124 /\ wrapper' = "check"
       \/ rc \notin {0, 124} /\ wrapper' = "aborted"
    /\ UNCHANGED <<attempt, relaunched, process, disk, faults>>

\* (mutant) exit code 124 is taken for a completed sweep
ProcessExitedUnresumed ==
    /\ wrapper = "running" /\ pc = "off"
    /\ wrapper' = IF rc \in {0, 124} THEN "done" ELSE "aborted"
    /\ UNCHANGED <<attempt, relaunched, process, disk, faults>>

\* The sweep process ended: 0 is the end, 124 resumes, anything else aborts.
ProcessExited ==
    /\ wrapper = "running" /\ pc = "off"
    /\ \/ rc = 0 /\ wrapper' = "done" /\ UNCHANGED attempt
       \/ rc = 124 /\ wrapper' = "check" /\ attempt' = attempt + 1
       \/ rc \notin {0, 124} /\ wrapper' = "aborted" /\ UNCHANGED attempt
    /\ UNCHANGED <<relaunched, process, disk, faults>>

\* An operator runs the wrapper again on the same AUDITZOO_SWEEP_DIR.
Relaunch ==
    /\ wrapper \in {"done", "gaveup", "aborted"}
    /\ relaunched < Relaunches
    /\ relaunched' = relaunched + 1
    /\ wrapper' = "check" /\ attempt' = 0
    /\ UNCHANGED <<process, disk, faults>>

-----------------------------------------------------------------------------
(* run_main_comparison *)

\* (mutant) the rows on disk are not pre-loaded
LoadNothing ==
    /\ pc = "load"
    /\ rows' = <<>>
    /\ pc' = "next"
    /\ UNCHANGED <<wrapper, attempt, relaunched, todo, cve, saving, sigint, rc, disk, faults>>

\* resume_existing: whatever can be parsed is kept, else "starting from empty".
Load ==
    /\ pc = "load"
    /\ rows' = IF disk.state = "valid" THEN disk.rows ELSE <<>>
    /\ pc' = "next"
    /\ UNCHANGED <<wrapper, attempt, relaunched, todo, cve, saving, sigint, rc, disk, faults>>

Exit(code) == pc' = "off" /\ rc' = code

\* all_results.append(row); _save_json(all_results, ...)
AppendAndSave(kind, context) ==
    /\ rows' = Append(rows, Row(cve', kind))
    /\ saving' = context
    /\ pc' = "open"

\* The list is done: main() returns, unless a Ctrl-C is still to be delivered,
\* which asyncio.run then turns into a KeyboardInterrupt.
NextCve ==
    /\ pc = "next"
    /\ \/ /\ todo = {}
          /\ Exit(IF sigint = "pending" THEN 130 ELSE 0)
          /\ UNCHANGED <<todo, cve, rows, saving>>
       \/ \E c \in todo :
             /\ \A d \in todo : c <= d
             /\ cve' = c /\ todo' = todo \ {c}
             /\ \/ c \in Explicit /\ AppendAndSave("explicit", "skip")
                \/ c \in NoLines \ Explicit /\ UNCHANGED <<pc, rows, saving>>
                \/ c \notin NoLines \cup Explicit /\ pc' = "clone" /\ UNCHANGED <<rows, saving>>
             /\ UNCHANGED rc
    /\ UNCHANGED <<wrapper, attempt, relaunched, sigint, disk, faults>>

CloneAndCheckout ==
    /\ pc = "clone"
    /\ pc' = IF cve \in CloneFails THEN "next" ELSE "vuln"
    /\ UNCHANGED <<wrapper, attempt, relaunched, todo, cve, rows, saving, sigint, rc, disk, faults>>

\* _run_with_timeout on the vulnerable commit, as far as asyncio.wait
RunVulnerable ==
    /\ pc = "vuln" /\ sigint # "pending"
    /\ UNCHANGED cve
    /\ \E ending \in Endings[cve] :
         \/ ending = "result" /\ RunPatched /\ pc' = "patch" /\ UNCHANGED <<rows, saving>>
         \/ ending = "result" /\ ~RunPatched /\ AppendAndSave("arms", "try")
         \/ ending = "raises" /\ AppendAndSave("error", "handler")
         \/ ending = "slow" /\ pc' = "grace" /\ UNCHANGED <<rows, saving>>
         \/ ending = "hangs" /\ pc' = "grace_hung" /\ UNCHANGED <<rows, saving>>
    /\ UNCHANGED <<wrapper, attempt, relaunched, todo, sigint, rc, disk, faults>>

\* ... and on the patched commit, whose time-out is ignored; that its checkout
\* may fail adds nothing, the row is then the same as when the run returns.
RunPatchedCommit ==
    /\ pc = "patch" /\ sigint # "pending"
    /\ UNCHANGED cve
    /\ \E ending \in Endings[cve] :
         \/ ending = "result" /\ AppendAndSave("arms", "try")
         \/ ending = "raises" /\ AppendAndSave("error", "handler")
         \/ ending = "slow" /\ pc' = "patch_grace" /\ UNCHANGED <<rows, saving>>
         \/ ending = "hangs" /\ pc' = "patch_hung" /\ UNCHANGED <<rows, saving>>
    /\ UNCHANGED <<wrapper, attempt, relaunched, todo, sigint, rc, disk, faults>>

\* The cancelled task settles within 5 s.  A CancelledError is passed over,
\* whether it is the task's or one delivered to the sweep itself.
Settle ==
    /\ UNCHANGED cve
    /\ \/ /\ pc \in {"grace", "grace_hung"}
          /\ pc = "grace_hung" => sigint = "pending"
          /\ AppendAndSave("timeout", "try")
       \/ /\ pc \in {"patch_grace", "patch_hung"}
          /\ pc = "patch_hung" => sigint = "pending"
          /\ AppendAndSave("arms", "try")
    /\ sigint' = IF sigint = "pending" THEN "delivered" ELSE sigint
    /\ UNCHANGED <<wrapper, attempt, relaunched, todo, rc, disk, faults>>

\* It does not: SystemExit(124), which `except Exception' does not catch.
GiveUpOnHungTask ==
    /\ pc \in {"grace_hung", "patch_hung"} /\ sigint # "pending"
    /\ Exit(124)
    /\ UNCHANGED <<wrapper, attempt, relaunched, todo, cve, rows, saving, sigint, disk, faults>>

\* Ctrl-C reaches the sweep at its await: flush the results and re-raise.
Cancelled ==
    /\ pc \in {"vuln", "patch"} /\ sigint = "pending"
    /\ sigint' = "delivered"
    /\ saving' = "cancel" /\ pc' = "open"
    /\ UNCHANGED <<wrapper, attempt, relaunched, todo, cve, rows, rc, disk, faults>>

-----------------------------------------------------------------------------
(* _save_json: write_text opens (and truncates) the file, then writes it. *)

OpenResults ==
    /\ pc = "open"
    /\ disk' = [state |-> "torn", rows |-> <<>>]
    /\ pc' = "write"
    /\ UNCHANGED <<wrapper, attempt, relaunched, todo, cve, rows, saving, sigint, rc, faults>>

WriteResults ==
    /\ pc = "write"
    /\ disk' = [state |-> "valid", rows |-> rows]
    /\ IF saving = "cancel" THEN Exit(130) ELSE pc' = "next" /\ UNCHANGED rc
    /\ saving' = "none"
    /\ UNCHANGED <<wrapper, attempt, relaunched, todo, cve, rows, sigint, faults>>

-----------------------------------------------------------------------------
(* Faults. *)

Inject(fault) ==
    /\ fault \in Faults
    /\ faults < MaxFaults
    /\ faults' = faults + 1

\* An OSError in _save_json: inside the try it becomes one more row, "error";
\* outside of it, or in a handler, it ends the process.
SaveFails ==
    /\ Inject("oserror")
    /\ pc \in {"open", "write"}
    /\ UNCHANGED cve
    /\ IF saving = "try"
       THEN AppendAndSave("error", "handler") /\ UNCHANGED rc
       ELSE Exit(1) /\ UNCHANGED <<rows, saving>>
    /\ UNCHANGED <<wrapper, attempt, relaunched, todo, sigint, disk>>

\* SIGKILL, an out-of-memory kill, a reboot
Kill ==
    /\ Inject("kill")
    /\ pc # "off"
    /\ Exit(137)
    /\ UNCHANGED <<wrapper, attempt, relaunched, todo, cve, rows, saving, sigint, disk>>

Interrupt ==
    /\ Inject("sigint")
    /\ pc # "off" /\ sigint = "none"
    /\ sigint' = "pending"
    /\ UNCHANGED <<wrapper, attempt, relaunched, pc, todo, cve, rows, saving, rc, disk>>

-----------------------------------------------------------------------------

Init ==
    /\ wrapper = "check" /\ attempt = 0 /\ relaunched = 0
    /\ pc = "off" /\ todo = {} /\ cve = 0 /\ rows = <<>>
    /\ saving = "none" /\ sigint = "none" /\ rc = 0
    /\ disk = [state |-> "absent", rows |-> <<>>]
    /\ faults = 0

Progress ==
    \/ Cycle \/ ProcessExited
    \/ Load \/ NextCve \/ CloneAndCheckout \/ RunVulnerable \/ RunPatchedCommit
    \/ Settle \/ GiveUpOnHungTask \/ Cancelled \/ OpenResults \/ WriteResults

Next == Progress \/ Relaunch \/ SaveFails \/ Kill \/ Interrupt

Spec == Init /\ [][Next]_vars

\* The wrapper and the process it started keep running; operators and faults
\* owe nothing.  Every pipeline.run ends or exceeds its budget.
FairSpec == Spec /\ WF_vars(Progress)

-----------------------------------------------------------------------------
(* Properties *)

TypeOK ==
    /\ wrapper \in {"check", "running", "done", "gaveup", "aborted"}
    /\ attempt \in 0..MaxResumes
    /\ relaunched \in 0..Relaunches
    /\ pc \in {"off", "load", "next", "clone", "vuln", "patch", "grace", "grace_hung",
               "patch_grace", "patch_hung", "open", "write"}
    /\ todo \subseteq CVE
    /\ cve \in CVE \cup {0}
    /\ rows \in Seq(Rows)
    /\ saving \in {"none", "try", "handler", "skip", "cancel"}
    /\ sigint \in {"none", "pending", "delivered"}
    /\ rc \in {0, 1, 124, 130, 137}
    /\ disk \in [state : {"absent", "torn", "valid"}, rows : Seq(Rows)]
    /\ faults \in 0..MaxFaults

\* The process appends to the rows it pre-loaded while the wrapper decides from
\* the file what is left to do: through resumes, kills and interrupts no CVE
\* gets a second row, save for the "error" row that a failed save adds.
OneRowPerCve ==
    \A i, j \in 1..Len(rows) : i < j /\ rows[i].cve = rows[j].cve =>
        j = i + 1 /\ rows[i].kind \in {"arms", "timeout"} /\ rows[j].kind = "error"

Saving == pc \in {"open", "write"}

\* The sweep implements the results log: what is recorded is what the file
\* holds or, during a save, what the file is about to hold.
Log == INSTANCE ResultsLog WITH
    recorded <- IF Saving THEN CvesOf(rows) ELSE DoneOnDisk,
    saving <- Saving,
    crashes <- faults

RecordsResults == Log!Spec

\* The resume works "without losing any completed CVEs" (run_evaluation.py:579):
\* no CVE whose row reached the results file is ever missing from it again.
\* (While the file is rewritten, it counts as holding what is written.)
OnRecord == IF pc = "write" THEN CvesOf(rows) ELSE DoneOnDisk

FinishedWorkKept == [][OnRecord \subseteq OnRecord']_vars

\* A wrapper that ended well, by whatever faults, exits and resumes, leaves a
\* row for every CVE, save those that leave none by design of the loop: the
\* clone failed, or there are no ground-truth lines.
CompleteWhenDone ==
    wrapper = "done" => CVE \ (CloneFails \cup NoLines) \subseteq DoneOnDisk

\* However often the process hangs or dies, a wrapper invocation ends.
WrapperStops ==
    wrapper = "check" ~> wrapper \in {"done", "gaveup", "aborted"}

\* "Designed to be robust against the [...] stall"
\* (run_joern_validation_full.sh:3): when the wrapper gives up, the CVEs that
\* never hang have their rows.
OthersRecorded ==
    wrapper = "gaveup" =>
        {c \in CVE \ (CloneFails \cup NoLines) : "hangs" \notin Endings[c]} \subseteq DoneOnDisk
=============================================================================
