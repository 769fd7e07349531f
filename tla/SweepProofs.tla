---------------------------- MODULE SweepProofs ----------------------------
(***************************************************************************)
(* A resumed sweep gives every CVE its row, and no CVE a second one, and   *)
(* implements ResultsLog: for any list of CVEs, any way their runs end and *)
(* any number of faults, resumes and relaunches.                           *)
(*                                                                         *)
(* The inductive invariant relates the three places a CVE can be in while  *)
(* a process runs: it is still to do, it has its row, or it is in hand.    *)
(* Last, how far the two properties hold that the runs refute.             *)
(***************************************************************************)
EXTENDS Sweep, TLAPS

Working == pc \in {"clone", "vuln", "patch", "grace", "grace_hung", "patch_grace", "patch_hung"}
Looping == pc = "next" \/ Working

\* The shape that OneRowPerCve asks of the rows.
Single(rs) ==
    \A i, j \in 1..Len(rs) : i < j /\ rs[i].cve = rs[j].cve =>
        j = i + 1 /\ rs[i].kind \in {"arms", "timeout"} /\ rs[j].kind = "error"

\* The last row is the one of c, and its first.
EndsWith(rs, c) ==
    /\ Len(rs) # 0 /\ rs[Len(rs)].cve = c /\ rs[Len(rs)].kind \in {"arms", "timeout"}
    /\ \A i \in 1..Len(rs) : rs[i].cve = c => i = Len(rs)

\* What a place in the program says of the wrapper and of the file.
PlaceOK ==
    /\ pc # "off" => wrapper = "running"
    /\ wrapper = "running" => attempt < MaxResumes
    /\ Working => cve \in CVE
    /\ Looping => rows = IF disk.state = "valid" THEN disk.rows ELSE <<>>
    /\ pc = "open" => DoneOnDisk \subseteq CvesOf(rows)
    /\ pc = "write" => disk.state = "torn"

\* No CVE is in two of the three places.
RowsOK ==
    /\ Single(rows) /\ Single(disk.rows)
    /\ pc = "load" => DoneOnDisk \cap todo = {}
    /\ pc \notin {"off", "load"} => CvesOf(rows) \cap todo = {}
    /\ Working => cve \notin todo \cup CvesOf(rows)
    /\ Saving /\ saving = "try" => EndsWith(rows, cve)

\* A CVE that must have a row is in one of them.
Must == CVE \ (CloneFails \cup NoLines)

CoverOK ==
    /\ pc = "load" => Must \subseteq todo \cup DoneOnDisk
    /\ pc = "next" \/ (Saving /\ saving # "cancel") => Must \subseteq todo \cup CvesOf(rows)
    /\ Working => Must \subseteq todo \cup CvesOf(rows) \cup {cve}
    /\ wrapper = "running" /\ pc = "off" /\ rc = 0 => Must \subseteq DoneOnDisk
    /\ wrapper = "done" => Must \subseteq DoneOnDisk

SInv == TypeOK /\ PlaceOK /\ RowsOK /\ CoverOK

-----------------------------------------------------------------------------
(* Rows. *)

LEMMA EmptyRows == <<>> \in Seq(Rows) /\ CvesOf(<<>>) = {} /\ Single(<<>>)
<1>1. <<>> \in Seq(Rows) /\ Len(<<>>) = 0
  OBVIOUS
<1> QED
  BY <1>1 DEF CvesOf, Single

LEMMA AppendedRow ==
    ASSUME NEW rs \in Seq(Rows), NEW c \in CVE,
           NEW kind \in {"arms", "timeout", "error", "explicit"}
    PROVE  LET longer == Append(rs, Row(c, kind)) IN
           /\ longer \in Seq(Rows) /\ Len(rs) \in Nat /\ Len(longer) = Len(rs) + 1
           /\ \A i \in 1..Len(rs) : longer[i] = rs[i]
           /\ longer[Len(rs) + 1].cve = c /\ longer[Len(rs) + 1].kind = kind
           /\ CvesOf(longer) = CvesOf(rs) \cup {c}
<1> DEFINE longer == Append(rs, Row(c, kind))
<1>1. Row(c, kind) \in Rows /\ Row(c, kind).cve = c /\ Row(c, kind).kind = kind
  BY DEF Row, Rows
<1>2. /\ longer \in Seq(Rows) /\ Len(rs) \in Nat /\ Len(longer) = Len(rs) + 1
      /\ \A i \in 1..Len(rs) : longer[i] = rs[i]
      /\ longer[Len(rs) + 1] = Row(c, kind)
  BY <1>1
<1> HIDE DEF longer
<1>3. CvesOf(longer) = CvesOf(rs) \cup {c}
  BY <1>1, <1>2 DEF CvesOf
<1> QED
  BY <1>1, <1>2, <1>3 DEF longer

\* A row for a CVE that had none, and the error row of a save that failed.
LEMMA NewRowIsSingle ==
    ASSUME NEW rs \in Seq(Rows), Single(rs), NEW c \in CVE \ CvesOf(rs),
           NEW kind \in {"arms", "timeout", "error", "explicit"}
    PROVE  /\ Single(Append(rs, Row(c, kind)))
           /\ kind \in {"arms", "timeout"} => EndsWith(Append(rs, Row(c, kind)), c)
<1> DEFINE longer == Append(rs, Row(c, kind))
<1>1. /\ longer \in Seq(Rows) /\ Len(rs) \in Nat /\ Len(longer) = Len(rs) + 1
      /\ \A i \in 1..Len(rs) : longer[i] = rs[i]
      /\ longer[Len(rs) + 1].cve = c /\ longer[Len(rs) + 1].kind = kind
  BY AppendedRow
<1>2. \A i \in 1..Len(rs) : longer[i].cve # c
  BY <1>1 DEF CvesOf
<1> HIDE DEF longer
<1>3. Single(longer)
  <2>1. ASSUME NEW i \in 1..Len(longer), NEW j \in 1..Len(longer), i < j,
               longer[i].cve = longer[j].cve
        PROVE  j \in 1..Len(rs) /\ i \in 1..Len(rs)
    BY <1>1, <1>2, <2>1
  <2> QED
    BY <1>1, <2>1 DEF Single
<1>4. kind \in {"arms", "timeout"} => EndsWith(longer, c)
  BY <1>1, <1>2 DEF EndsWith
<1> QED
  BY <1>3, <1>4 DEF longer

LEMMA ErrorRowIsSingle ==
    ASSUME NEW rs \in Seq(Rows), NEW c \in CVE, Single(rs), EndsWith(rs, c)
    PROVE  Single(Append(rs, Row(c, "error")))
<1> DEFINE longer == Append(rs, Row(c, "error"))
<1>1. /\ Len(rs) \in Nat /\ Len(longer) = Len(rs) + 1
      /\ \A i \in 1..Len(rs) : longer[i] = rs[i]
      /\ longer[Len(rs) + 1].cve = c /\ longer[Len(rs) + 1].kind = "error"
  BY AppendedRow
<1> HIDE DEF longer
<1>2. /\ \A i \in 1..Len(rs) : rs[i].cve = c => i = Len(rs)
      /\ rs[Len(rs)].kind \in {"arms", "timeout"}
  BY DEF EndsWith
<1>3. ASSUME NEW i \in 1..Len(longer), NEW j \in 1..Len(longer), i < j,
             longer[i].cve = longer[j].cve
      PROVE  /\ j = i + 1 /\ longer[i].kind \in {"arms", "timeout"}
             /\ longer[j].kind = "error"
  <2>1. i \in 1..Len(rs) /\ longer[i] = rs[i]
    BY <1>1, <1>3
  <2>2. CASE j \in 1..Len(rs)
    BY <1>1, <1>3, <2>1, <2>2 DEF Single
  <2>3. CASE j = Len(rs) + 1
    BY <1>1, <1>2, <1>3, <2>1, <2>3
  <2> QED
    BY <1>1, <2>2, <2>3
<1>4. Single(longer)
  BY <1>3 DEF Single
<1> QED
  BY <1>4 DEF longer

-----------------------------------------------------------------------------
(* What the actions have in common. *)

Outside == <<wrapper, attempt, relaunched, todo, rc, disk, faults>>

\* The CVE in hand gets its row.
LEMMA FinishKeepsInv ==
    ASSUME SInv, Working, cve' = cve, NEW kind, NEW context, AppendAndSave(kind, context),
           <<kind, context>> \in {<<"arms", "try">>, <<"timeout", "try">>, <<"error", "handler">>},
           sigint' \in {"none", "pending", "delivered"},
           UNCHANGED Outside
    PROVE  SInv'
<1>1. /\ rows \in Seq(Rows) /\ cve \in CVE \ CvesOf(rows) /\ rows' = Append(rows, Row(cve, kind))
      /\ kind \in {"arms", "timeout", "error", "explicit"}
  BY DEF SInv, TypeOK, PlaceOK, RowsOK, AppendAndSave
<1>2. rows' \in Seq(Rows) /\ CvesOf(rows') = CvesOf(rows) \cup {cve}
  BY <1>1, AppendedRow
<1>3. Single(rows') /\ (context = "try" => EndsWith(rows', cve))
  BY <1>1, NewRowIsSingle DEF SInv, RowsOK
<1>4. pc' = "open" /\ saving' = context /\ pc \notin {"off", "load"}
  BY DEF AppendAndSave, Working
<1>5. TypeOK'
  BY <1>2, <1>4 DEF SInv, TypeOK, Outside
<1>6. DoneOnDisk \subseteq CvesOf(rows)
  BY EmptyRows DEF SInv, PlaceOK, Looping, DoneOnDisk
<1>7. PlaceOK'
  BY <1>2, <1>4, <1>6 DEF SInv, PlaceOK, Outside, Working, Looping, DoneOnDisk, CvesOf
<1>8. RowsOK'
  <2>1. (CvesOf(rows) \cap todo = {})'
    BY <1>2 DEF SInv, RowsOK, Working, Outside, CvesOf
  <2>2. (Single(rows) /\ Single(disk.rows))'
    BY <1>3 DEF SInv, RowsOK, Outside, Single
  <2>3. (saving = "try" => EndsWith(rows, cve))'
    BY <1>3, <1>4 DEF EndsWith
  <2> QED
    BY <1>4, <2>1, <2>2, <2>3 DEF RowsOK, Working
<1>9. CoverOK'
  BY <1>2, <1>4 DEF SInv, CoverOK, PlaceOK, Outside, Working, Saving, Must, DoneOnDisk, CvesOf
<1> QED
  BY <1>5, <1>7, <1>8, <1>9 DEF SInv

\* What is said of the rows stays true while neither they nor the file change.
LEMMA SameRows ==
    ASSUME UNCHANGED <<rows, disk>>
    PROVE  /\ Single(rows) => Single(rows)'
           /\ Single(disk.rows) => Single(disk.rows)'
           /\ CvesOf(rows)' = CvesOf(rows)
           /\ DoneOnDisk' = DoneOnDisk
           /\ cve' = cve /\ EndsWith(rows, cve) => EndsWith(rows, cve)'
<1>1. (Single(rows) => Single(rows)') /\ (Single(disk.rows) => Single(disk.rows)')
  BY DEF Single
<1>2. CvesOf(rows)' = CvesOf(rows) /\ DoneOnDisk' = DoneOnDisk
  BY DEF CvesOf, DoneOnDisk
<1>3. cve' = cve /\ EndsWith(rows, cve) => EndsWith(rows, cve)'
  BY DEF EndsWith
<1> QED
  BY <1>1, <1>2, <1>3

\* Nothing the rest of the invariant speaks of changes.
LEMMA SameKeepsRest ==
    ASSUME SInv, UNCHANGED <<wrapper, attempt, pc, todo, cve, rows, saving, rc, disk>>
    PROVE  (PlaceOK /\ RowsOK /\ CoverOK)'
<1>1. PlaceOK'
  BY SameRows DEF SInv, PlaceOK, Working, Looping
<1>2. RowsOK'
  BY SameRows DEF SInv, RowsOK, Working, Saving
<1>3. CoverOK'
  BY SameRows DEF SInv, CoverOK, Working, Saving, Must
<1> QED
  BY <1>1, <1>2, <1>3

\* The process goes on with the CVE it has in hand.
LEMMA WorkingKeepsInv ==
    ASSUME SInv, Working,
           pc' \in {"vuln", "patch", "grace", "grace_hung", "patch_grace", "patch_hung"},
           UNCHANGED <<Outside, cve, rows, saving, sigint>>
    PROVE  SInv'
<1>1. TypeOK' /\ PlaceOK'
  BY SameRows DEF SInv, TypeOK, PlaceOK, Outside, Working, Looping
<1>2. RowsOK'
  BY SameRows DEF SInv, RowsOK, Outside, Working, Saving
<1>3. CoverOK'
  BY SameRows DEF SInv, PlaceOK, CoverOK, Outside, Working, Saving, Must
<1> QED
  BY <1>1, <1>2, <1>3 DEF SInv

\* The process ends, other than with exit code 0.
LEMMA EndKeepsInv ==
    ASSUME SInv, NEW code \in {1, 124, 130, 137}, Exit(code), pc # "off",
           faults' \in 0..MaxFaults,
           UNCHANGED <<wrapper, attempt, relaunched, todo, cve, rows, saving, sigint, disk>>
    PROVE  SInv'
<1>1. TypeOK' /\ PlaceOK'
  BY SameRows DEF SInv, TypeOK, PlaceOK, Exit, Working, Looping
<1>2. RowsOK'
  BY SameRows DEF SInv, RowsOK, Exit, Working, Saving
<1>3. CoverOK'
  BY SameRows DEF SInv, PlaceOK, CoverOK, Exit, Working, Saving, Must
<1> QED
  BY <1>1, <1>2, <1>3 DEF SInv

-----------------------------------------------------------------------------
(* One lemma per action. *)

LEMMA CycleKeepsInv == ASSUME SInv, Cycle PROVE SInv'
<1>1. CASE wrapper' = "done" /\ Remaining = {} /\ UNCHANGED process
  <2>1. TypeOK' /\ PlaceOK'
    BY <1>1, SameRows DEF Cycle, process, SInv, TypeOK, PlaceOK, Working, Looping
  <2>2. RowsOK'
    BY <1>1, SameRows DEF Cycle, process, SInv, RowsOK, Working, Saving
  <2>3. Must \subseteq DoneOnDisk
    BY <1>1 DEF Remaining, Must
  <2>4. CoverOK'
    BY <1>1, <2>3, SameRows DEF Cycle, process, SInv, PlaceOK, CoverOK, Working, Saving, Must
  <2> QED
    BY <2>1, <2>2, <2>4 DEF SInv
<1>2. CASE wrapper' = "gaveup" /\ UNCHANGED process
  <2>1. TypeOK' /\ PlaceOK'
    BY <1>2, SameRows DEF Cycle, process, SInv, TypeOK, PlaceOK, Working, Looping
  <2>2. RowsOK'
    BY <1>2, SameRows DEF Cycle, process, SInv, RowsOK, Working, Saving
  <2>3. CoverOK'
    BY <1>2, SameRows DEF Cycle, process, SInv, PlaceOK, CoverOK, Working, Saving, Must
  <2> QED
    BY <2>1, <2>2, <2>3 DEF SInv
<1>3. CASE /\ ~OutOfResumes /\ wrapper' = "running"
           /\ pc' = "load" /\ todo' = Remaining /\ cve' = 0 /\ rows' = <<>>
           /\ saving' = "none" /\ sigint' = "none" /\ rc' = 0
  <2>1. UNCHANGED <<attempt, relaunched, disk, faults>> /\ pc = "off"
    BY <1>3 DEF Cycle, SInv, PlaceOK
  <2>2. attempt < MaxResumes
    BY <1>3, SweepAssumption DEF SInv, TypeOK, OutOfResumes
  <2>3. TypeOK' /\ PlaceOK'
    BY <1>3, <2>1, <2>2, EmptyRows DEF SInv, TypeOK, PlaceOK, Working, Looping, Remaining
  <2>4. RowsOK'
    BY <1>3, <2>1, EmptyRows DEF SInv, RowsOK, Working, Saving, Single, Remaining,
       DoneOnDisk, CvesOf
  <2>5. CoverOK'
    BY <1>3, <2>1 DEF CoverOK, Working, Saving, Must, Remaining, DoneOnDisk, CvesOf
  <2> QED
    BY <2>3, <2>4, <2>5 DEF SInv
<1> QED
  BY <1>1, <1>2, <1>3 DEF Cycle

LEMMA ProcessExitedKeepsInv == ASSUME SInv, ProcessExited PROVE SInv'
<1>1. attempt + 1 \in 0..MaxResumes
  BY SweepAssumption DEF ProcessExited, SInv, TypeOK, PlaceOK
<1>2. TypeOK' /\ PlaceOK'
  BY <1>1, SameRows DEF ProcessExited, process, SInv, TypeOK, PlaceOK, Working, Looping
<1>3. RowsOK'
  BY SameRows DEF ProcessExited, process, SInv, RowsOK, Working, Saving
<1>4. CoverOK'
  BY SameRows DEF ProcessExited, process, SInv, CoverOK, Working, Saving, Must
<1> QED
  BY <1>2, <1>3, <1>4 DEF SInv

LEMMA RelaunchKeepsInv == ASSUME SInv, Relaunch PROVE SInv'
<1>1. TypeOK' /\ PlaceOK'
  BY SweepAssumption, SameRows DEF Relaunch, process, SInv, TypeOK, PlaceOK, Working, Looping
<1>2. RowsOK'
  BY SameRows DEF Relaunch, process, SInv, RowsOK, Working, Saving
<1>3. CoverOK'
  BY SameRows DEF Relaunch, process, SInv, CoverOK, Working, Saving, Must
<1> QED
  BY <1>1, <1>2, <1>3 DEF SInv

LEMMA LoadKeepsInv == ASSUME SInv, Load PROVE SInv'
<1>1. UNCHANGED <<wrapper, attempt, relaunched, todo, cve, saving, sigint, rc, disk, faults>>
  BY DEF Load
<1>2. pc = "load" /\ pc' = "next" /\ rows' = IF disk.state = "valid" THEN disk.rows ELSE <<>>
  BY DEF Load
<1>3. rows' \in Seq(Rows) /\ Single(rows') /\ CvesOf(rows') = DoneOnDisk
  BY <1>2, EmptyRows DEF SInv, TypeOK, RowsOK, DoneOnDisk
<1>4. TypeOK' /\ PlaceOK'
  BY <1>1, <1>2, <1>3 DEF SInv, TypeOK, PlaceOK, Working, Looping
<1>5. (Single(rows) /\ Single(disk.rows))'
  <2>1. Single(rows)'
    BY <1>3 DEF Single
  <2>2. Single(disk.rows)
    BY DEF SInv, RowsOK
  <2>3. Single(disk.rows)'
    BY <1>1, <2>2 DEF Single
  <2> QED
    BY <2>1, <2>3
<1>6. CvesOf(rows)' = DoneOnDisk
  BY <1>3 DEF CvesOf
<1>7. RowsOK'
  BY <1>1, <1>2, <1>5, <1>6 DEF SInv, RowsOK, Working, Saving
<1>8. CoverOK'
  BY <1>1, <1>2, <1>6 DEF SInv, PlaceOK, CoverOK, Working, Saving, Must
<1> QED
  BY <1>4, <1>7, <1>8 DEF SInv

LEMMA NextCveKeepsInv == ASSUME SInv, NextCve PROVE SInv'
<1>0. UNCHANGED <<wrapper, attempt, relaunched, sigint, disk, faults>> /\ pc = "next"
  BY DEF NextCve
<1>1. CASE /\ todo = {} /\ Exit(IF sigint = "pending" THEN 130 ELSE 0)
           /\ UNCHANGED <<todo, cve, rows, saving>>
  <2>1. CvesOf(rows) = DoneOnDisk
    BY <1>0, EmptyRows DEF SInv, PlaceOK, Looping, DoneOnDisk
  <2>2. TypeOK' /\ PlaceOK'
    BY <1>0, <1>1 DEF Exit, SInv, TypeOK, PlaceOK, Working, Looping
  <2>3. RowsOK'
    BY <1>0, <1>1, SameRows DEF Exit, SInv, RowsOK, Working, Saving
  <2>4. CoverOK'
    BY <1>0, <1>1, <2>1, SameRows DEF Exit, SInv, CoverOK, PlaceOK, Working, Saving, Must
  <2> QED
    BY <2>2, <2>3, <2>4 DEF SInv
<1>2. ASSUME NEW c \in todo, cve' = c, todo' = todo \ {c}, rc' = rc,
             c \in Explicit, AppendAndSave("explicit", "skip")
      PROVE  SInv'
  <2>1. rows \in Seq(Rows) /\ c \in CVE \ CvesOf(rows) /\ rows' = Append(rows, Row(c, "explicit"))
    BY <1>0, <1>2 DEF SInv, TypeOK, RowsOK, AppendAndSave
  <2>2. rows' \in Seq(Rows) /\ CvesOf(rows') = CvesOf(rows) \cup {c} /\ Single(rows')
    BY <2>1, AppendedRow, NewRowIsSingle DEF SInv, RowsOK
  <2>3. pc' = "open" /\ saving' = "skip"
    BY <1>2 DEF AppendAndSave
  <2>4. CvesOf(rows) = DoneOnDisk
    BY <1>0, EmptyRows DEF SInv, PlaceOK, Looping, DoneOnDisk
  <2>5. TypeOK' /\ PlaceOK'
    BY <1>0, <1>2, <2>1, <2>2, <2>3, <2>4
    DEF SInv, TypeOK, PlaceOK, Working, Looping, DoneOnDisk, CvesOf
  <2>6. (Single(rows) /\ Single(disk.rows))'
    BY <1>0, <2>2 DEF SInv, RowsOK, Single
  <2>7. (CvesOf(rows) \cap todo = {})'
    BY <1>0, <1>2, <2>2 DEF SInv, RowsOK, CvesOf
  <2>8. RowsOK'
    BY <2>3, <2>6, <2>7 DEF RowsOK, Working
  <2>9. CoverOK'
    BY <1>0, <1>2, <2>2, <2>3 DEF SInv, CoverOK, PlaceOK, Working, Saving, Must, DoneOnDisk,
       CvesOf
  <2> QED
    BY <2>5, <2>8, <2>9 DEF SInv
<1>3. ASSUME NEW c \in todo, cve' = c, todo' = todo \ {c}, rc' = rc, UNCHANGED <<rows, saving>>,
             (c \in NoLines /\ pc' = pc) \/ pc' = "clone"
      PROVE  SInv'
  <2>1. TypeOK' /\ PlaceOK'
    BY <1>0, <1>3, SameRows DEF SInv, TypeOK, PlaceOK, Working, Looping
  <2>2. RowsOK'
    BY <1>0, <1>3, SameRows DEF SInv, RowsOK, Working, Saving
  <2>3. CoverOK'
    BY <1>0, <1>3, SameRows DEF SInv, PlaceOK, CoverOK, Working, Saving, Must
  <2> QED
    BY <2>1, <2>2, <2>3 DEF SInv
<1> QED
  BY <1>1, <1>2, <1>3 DEF NextCve

LEMMA CloneKeepsInv == ASSUME SInv, CloneAndCheckout PROVE SInv'
<1>1. CASE cve \in CloneFails
  <2>1. TypeOK' /\ PlaceOK'
    BY <1>1, SameRows DEF CloneAndCheckout, SInv, TypeOK, PlaceOK, Working, Looping
  <2>2. RowsOK'
    BY <1>1, SameRows DEF CloneAndCheckout, SInv, RowsOK, Working, Saving
  <2>3. CoverOK'
    BY <1>1, SameRows DEF CloneAndCheckout, SInv, PlaceOK, CoverOK, Working, Saving, Must
  <2> QED
    BY <2>1, <2>2, <2>3 DEF SInv
<1>2. CASE cve \notin CloneFails
  BY <1>2, WorkingKeepsInv DEF CloneAndCheckout, Working, Outside
<1> QED
  BY <1>1, <1>2

LEMMA CancelledKeepsInv == ASSUME SInv, Cancelled PROVE SInv'
<1>1. DoneOnDisk \subseteq CvesOf(rows)
  BY EmptyRows DEF Cancelled, SInv, PlaceOK, Looping, Working, DoneOnDisk
<1>2. TypeOK' /\ PlaceOK'
  BY <1>1 DEF Cancelled, SInv, TypeOK, PlaceOK, Working, Looping, DoneOnDisk, CvesOf
<1>3. RowsOK'
  BY DEF Cancelled, SInv, RowsOK, Working, Saving, Single, CvesOf
<1>4. CoverOK'
  BY DEF Cancelled, SInv, PlaceOK, CoverOK, Working, Saving, Must, DoneOnDisk, CvesOf
<1> QED
  BY <1>2, <1>3, <1>4 DEF SInv

LEMMA OpenResultsKeepsInv == ASSUME SInv, OpenResults PROVE SInv'
<1>1. TypeOK' /\ PlaceOK'
  BY EmptyRows DEF OpenResults, SInv, TypeOK, PlaceOK, Working, Looping
<1>2. Single(disk.rows)'
  BY EmptyRows DEF OpenResults, Single
<1>3. RowsOK'
  BY <1>2 DEF OpenResults, SInv, RowsOK, Working, Saving, Single, EndsWith, CvesOf
<1>4. CoverOK'
  BY DEF OpenResults, SInv, PlaceOK, CoverOK, Working, Saving, Must, CvesOf
<1> QED
  BY <1>1, <1>3, <1>4 DEF SInv

LEMMA WriteResultsKeepsInv == ASSUME SInv, WriteResults PROVE SInv'
<1>1. /\ UNCHANGED <<wrapper, attempt, relaunched, todo, cve, rows, sigint, faults>>
      /\ disk' = [state |-> "valid", rows |-> rows] /\ saving' = "none"
  BY DEF WriteResults
<1>2. \/ saving = "cancel" /\ pc' = "off" /\ rc' = 130
      \/ saving # "cancel" /\ pc' = "next" /\ rc' = rc
  BY DEF WriteResults, Exit
<1>3. TypeOK' /\ PlaceOK'
  BY <1>1, <1>2 DEF WriteResults, SInv, TypeOK, PlaceOK, Working, Looping
<1>4. (Single(rows) /\ Single(disk.rows))'
  BY <1>1 DEF SInv, RowsOK, Single
<1>5. RowsOK'
  BY <1>1, <1>2, <1>4 DEF WriteResults, SInv, RowsOK, Working, Saving, CvesOf
<1>6. CoverOK'
  BY <1>1, <1>2 DEF WriteResults, SInv, PlaceOK, CoverOK, Working, Saving, Must, CvesOf
<1> QED
  BY <1>3, <1>5, <1>6 DEF SInv

LEMMA SaveFailsKeepsInv == ASSUME SInv, SaveFails PROVE SInv'
<1>0. faults' \in 0..MaxFaults /\ pc \in {"open", "write"}
  BY SweepAssumption DEF SaveFails, Inject, SInv, TypeOK
<1>1. CASE saving = "try"
  <2>1. UNCHANGED <<wrapper, attempt, relaunched, todo, cve, sigint, rc, disk>>
    BY <1>1 DEF SaveFails
  <2>2. /\ rows \in Seq(Rows) /\ EndsWith(rows, cve)
        /\ rows' = Append(rows, Row(cve, "error")) /\ pc' = "open" /\ saving' = "handler"
    BY <1>0, <1>1, <2>1 DEF SaveFails, SInv, TypeOK, RowsOK, Saving, AppendAndSave
  <2>3. cve \in CvesOf(rows) /\ cve \in CVE
    <3>1. Len(rows) \in 1..Len(rows)
      BY <2>2 DEF EndsWith
    <3>2. rows[Len(rows)] \in Rows /\ rows[Len(rows)].cve = cve
      BY <2>2, <3>1 DEF EndsWith
    <3> QED
      BY <3>1, <3>2 DEF CvesOf, Rows
  <2>4. rows' \in Seq(Rows) /\ CvesOf(rows') = CvesOf(rows)
    <3>1. rows' \in Seq(Rows) /\ CvesOf(rows') = CvesOf(rows) \cup {cve}
      BY <2>2, <2>3, AppendedRow
    <3> QED
      BY <2>3, <3>1
  <2>10. Single(rows')
    BY <2>2, <2>3, ErrorRowIsSingle DEF SInv, RowsOK
  <2>5. DoneOnDisk \subseteq CvesOf(rows)
    BY <1>0, EmptyRows DEF SInv, PlaceOK, DoneOnDisk
  <2>6. TypeOK'
    BY <1>0, <2>1, <2>2, <2>4 DEF SInv, TypeOK
  <2>11. PlaceOK'
    <3>1. (DoneOnDisk \subseteq CvesOf(rows))'
      BY <2>1, <2>4, <2>5 DEF DoneOnDisk, CvesOf
    <3> QED
      BY <1>0, <2>1, <2>2, <3>1 DEF SInv, PlaceOK, Working, Looping
  <2>7. (Single(rows) /\ Single(disk.rows))'
    BY <2>1, <2>10 DEF SInv, RowsOK, Single
  <2>8. RowsOK'
    BY <1>0, <2>1, <2>2, <2>4, <2>7 DEF SInv, RowsOK, Working, CvesOf
  <2>9. CoverOK'
    BY <1>0, <1>1, <2>1, <2>2, <2>4 DEF SInv, PlaceOK, CoverOK, Working, Saving, Must, CvesOf
  <2> QED
    BY <2>6, <2>8, <2>9, <2>11 DEF SInv
<1>2. CASE saving # "try"
  BY <1>0, <1>2, EndKeepsInv DEF SaveFails
<1> QED
  BY <1>1, <1>2

LEMMA InterruptKeepsInv == ASSUME SInv, Interrupt PROVE SInv'
<1>1. TypeOK'
  BY SweepAssumption DEF Interrupt, Inject, SInv, TypeOK
<1>2. UNCHANGED <<wrapper, attempt, pc, todo, cve, rows, saving, rc, disk>>
  BY DEF Interrupt
<1> QED
  BY <1>1, <1>2, SameKeepsRest DEF SInv

LEMMA RunsKeepInv ==
    ASSUME SInv, RunVulnerable \/ RunPatchedCommit \/ Settle PROVE SInv'
<1>1. /\ Working /\ cve' = cve /\ UNCHANGED Outside
      /\ sigint' \in {"none", "pending", "delivered"}
  BY DEF RunVulnerable, RunPatchedCommit, Settle, Working, Outside, SInv, TypeOK
<1>2. \/ AppendAndSave("arms", "try") \/ AppendAndSave("timeout", "try")
      \/ AppendAndSave("error", "handler")
      \/ /\ pc' \in {"patch", "grace", "grace_hung", "patch_grace", "patch_hung"}
         /\ UNCHANGED <<rows, saving, sigint>>
  BY DEF RunVulnerable, RunPatchedCommit, Settle
<1> QED
  BY <1>1, <1>2, FinishKeepsInv, WorkingKeepsInv

LEMMA SweepInductive == SInv /\ [Next]_vars => SInv'
<1> SUFFICES ASSUME SInv, [Next]_vars PROVE SInv'
  OBVIOUS
<1>1. CASE Cycle \/ ProcessExited \/ Relaunch
  BY <1>1, CycleKeepsInv, ProcessExitedKeepsInv, RelaunchKeepsInv
<1>2. CASE Load \/ NextCve \/ CloneAndCheckout
  BY <1>2, LoadKeepsInv, NextCveKeepsInv, CloneKeepsInv
<1>3. CASE RunVulnerable \/ RunPatchedCommit \/ Settle
  BY <1>3, RunsKeepInv
<1>4. CASE GiveUpOnHungTask
  BY <1>4, EndKeepsInv DEF GiveUpOnHungTask, SInv, TypeOK
<1>5. CASE Cancelled \/ OpenResults \/ WriteResults
  BY <1>5, CancelledKeepsInv, OpenResultsKeepsInv, WriteResultsKeepsInv
<1>6. CASE SaveFails
  BY <1>6, SaveFailsKeepsInv
<1>7. CASE Kill
  <2>1. faults' \in 0..MaxFaults
    BY <1>7, SweepAssumption DEF Kill, Inject, SInv, TypeOK
  <2> QED
    BY <1>7, <2>1, EndKeepsInv DEF Kill
<1>8. CASE Interrupt
  BY <1>8, InterruptKeepsInv
<1>9. CASE UNCHANGED vars
  <2>1. TypeOK'
    BY <1>9 DEF vars, process, SInv, TypeOK
  <2> QED
    BY <1>9, <2>1, SameKeepsRest DEF vars, process, SInv
<1> QED
  BY <1>1, <1>2, <1>3, <1>4, <1>5, <1>6, <1>7, <1>8, <1>9 DEF Next, Progress

LEMMA SweepInvariance == Spec => []SInv
<1>1. Init => SInv
  BY SweepAssumption, EmptyRows
  DEF Init, SInv, TypeOK, PlaceOK, RowsOK, CoverOK, Working, Looping, Saving
<1> QED
  BY <1>1, SweepInductive, PTL DEF Spec

-----------------------------------------------------------------------------

\* Every variable of the sweep has its type, whatever the CVEs do to the harness.
THEOREM SweepTypeCorrect == Spec => []TypeOK
<1>1. SInv => TypeOK
  BY DEF SInv
<1> QED
  BY <1>1, SweepInvariance, PTL

\* Through resumes, kills, interrupts and failed saves no CVE gets a second row, save
\* for the error row of a save that failed (run_main_comparison).
THEOREM RowsStaySingle == Spec => []OneRowPerCve
<1>1. SInv => OneRowPerCve
  BY DEF SInv, RowsOK, Single, OneRowPerCve
<1> QED
  BY <1>1, SweepInvariance, PTL

\* A wrapper that ended well has left a row for every CVE that can have one
\* (run_joern_validation_full.sh).
THEOREM DoneIsComplete == Spec => []CompleteWhenDone
<1>1. SInv => CompleteWhenDone
  BY DEF SInv, CoverOK, Must, CompleteWhenDone
<1> QED
  BY <1>1, SweepInvariance, PTL

-----------------------------------------------------------------------------
(* The sweep implements the results log. *)

\* Outside of a save the rows of the process are those of the file.
LEMMA LoopingRows == ASSUME SInv, Looping PROVE CvesOf(rows) = DoneOnDisk
  BY EmptyRows DEF SInv, PlaceOK, DoneOnDisk

LEMMA RecordingImplements ==
    ASSUME SInv, Looping, NEW c \in CVE \ CvesOf(rows), CvesOf(rows') = CvesOf(rows) \cup {c},
           pc' = "open", faults' = faults
    PROVE  Log!Record(c)
  BY LoopingRows DEF Log!Record, Looping, Working, Saving, CvesOf

\* Outside of a save nothing is recorded or lost.
LEMMA QuietImplements ==
    ASSUME ~Saving, ~Saving', disk' = disk
    PROVE  /\ faults' = faults => UNCHANGED Log!vars
           /\ faults' = faults + 1 => Log!Crash
  BY DEF Log!vars, Log!Crash, Saving, DoneOnDisk, CvesOf

LEMMA SavingImplements ==
    ASSUME SInv, Saving, SaveFails \/ Kill PROVE Log!Crash
<1>1. DoneOnDisk \subseteq CvesOf(rows) /\ pc \in {"open", "write"}
  BY EmptyRows DEF SInv, PlaceOK, DoneOnDisk, Saving
<1>2. CASE pc' = "off"
  <2>1. disk' = disk /\ faults' = faults + 1
    BY <1>2 DEF SaveFails, Kill, Inject
  <2>2. DoneOnDisk' = DoneOnDisk /\ ~Saving'
    BY <1>2, <2>1 DEF DoneOnDisk, CvesOf, Saving
  <2> QED
    BY <1>1, <1>2, <2>1, <2>2 DEF Log!Crash, Saving
<1>3. CASE pc' # "off"
  <2>1. /\ saving = "try" /\ rows' = Append(rows, Row(cve, "error")) /\ pc' = "open"
        /\ faults' = faults + 1
    BY <1>3 DEF SaveFails, Kill, Inject, AppendAndSave, Exit
  <2>2. rows \in Seq(Rows) /\ EndsWith(rows, cve)
    BY <2>1 DEF SInv, TypeOK, RowsOK
  <2>3. Len(rows) \in 1..Len(rows) /\ rows[Len(rows)].cve = cve
    BY <2>2 DEF EndsWith
  <2>4. cve \in CvesOf(rows) /\ cve \in CVE
    <3>1. rows[Len(rows)] \in Rows
      BY <2>2, <2>3
    <3> QED
      BY <2>3, <3>1 DEF CvesOf, Rows
  <2>5. CvesOf(rows') = CvesOf(rows) \cup {cve}
    BY <2>1, <2>2, <2>4, AppendedRow
  <2> QED
    BY <1>1, <2>1, <2>4, <2>5 DEF Log!Crash, Saving, CvesOf
<1> QED
  BY <1>2, <1>3

LEMMA StepImplements == ASSUME SInv, [Next]_vars PROVE [Log!Next]_(Log!vars)
<1>1. CASE Cycle \/ ProcessExited \/ Relaunch
  <2>1. pc = "off" /\ pc' \in {"off", "load"} /\ UNCHANGED <<disk, faults>>
    BY <1>1 DEF Cycle, ProcessExited, Relaunch, process, SInv, PlaceOK
  <2> QED
    BY <2>1, QuietImplements DEF Saving
<1>2. CASE Load \/ CloneAndCheckout \/ GiveUpOnHungTask
  BY <1>2, QuietImplements DEF Load, CloneAndCheckout, GiveUpOnHungTask, Exit, Saving
<1>3. CASE NextCve
  <2>1. CASE pc' = "open"
    <3>1. PICK c \in todo : AppendAndSave("explicit", "skip") /\ cve' = c
      BY <1>3, <2>1 DEF NextCve, Exit
    <3>2. rows' = Append(rows, Row(c, "explicit")) /\ faults' = faults
      BY <1>3, <3>1 DEF NextCve, AppendAndSave
    <3>3. rows \in Seq(Rows) /\ c \in CVE \ CvesOf(rows)
      BY <1>3 DEF NextCve, SInv, TypeOK, RowsOK
    <3>4. CvesOf(rows') = CvesOf(rows) \cup {c}
      BY <3>2, <3>3, AppendedRow
    <3> QED
      BY <1>3, <2>1, <3>2, <3>3, <3>4, RecordingImplements DEF NextCve, Looping, Log!Next
  <2>2. CASE pc' # "open"
    BY <1>3, <2>2, QuietImplements DEF NextCve, AppendAndSave, Exit, Saving
  <2> QED
    BY <2>1, <2>2
<1>4. CASE RunVulnerable \/ RunPatchedCommit \/ Settle
  <2>1. Working /\ cve' = cve /\ UNCHANGED <<disk, faults>>
    BY <1>4 DEF RunVulnerable, RunPatchedCommit, Settle, Working
  <2>2. \/ \E kind \in {"arms", "timeout", "error"}, context \in {"try", "handler"} :
                        AppendAndSave(kind, context)
        \/ pc' \in {"patch", "grace", "grace_hung", "patch_grace", "patch_hung"}
    BY <1>4 DEF RunVulnerable, RunPatchedCommit, Settle
  <2>3. CASE \E kind \in {"arms", "timeout", "error"}, context \in {"try", "handler"} :
                        AppendAndSave(kind, context)
    <3>1. PICK kind \in {"arms", "timeout", "error"}, context \in {"try", "handler"} :
                        AppendAndSave(kind, context)
      BY <2>3
    <3>2. /\ rows \in Seq(Rows) /\ cve \in CVE \ CvesOf(rows)
          /\ rows' = Append(rows, Row(cve, kind)) /\ pc' = "open"
      BY <2>1, <3>1 DEF SInv, TypeOK, PlaceOK, RowsOK, AppendAndSave
    <3>3. CvesOf(rows') = CvesOf(rows) \cup {cve}
      BY <3>2, AppendedRow
    <3> QED
      BY <2>1, <3>2, <3>3, RecordingImplements DEF Looping, Log!Next
  <2>4. CASE pc' \in {"patch", "grace", "grace_hung", "patch_grace", "patch_hung"}
    BY <2>1, <2>4, QuietImplements DEF Saving, Working
  <2> QED
    BY <2>2, <2>3, <2>4
<1>5. CASE Cancelled
  <2>1. Looping /\ ~Saving /\ pc' = "open" /\ UNCHANGED <<rows, faults>>
    BY <1>5 DEF Cancelled, Looping, Working, Saving
  <2>2. Log!Save
    BY <2>1, LoopingRows DEF Log!Save, Saving, CvesOf
  <2> QED
    BY <2>2 DEF Log!Next
<1>6. CASE OpenResults
  BY <1>6 DEF OpenResults, Log!vars, Saving, CvesOf
<1>7. CASE WriteResults
  <2>1. Log!Save
    BY <1>7 DEF WriteResults, Exit, Log!Save, Saving, DoneOnDisk, CvesOf
  <2> QED
    BY <2>1 DEF Log!Next
<1>8. CASE SaveFails
  BY <1>8, SavingImplements DEF SaveFails, Saving, Log!Next
<1>9. CASE Kill
  <2>1. CASE Saving
    BY <1>9, <2>1, SavingImplements DEF Log!Next
  <2>2. CASE ~Saving
    BY <1>9, <2>2, QuietImplements DEF Kill, Inject, Exit, Saving, Log!Next
  <2> QED
    BY <2>1, <2>2
<1>10. CASE Interrupt
  <2>1. UNCHANGED <<pc, rows, disk>> /\ faults' = faults + 1
    BY <1>10 DEF Interrupt, Inject
  <2>2. Log!Crash
    BY <2>1 DEF Log!Crash, Saving, DoneOnDisk, CvesOf
  <2> QED
    BY <2>2 DEF Log!Next
<1>11. CASE UNCHANGED vars
  BY <1>11 DEF vars, process, Log!vars, Saving, DoneOnDisk, CvesOf
<1> QED
  BY <1>1, <1>2, <1>3, <1>4, <1>5, <1>6, <1>7, <1>8, <1>9, <1>10, <1>11 DEF Next, Progress

\* The wrapper, the process and the file they share implement the results log: a CVE
\* is recorded once and stays so, but for a fault that strikes during a save.
THEOREM SweepImplementsLog == Spec => RecordsResults
<1>1. Init => Log!Init
  BY DEF Init, Log!Init, Saving, DoneOnDisk
<1> QED
  BY <1>1, SweepInvariance, StepImplements, PTL DEF Spec, RecordsResults, Log!Spec

-----------------------------------------------------------------------------
(* What the two findings about the sweep leave true.                        *)

\* Only a fault that strikes between the truncation and the write of results.json
\* takes rows of finished CVEs away.
LostOnlyMidSave ==
    [][OnRecord \subseteq OnRecord' \/ (pc = "write" /\ (SaveFails \/ Kill))]_vars

\* Away from a save the file stays as it is.
LEMMA QuietRecord ==
    ASSUME pc # "write", pc' # "write", disk' = disk
    PROVE  OnRecord \subseteq OnRecord'
  BY DEF OnRecord, DoneOnDisk, CvesOf

LEMMA StepKeepsRecord ==
    ASSUME SInv, Next, ~(pc = "write" /\ (SaveFails \/ Kill))
    PROVE  OnRecord \subseteq OnRecord'
<1>1. CASE Cycle \/ ProcessExited \/ Relaunch
  <2>1. pc = "off" /\ pc' \in {"off", "load"} /\ disk' = disk
    BY <1>1 DEF Cycle, ProcessExited, Relaunch, process, SInv, PlaceOK
  <2> QED
    BY <2>1, QuietRecord
<1>2. CASE Load \/ NextCve \/ CloneAndCheckout
  BY <1>2, QuietRecord DEF Load, NextCve, CloneAndCheckout, Exit, AppendAndSave
<1>3. CASE RunVulnerable \/ RunPatchedCommit \/ Settle
  BY <1>3, QuietRecord DEF RunVulnerable, RunPatchedCommit, Settle, AppendAndSave
<1>4. CASE GiveUpOnHungTask \/ Cancelled
  BY <1>4, QuietRecord DEF GiveUpOnHungTask, Cancelled, Exit
<1>5. CASE OpenResults
  <2>1. pc = "open" /\ pc' = "write" /\ rows' = rows
    BY <1>5 DEF OpenResults
  <2>2. DoneOnDisk \subseteq CvesOf(rows)
    BY <2>1 DEF SInv, PlaceOK
  <2> QED
    BY <2>1, <2>2 DEF OnRecord, CvesOf
<1>6. CASE WriteResults
  <2>1. pc = "write" /\ pc' # "write" /\ disk' = [state |-> "valid", rows |-> rows]
    BY <1>6 DEF WriteResults, Exit
  <2> QED
    BY <2>1 DEF OnRecord, DoneOnDisk, CvesOf
<1>7. CASE SaveFails \/ Kill
  BY <1>7, QuietRecord DEF SaveFails, Kill, Exit, AppendAndSave
<1>8. CASE Interrupt
  <2>1. UNCHANGED <<pc, rows, disk>>
    BY <1>8 DEF Interrupt
  <2> QED
    BY <2>1 DEF OnRecord, DoneOnDisk, CvesOf
<1> QED
  BY <1>1, <1>2, <1>3, <1>4, <1>5, <1>6, <1>7, <1>8 DEF Next, Progress

\* The exact extent of the loss that the run of FinishedWorkKept shows (_save_json).
THEOREM WorkLostOnlyMidSave == Spec => LostOnlyMidSave
<1>1. SInv /\ [Next]_vars =>
          [OnRecord \subseteq OnRecord' \/ (pc = "write" /\ (SaveFails \/ Kill))]_vars
  BY StepKeepsRecord
<1> QED
  BY <1>1, SweepInvariance, PTL DEF Spec, LostOnlyMidSave

\* ... so that hangs, time-outs, resumes, relaunches and interrupts, which are what the
\* resume was written for, lose no finished CVE (run_evaluation.py:579).
THEOREM WorkKeptWithoutKills ==
    ASSUME Faults \subseteq {"sigint"}
    PROVE  Spec => FinishedWorkKept
<1>1. ~SaveFails /\ ~Kill
  BY DEF SaveFails, Kill, Inject
<1>2. SInv /\ [Next]_vars => [OnRecord \subseteq OnRecord']_vars
  BY <1>1, StepKeepsRecord
<1> QED
  BY <1>2, SweepInvariance, PTL DEF Spec, FinishedWorkKept

\* A CVE that may hang has no row, and everything before it that must have one has.
Hung == \E h \in CVE :
    /\ "hangs" \in Endings[h] /\ h \notin DoneOnDisk
    /\ {c \in Must : c < h} \subseteq DoneOnDisk

\* The CVEs are taken up in their order, so when a task that does not settle ends the
\* process, whatever comes before its CVE has been recorded.
HInv ==
    /\ Working => \A d \in todo : cve < d
    /\ pc \in {"grace_hung", "patch_hung"} => "hangs" \in Endings[cve]
    /\ wrapper = "running" /\ pc = "off" /\ rc = 124 => Hung
    /\ wrapper = "check" /\ attempt # 0 => Hung
    /\ wrapper = "gaveup" /\ MaxResumes # 0 => Hung

LEMMA SameHung == ASSUME disk' = disk, Hung PROVE Hung'
  BY DEF Hung, DoneOnDisk, CvesOf, Must

\* A step of the process that neither ends it nor takes up a CVE.
LEMMA RunningKeepsHung ==
    ASSUME SInv, HInv, pc # "off", pc' # "off", UNCHANGED <<wrapper, todo, cve>>,
           Working' => Working,
           pc' \in {"grace_hung", "patch_hung"} => "hangs" \in Endings[cve]
    PROVE  HInv'
  BY DEF SInv, PlaceOK, HInv, Working

\* The process ends in another way than with exit code 124.
LEMMA EndKeepsHung ==
    ASSUME SInv, pc # "off", pc' = "off", rc' # 124, UNCHANGED wrapper
    PROVE  HInv'
  BY DEF SInv, PlaceOK, HInv, Working

LEMMA WrapperKeepsHung ==
    ASSUME SInv, HInv, Cycle \/ ProcessExited \/ Relaunch PROVE HInv'
<1>1. pc = "off" /\ disk' = disk /\ pc' \in {"off", "load"}
  BY DEF Cycle, ProcessExited, Relaunch, process, SInv, PlaceOK
<1>2. ~Working' /\ pc' \notin {"grace_hung", "patch_hung"}
  BY <1>1 DEF Working
<1>3. CASE Cycle
  <2>1. wrapper = "check" /\ attempt' = attempt /\ wrapper' # "check"
    BY <1>3 DEF Cycle
  <2>2. wrapper' = "running" => pc' = "load"
    BY <1>3 DEF Cycle
  <2>3. wrapper' = "gaveup" => attempt >= MaxResumes
    BY <1>3 DEF Cycle, OutOfResumes
  <2>4. wrapper' = "gaveup" /\ MaxResumes # 0 => Hung
    BY <2>1, <2>3, SweepAssumption DEF HInv, SInv, TypeOK
  <2> QED
    BY <1>1, <1>2, <2>1, <2>2, <2>4, SameHung DEF HInv
<1>4. CASE ProcessExited
  <2>1. wrapper = "running" /\ wrapper' \in {"done", "check", "aborted"}
    BY <1>4 DEF ProcessExited
  <2>2. wrapper' = "check" => rc = 124
    BY <1>4 DEF ProcessExited
  <2> QED
    BY <1>1, <1>2, <2>1, <2>2, SameHung DEF HInv
<1>5. CASE Relaunch
  BY <1>2, <1>5 DEF Relaunch, HInv
<1> QED
  BY <1>3, <1>4, <1>5

LEMMA NextCveKeepsHung == ASSUME SInv, HInv, NextCve PROVE HInv'
<1>1. pc = "next" /\ UNCHANGED <<wrapper, disk>> /\ wrapper = "running"
  BY DEF NextCve, SInv, PlaceOK
<1>2. CASE Exit(IF sigint = "pending" THEN 130 ELSE 0)
  BY <1>1, <1>2, EndKeepsHung DEF Exit
<1>3. ASSUME NEW c \in todo, \A d \in todo : c <= d, cve' = c, todo' = todo \ {c},
             pc' \in {"open", "next", "clone"}
      PROVE  HInv'
  <2>1. \A d \in todo' : cve' < d
    BY <1>3, SweepAssumption DEF SInv, TypeOK
  <2> QED
    BY <1>1, <1>3, <2>1 DEF HInv
<1> QED
  BY <1>1, <1>2, <1>3 DEF NextCve, AppendAndSave

LEMMA GiveUpKeepsHung == ASSUME SInv, HInv, GiveUpOnHungTask PROVE HInv'
<1>1. /\ Working /\ "hangs" \in Endings[cve] /\ pc' = "off" /\ disk' = disk
      /\ wrapper' = "running"
  BY DEF GiveUpOnHungTask, Exit, Working, HInv, SInv, PlaceOK
<1>2. cve \in CVE /\ CvesOf(rows) = DoneOnDisk /\ cve \notin DoneOnDisk
  BY <1>1, LoopingRows DEF Looping, SInv, PlaceOK, RowsOK
<1>3. \A c \in Must : c < cve => c \in DoneOnDisk
  <2>1. \A d \in todo \cup {cve} : ~(d < cve)
    BY <1>1, <1>2, SweepAssumption DEF HInv, SInv, TypeOK
  <2>2. Must \subseteq todo \cup DoneOnDisk \cup {cve}
    BY <1>1, <1>2 DEF SInv, CoverOK
  <2> QED
    BY <2>1, <2>2
<1>4. Hung'
  BY <1>1, <1>2, <1>3, SameHung DEF Hung
<1> QED
  BY <1>1, <1>4 DEF HInv, Working

LEMMA HungInvariant == Spec => []HInv
<1>1. Init => HInv
  BY DEF Init, HInv, Working
<1>2. ASSUME SInv, HInv, [Next]_vars PROVE HInv'
  <2>1. CASE Cycle \/ ProcessExited \/ Relaunch
    BY <1>2, <2>1, WrapperKeepsHung
  <2>2. CASE Load \/ CloneAndCheckout
    BY <1>2, <2>2, RunningKeepsHung DEF Load, CloneAndCheckout, Working
  <2>3. CASE NextCve
    BY <1>2, <2>3, NextCveKeepsHung
  <2>4. CASE RunVulnerable
    BY <1>2, <2>4, RunningKeepsHung DEF RunVulnerable, AppendAndSave, Working
  <2>5. CASE RunPatchedCommit
    BY <1>2, <2>5, RunningKeepsHung DEF RunPatchedCommit, AppendAndSave, Working
  <2>6. CASE Settle \/ Cancelled
    BY <1>2, <2>6, RunningKeepsHung DEF Settle, Cancelled, AppendAndSave, Working
  <2>7. CASE GiveUpOnHungTask
    BY <1>2, <2>7, GiveUpKeepsHung
  <2>8. CASE OpenResults
    BY <1>2, <2>8, RunningKeepsHung DEF OpenResults, Working
  <2>9. CASE WriteResults \/ SaveFails \/ Kill
    <3>1. CASE pc' = "off"
      BY <1>2, <2>9, <3>1, EndKeepsHung DEF WriteResults, SaveFails, Kill, Exit, AppendAndSave
    <3>2. CASE pc' # "off"
      BY <1>2, <2>9, <3>2, RunningKeepsHung
         DEF WriteResults, SaveFails, Kill, Exit, AppendAndSave, Working
    <3> QED
      BY <3>1, <3>2
  <2>10. CASE Interrupt
    BY <1>2, <2>10, RunningKeepsHung DEF Interrupt, Working, HInv
  <2>11. CASE UNCHANGED vars
    BY <1>2, <2>11, SameHung DEF vars, process, HInv, Working
  <2> QED
    BY <1>2, <2>1, <2>2, <2>3, <2>4, <2>5, <2>6, <2>7, <2>8, <2>9, <2>10, <2>11
       DEF Next, Progress
<1> QED
  BY <1>1, <1>2, SweepInvariance, PTL DEF Spec

\* A wrapper that may resume at all gives up only behind a CVE that hangs: everything
\* before it has its row (run_joern_validation_full.sh).
GivesUpBehindAHang == wrapper = "gaveup" /\ MaxResumes # 0 => Hung

THEOREM EarlierCvesRecorded == Spec => []GivesUpBehindAHang
<1>1. HInv => GivesUpBehindAHang
  BY DEF HInv, GivesUpBehindAHang
<1> QED
  BY <1>1, HungInvariant, PTL

\* The claim that the run of OthersRecorded refutes holds of a list of CVEs whose hanging
\* ones come last: it is the retry from the front that starves the others.
THEOREM OthersRecordedIfHangsLast ==
    ASSUME MaxResumes # 0,
           \A h, c \in CVE : "hangs" \in Endings[h] /\ "hangs" \notin Endings[c] => c < h
    PROVE  Spec => []OthersRecorded
<1>1. HInv => OthersRecorded
  BY DEF HInv, Hung, Must, OthersRecorded
<1> QED
  BY <1>1, HungInvariant, PTL
=============================================================================
