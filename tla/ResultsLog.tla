----------------------------- MODULE ResultsLog -----------------------------
(***************************************************************************)
(* What a resumable sweep promises about its results file: CVEs are        *)
(* recorded one at a time and stay recorded.  The one way to lose some is  *)
(* a fault that strikes while the results are being saved.                 *)
(***************************************************************************)
EXTENDS Naturals

CONSTANT CVE

VARIABLES
    recorded,      \* the CVEs that have a row
    saving,        \* whether a save is in progress
    crashes        \* faults so far

vars == <<recorded, saving, crashes>>

Init == recorded = {} /\ saving = FALSE /\ crashes = 0

\* A CVE is finished and the save that records it begins.
Record(c) ==
    /\ c \notin recorded
    /\ recorded' = recorded \cup {c}
    /\ saving' = TRUE
    /\ UNCHANGED crashes

\* A save ends, or one begins that has nothing new to record.
Save == saving' = ~saving /\ UNCHANGED <<recorded, crashes>>

Crash ==
    /\ crashes' = crashes + 1
    /\ saving' \in BOOLEAN
    /\ recorded' \subseteq recorded
    /\ ~saving => recorded' = recorded

Next == (\E c \in CVE : Record(c)) \/ Save \/ Crash

Spec == Init /\ [][Next]_vars
=============================================================================
