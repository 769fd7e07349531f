------------------------------ MODULE MCSweep ------------------------------
(* Small instances of Sweep for TLC. *)
EXTENDS Sweep

\* The third CVE may do anything, the others are well-behaved or left out.
MCEndings == [c \in CVE |-> CASE c = 1 -> {"result", "slow"}
                              [] c = 2 -> {"result", "raises"}
                              [] OTHER -> Ending]

\* The first CVE hangs every time it is run; the others return.
FirstHangs == [c \in CVE |-> IF c = 1 THEN {"hangs"} ELSE {"result"}]

AllReturn == [c \in CVE |-> {"result"}]
=============================================================================
