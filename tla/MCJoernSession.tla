--------------------------- MODULE MCJoernSession ---------------------------
(* Small instances of JoernSession for TLC. *)
EXTENDS JoernSession

CONSTANTS j1, j2, j3, p, q, r

\* Two CVEs of which the first has its patched commit scanned as well.
TwoCves == <<[vuln |-> p, patched |-> q], [vuln |-> r, patched |-> NoProject]>>

OneCve == <<[vuln |-> p, patched |-> NoProject]>>
=============================================================================
