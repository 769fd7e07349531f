----------------------------- MODULE SinkCalls -----------------------------
(* What the modules about findings share: calls, sources and kinds.        *)

CONSTANTS
    Site,           \* keys of sink calls: file, line, API and normalised code
    Source,         \* source expressions
    NoSource        \* the empty sourceCode of a direct sink

ASSUME SinkCallsAssumption == NoSource \notin Source

Kind == {"taint", "relaxed", "def_use", "direct_sink"}
=============================================================================
