------------------------------- MODULE Triage -------------------------------
(***************************************************************************)
(* The evidence the LLM is given for a finding (pipeline.py), the brake    *)
(* that compares its verdict with it (triage_agent.py), and the label the  *)
(* scorer gives the finding afterwards (scripts/run_evaluation.py).  Both  *)
(* ask whether the source expression the LLM cites is in the text it had.  *)
(*                                                                         *)
(* A text is the set of source expressions that occur in it; a finding is  *)
(* [site, kind, source, sources, evidence] and a verdict of the triage     *)
(* [verdict, cite, downgraded].                                            *)
(***************************************************************************)
EXTENDS SinkCalls, Selection, Integers, FiniteSets

CONSTANTS
    CodeSources,    \* [Site -> sources in the code of the call itself]
    ContextSources, \* [Site -> sources within context_lines around it]
    Unreadable,     \* sites whose file cannot be read
    SelfFlow,       \* <<source, site>>: the source is the sink itself
    AltSourcesCap,  \* _STRUCTURAL_EVIDENCE_ALT_SOURCES_CAP
    File, Line,     \* [Site -> file], [Site -> line]
    SamePath,       \* <<file, vulnerable file>>: same base name, or one ends in the other
    VulnerableFile, VulnerableLines,
    LineTolerance

ASSUME TriageAssumption ==
    /\ CodeSources \in [Site -> SUBSET Source] /\ ContextSources \in [Site -> SUBSET Source]
    /\ Unreadable \subseteq Site
    /\ SelfFlow \subseteq Source \X Site
    /\ AltSourcesCap \in Nat /\ LineTolerance \in Nat
    /\ Line \in [Site -> Int]
    /\ VulnerableLines \subseteq Int /\ IsFiniteSet(VulnerableLines)

-----------------------------------------------------------------------------
(* Evidence. *)

\* get_findings_with_context: a file that cannot be read gives no context.
Snippet(site) ==
    CodeSources[site] \cup (IF site \in Unreadable THEN {} ELSE ContextSources[site])

\* _is_self_flow_source
IsSelfFlow(src, site) == src = NoSource \/ <<src, site>> \in SelfFlow

\* _structural_evidence_for_finding: a source that is the sink itself gives way to
\* the first alternative that is not, and is not shown; then at most AltSourcesCap
\* other sources follow.
StructuralEvidence(site, source, sources) ==
    LET Real(src) == ~IsSelfFlow(src, site)
        real == Kept(sources, {i \in 1..Len(sources) : Real(sources[i])})
        promoted == IF IsSelfFlow(source, site) /\ real # <<>> THEN {real[1]} ELSE {}
        shown == IF promoted # {} THEN promoted ELSE {source} \ {NoSource}
        Alternative(src) == src \notin shown \cup {source}
        others == Kept(sources, {i \in 1..Len(sources) : Alternative(sources[i])})
    IN  shown \cup {others[i] : i \in {j \in 1..Len(others) : j <= AltSourcesCap}}

\* (mutant) the evidence is handed to the LLM and not kept
Unstamped(f) == f

\* _build_structural_evidence_map keeps the evidence on the finding.
Stamp(f) == [f EXCEPT !.evidence = StructuralEvidence(f.site, f.source, f.sources)]

-----------------------------------------------------------------------------
(* Verdicts. *)

\* What a finding was judged to be.
Judgement(verdict, cite, downgraded) ==
    [verdict |-> verdict, cite |-> cite, downgraded |-> downgraded]
Uncertain == Judgement("uncertain", NoSource, FALSE)

\* _snippet_text: what the agent compares a citation with; only the Joern arm
\* passes the evidence on.
TriageText(f, evidence) == Snippet(f.site) \cup evidence

\* TriageAgent.triage: a true positive has to cite what is in the text.
Brake(reply, text) ==
    IF reply.verdict = "true_positive" /\ reply.cite \notin text
    THEN Judgement("uncertain", reply.cite, TRUE)
    ELSE Judgement(reply.verdict, reply.cite, FALSE)

-----------------------------------------------------------------------------
(* Labels. *)

\* _snippet_for: what the scorer compares the citation with.
ScorerText(f) == Snippet(f.site) \cup f.evidence

\* _gt_line_match: the lines the finding may be matched with; the code takes the
\* one it meets first, in no specified order.
MatchedLines(f) ==
    IF <<File[f.site], VulnerableFile>> \in SamePath
    THEN {l \in VulnerableLines : Line[f.site] - l \in -LineTolerance..LineTolerance}
    ELSE {}

\* (mutant) an uncertain finding near a vulnerable line counts
GenerousLabel(f, t) ==
    IF t.verdict # "false_positive" /\ MatchedLines(f) # {} THEN "tp" ELSE "tn"

\* label_findings
Label(f, t) ==
    LET onLine == MatchedLines(f) # {}
        sourceInSnippet == t.cite = NoSource \/ t.cite \in ScorerText(f)
    IN  CASE t.verdict = "false_positive" -> IF onLine THEN "fn_by_llm" ELSE "tn"
          [] t.verdict = "true_positive" ->
                IF ~sourceInSnippet THEN "fp_by_hallucinated_source"
                ELSE IF onLine THEN "tp" ELSE "fp_by_llm_overclaim"
          [] OTHER -> IF onLine THEN "uncertain_on_gt" ELSE "uncertain_off_gt"

Labels(findings, triaged) == [i \in 1..Len(triaged) |-> Label(findings[i], triaged[i])]
Count(labels, wanted) == Cardinality({i \in 1..Len(labels) : labels[i] \in wanted})

\* The ways label_findings may credit lines to its true positives.
Credits(findings, triaged) ==
    LET tps == {i \in 1..Len(triaged) : Label(findings[i], triaged[i]) = "tp"}
    IN  {c \in [tps -> VulnerableLines] : \A i \in tps : c[i] \in MatchedLines(findings[i])}

\* The score of an iteration under the credit c.
Score(findings, triaged, c) ==
    LET labels == Labels(findings, triaged) IN
    [tp |-> Count(labels, {"tp"}),
     fp |-> Count(labels, {"fp_by_hallucinated_source", "fp_by_llm_overclaim"}),
     fn |-> Cardinality(VulnerableLines \ {c[i] : i \in DOMAIN c}),
     byLlm |-> Count(labels, {"fn_by_llm"}),
     uncertain |-> Count(labels, {"uncertain_on_gt", "uncertain_off_gt"})]
=============================================================================
