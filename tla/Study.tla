------------------------------- MODULE Study -------------------------------
(***************************************************************************)
(* One run of the study on one repository (Pipeline.run of                 *)
(* cwe78_study/pipeline.py): the Semgrep arm and then the Joern arm, each  *)
(* of them for k = 0 .. max_iterations.  An iteration scans with the rules *)
(* or catalogs it has, has the LLM judge every finding, lets the LLM       *)
(* change the rules or catalogs for the next one, and reports.             *)
(*                                                                         *)
(* Rules and Catalog say what a scan finds and what a reply may change,    *)
(* Dedup how the records of four queries become findings, Triage how a     *)
(* finding is judged and scored.  The connection to Joern is the subject   *)
(* of JoernSession; here it succeeds or fails.                             *)
(***************************************************************************)
EXTENDS Dedup, Catalog, Rules, Triage

CONSTANTS
    Configs,        \* configurations: [arms, iterations, triage, passes], and whether
                    \* the harness gives the run a budget: per_cve_timeout > 0
    NoAgent,
    TriageReplies,  \* verdicts of the LLM: [verdict, cite]
    HelperReplies,  \* its classifications of a neighbourhood:
                    \* [sources, sinks, sanitizers : SUBSET Name, cited : [Name -> tails]]
    RuleReplies,    \* its proposals for the rules: [action, patch, target]
    MaxFaults       \* bound: calls that fail during the run

Verdict == {"true_positive", "false_positive", "uncertain"}
RecoveryKind == Kind \ {"taint"}

ASSUME StudyAssumption ==
    /\ \A c \in Configs :
        /\ c.arms \subseteq {"semgrep", "joern"} /\ c.arms # {}
        /\ c.iterations \in Nat /\ c.triage \in BOOLEAN /\ c.budget \in BOOLEAN
        /\ c.passes \subseteq RecoveryKind
    /\ TriageReplies \subseteq [verdict : Verdict, cite : Source \cup {NoSource}]
    /\ HelperReplies \subseteq [sources : SUBSET Name, sinks : SUBSET Name,
                                sanitizers : SUBSET Name, cited : [Name -> SUBSET Short]]
    /\ RuleReplies \subseteq [action : {"keep", "refine", "add_rule"},
                              patch : Rule \cup {NoRule}, target : {RuleId[r] : r \in Rule} \cup {NoId}]
    /\ NoAgent \notin [sources : SUBSET Name, sinks : SUBSET Name, sanitizers : SUBSET Name]
    /\ \A new \in {Seed} \cup HelperReplies :
        IsFiniteSet(new.sources) /\ IsFiniteSet(new.sinks) /\ IsFiniteSet(new.sanitizers)
    /\ MaxFaults \in Nat

VARIABLES
    cfg,            \* the PipelineConfig of this run, and its budget
    pc,             \* where the run is
    arm,            \* the arm in hand
    k,              \* its iteration
    rules,          \* SemgrepArm._rules_yaml
    agent,          \* the catalogs of the JoernArm, created by its first message
    pre,            \* rules_yaml_pre and catalog_pre
    union,          \* raw_union
    failed,         \* the queries of this iteration that failed
    findings,       \* the findings of this iteration
    triaged,        \* triage_results
    cursor,         \* recovery pass, or finding, that comes next
    usage,          \* LLMClient.usage, in calls
    mark,           \* tokens_before_triage
    spent,          \* llm_tokens_triage, llm_tokens_refinement
    results,        \* the iteration results of the run
    faults

scanning == <<union, failed, findings, cursor>>
accounts == <<usage, mark, spent>>
vars == <<dedupVars, cfg, pc, arm, k, rules, agent, pre, scanning, triaged, accounts,
          results, faults>>

EmptyCatalog == [sources |-> {}, sinks |-> {}, sanitizers |-> {}]
NoSnapshot == [rules |-> <<>>, catalog |-> EmptyCatalog]

Fault == faults < MaxFaults /\ faults' = faults + 1

Init ==
    /\ cfg \in Configs
    /\ arm = IF "semgrep" \in cfg.arms THEN "semgrep" ELSE "joern"
    /\ pc = IF arm = "semgrep" THEN "scan" ELSE "connect"
    /\ k = 0 /\ rules = SeedRules /\ agent = NoAgent /\ pre = NoSnapshot
    /\ union = <<>> /\ failed = {} /\ findings = <<>> /\ cursor = 1
    /\ triaged = <<>>
    /\ usage = 0 /\ mark = 0 /\ spent = [triage |-> 0, refinement |-> 0]
    /\ results = <<>> /\ faults = 0
    /\ DedupInit

-----------------------------------------------------------------------------
(* Errors. *)

JoernRows == {i \in 1..Len(results) : results[i].arm = "joern"}

ErrorRow == [arm |-> "joern", k |-> 0, error |-> TRUE, changed |-> FALSE,
             sites |-> {}, taint |-> {}, intact |-> FALSE]

\* (mutant) the error is reported whether or not iterations were
ReportErrorAlways == results' = Append(results, ErrorRow)

\* The except clause of the Joern arm: an error is reported only when nothing else
\* was; an arm that fails later is cut short without a word.
ReportError ==
    results' = IF JoernRows = {} THEN Append(results, ErrorRow) ELSE results

\* An exception ends the Joern arm; one of the Semgrep arm ends the run, and what
\* it had reported is lost.
Raise ==
    /\ IF arm = "joern" THEN pc' = "done" /\ ReportError
                        ELSE pc' = "raised" /\ results' = <<>>
    /\ UNCHANGED <<dedupVars, cfg, arm, k, rules, agent, pre, scanning, triaged, accounts>>

\* _connect_joern_with_retry gave up, or did not.
Connect ==
    /\ pc = "connect"
    /\ \/ pc' = "scan" /\ UNCHANGED <<results, faults>>
       \/ Fault /\ pc' = "done" /\ results' = Append(results, ErrorRow)
    /\ UNCHANGED <<dedupVars, cfg, arm, k, rules, agent, pre, scanning, triaged, accounts>>

\* A message to the agent raises.
MessageRaises ==
    /\ arm = "joern" /\ pc \in {"scan", "recover", "refine"}
    /\ pc = "refine" => k < cfg.iterations /\ cursor <= Len(findings)
    /\ pc = "recover" => cursor \in 1..3
    /\ Fault /\ Raise

\* A file that a finding points to is there but is no text.
ContextRaises ==
    /\ (pc = "scan" /\ arm = "semgrep") \/ (pc = "merge" /\ Finished /\ order # <<>>)
    /\ Fault /\ Raise

-----------------------------------------------------------------------------
(* Scans. *)

\* (mutant) the usage of the LLM runs on
UsageRunsOn == usage' = usage /\ mark' = usage /\ spent' = [triage |-> 0, refinement |-> 0]

\* reset_usage
ResetUsage == usage' = 0 /\ mark' = 0 /\ spent' = [triage |-> 0, refinement |-> 0]

SemgrepFinding(site) ==
    [site |-> site, kind |-> "rule", source |-> NoSource, sources |-> <<>>, evidence |-> {}]

\* A scan that fails, times out or prints no JSON finds nothing.
SemgrepScan ==
    /\ pc = "scan" /\ arm = "semgrep"
    /\ ResetUsage /\ pre' = [pre EXCEPT !.rules = rules]
    /\ \/ /\ LET hits == SemgrepHits(rules) IN
             findings' = [i \in 1..Len(hits) |-> Stamp(SemgrepFinding(hits[i]))]
          /\ failed' = {} /\ UNCHANGED faults
       \/ findings' = <<>> /\ failed' = {"semgrep"} /\ Fault
    /\ triaged' = <<>> /\ pc' = "triage"
    /\ UNCHANGED <<dedupVars, cfg, arm, k, rules, agent, union, cursor, results>>

\* _joern_factory runs with the first message.
CurrentAgent == IF agent = NoAgent THEN SeedCatalog ELSE agent

\* The snapshot of an agent that does not exist yet is empty.
CatalogPre == IF agent = NoAgent THEN EmptyCatalog ELSE agent

\* task.joern_scan
JoernScan ==
    /\ pc = "scan" /\ arm = "joern"
    /\ ResetUsage /\ pre' = [pre EXCEPT !.catalog = CatalogPre] /\ agent' = CurrentAgent
    /\ \/ Parse(StrictScan(CurrentAgent)) /\ failed' = {} /\ UNCHANGED faults
       \/ Parse(<<>>) /\ failed' = {"taint"} /\ Fault
    /\ pc' = "strict"
    /\ UNCHANGED <<cfg, arm, k, rules, union, findings, cursor, triaged, results>>

MergeRecord ==
    /\ pc \in {"strict", "merge"} /\ MergeNext
    /\ UNCHANGED <<cfg, pc, arm, k, rules, agent, pre, scanning, triaged, accounts, results, faults>>

\* (mutant) the kind of a strict hit is forgotten
RebuiltAsDefUse(site) == AsRecord(site, "def_use", byKey[site].source)

\* A finding of the strict scan goes back into the union as one record, with the
\* first of its sources.
Rebuilt(site) ==
    LET m == byKey[site] IN
    AsRecord(site, m.kind, IF m.sources # <<>> THEN m.sources[1] ELSE m.source)

RebuildUnion ==
    /\ pc = "strict" /\ Finished
    /\ union' = [i \in 1..Len(order) |-> Rebuilt(order[i])]
    /\ cursor' = 1 /\ pc' = "recover"
    /\ UNCHANGED <<dedupVars, cfg, arm, k, rules, agent, pre, failed, findings, triaged,
                   accounts, results, faults>>

Passes == <<"direct_sink", "relaxed", "def_use">>

\* A pass that is switched off or fails adds nothing.
RecoveryPass ==
    /\ pc = "recover" /\ cursor <= 3
    /\ LET kind == Passes[cursor] IN
        \/ kind \notin cfg.passes /\ UNCHANGED <<union, failed, faults>>
        \/ /\ kind \in cfg.passes /\ union' = union \o RecoveryScan(kind, agent)
           /\ UNCHANGED <<failed, faults>>
        \/ /\ kind \in cfg.passes /\ failed' = failed \cup {kind}
           /\ Fault /\ UNCHANGED union
    /\ cursor' = cursor + 1
    /\ UNCHANGED <<dedupVars, cfg, pc, arm, k, rules, agent, pre, findings, triaged,
                   accounts, results>>

MergeUnion ==
    /\ pc = "recover" /\ cursor = 4
    /\ Parse(union) /\ union' = <<>> /\ pc' = "merge"
    /\ UNCHANGED <<cfg, arm, k, rules, agent, pre, failed, findings, cursor, triaged,
                   accounts, results, faults>>

JoernFinding(site) ==
    [site |-> site, kind |-> byKey[site].kind, source |-> byKey[site].source,
     sources |-> byKey[site].sources, evidence |-> {}]

LoadContext ==
    /\ pc = "merge" /\ Finished
    /\ findings' = [i \in 1..Len(order) |-> Stamp(JoernFinding(order[i]))]
    /\ triaged' = <<>> /\ mark' = usage /\ cursor' = 1 /\ pc' = "triage"
    /\ UNCHANGED <<dedupVars, cfg, arm, k, rules, agent, pre, union, failed, usage, spent,
                   results, faults>>

-----------------------------------------------------------------------------
(* Triage. *)

\* The evidence the arm hands to triage_batch; the Semgrep arm hands over none.
Evidence(f) == IF arm = "joern" THEN StructuralEvidence(f.site, f.source, f.sources) ELSE {}

\* (mutant) triage_disabled is not looked at when the LLM and its agents are created
AgentsAlways == TRUE

\* Pipeline.__init__ creates the LLM client, the triage and the refinement agent, or none.
AgentsExist == cfg.triage

Judging == pc = "triage" /\ AgentsExist /\ Len(triaged) < Len(findings)
Judged(judgement) ==
    /\ triaged' = Append(triaged, judgement)
    /\ UNCHANGED <<dedupVars, cfg, pc, arm, k, rules, agent, pre, scanning, mark, spent, results>>

TriageFinding ==
    LET f == findings[Len(triaged) + 1] IN
    /\ Judging
    /\ \E reply \in TriageReplies : Judged(Brake(reply, TriageText(f, Evidence(f))))
    /\ usage' = usage + 1 /\ UNCHANGED faults

\* The call fails, or its answer holds no JSON: the finding is uncertain.
TriageCallFails ==
    /\ Judging /\ Judged(Uncertain)
    /\ usage' \in {usage, usage + 1} /\ Fault

\* Without an LLM the Semgrep arm calls every finding uncertain; the Joern arm has
\* no agent to ask, and fails.
TriageBaseline ==
    /\ pc = "triage" /\ ~AgentsExist /\ arm = "semgrep" /\ Len(triaged) < Len(findings)
    /\ Judged(Uncertain) /\ UNCHANGED <<usage, faults>>

TriageUnavailable ==
    /\ pc = "triage" /\ ~AgentsExist /\ arm = "joern"
    /\ Raise /\ UNCHANGED faults

TriageDone ==
    /\ pc = "triage" /\ Len(triaged) = Len(findings) /\ (AgentsExist \/ arm = "semgrep")
    /\ spent' = [spent EXCEPT !.triage = usage - mark]
    /\ pc' = "refine"
    /\ UNCHANGED <<dedupVars, cfg, arm, k, rules, agent, pre, scanning, triaged, usage, mark,
                   results, faults>>

-----------------------------------------------------------------------------
(* Refinement. *)

\* A call of the LLM for the refinement, which may or may not be accounted for.
RefinementCall(calls) ==
    /\ usage' = usage + calls
    /\ spent' = [spent EXCEPT !.refinement = spent.refinement + calls]
    /\ pc' = "report"
    /\ UNCHANGED <<dedupVars, cfg, arm, k, pre, scanning, triaged, mark, results>>

MayRefineRules == k < cfg.iterations /\ findings # <<>> /\ AgentsExist

RefineRules ==
    /\ pc = "refine" /\ arm = "semgrep" /\ MayRefineRules
    /\ \E reply \in RuleReplies : rules' = ApplyRefinement(rules, reply)
    /\ RefinementCall(1) /\ UNCHANGED <<agent, faults>>

\* (mutant) a finding without neighbours is asked about again
SameFinding == cursor' = cursor

NextFinding == cursor' = cursor + 1

\* task.joern_call_graph for the next finding: an empty answer leads to the one after.
QueryCallGraph ==
    /\ pc = "refine" /\ arm = "joern" /\ k < cfg.iterations /\ cursor <= Len(findings)
    /\ LET found == Callers[CallName[findings[cursor].site]] # {} IN
        \/ found /\ pc' = "classify" /\ UNCHANGED <<cursor, faults>>
        \/ ~found /\ NextFinding /\ UNCHANGED <<pc, faults>>
        \/ found /\ Fault /\ NextFinding /\ UNCHANGED pc
    /\ UNCHANGED <<dedupVars, cfg, arm, k, rules, agent, pre, union, failed, findings, triaged,
                   accounts, results>>

\* classify_helpers_joern, the gate for sink wrappers and the expansion.
ClassifyHelpers ==
    /\ pc = "classify"
    /\ \E reply \in HelperReplies :
        LET neighbours == Callers[CallName[findings[cursor].site]]
            accepted == {n \in reply.sinks :
                            VerifySinkWrapper(n, neighbours, agent.sinks, reply.cited[n])}
        IN  agent' = ExpandCatalog(agent, [sources |-> reply.sources, sinks |-> accepted,
                                           sanitizers |-> reply.sanitizers])
    /\ RefinementCall(1) /\ UNCHANGED <<rules, faults>>

LlmAsked == pc = "classify" \/ (pc = "refine" /\ arm = "semgrep" /\ MayRefineRules)

\* The call fails or is no JSON: nothing changes.
RefinementCallFails ==
    /\ LlmAsked
    /\ \E calls \in {0, 1} : RefinementCall(calls)
    /\ Fault /\ UNCHANGED <<rules, agent>>

\* The answer of the LLM is JSON, but not an object.
NotAnObject ==
    /\ Judging \/ LlmAsked
    /\ Fault /\ Raise

NothingToRefine ==
    /\ pc = "refine"
    /\ IF arm = "semgrep" THEN ~MayRefineRules
       ELSE k = cfg.iterations \/ cursor > Len(findings)
    /\ pc' = "report"
    /\ UNCHANGED <<dedupVars, cfg, arm, k, rules, agent, pre, scanning, triaged, accounts,
                   results, faults>>

-----------------------------------------------------------------------------
(* Reports. *)

\* (mutant) only the sinks are compared
GrewBySinks == Cardinality(agent["sinks"]) > Cardinality(pre.catalog["sinks"])

\* joern_catalog_grew
Grew == \E list \in DOMAIN agent : Cardinality(agent[list]) > Cardinality(pre.catalog[list])

\* rules_yaml_changed
RulesChanged == rules # pre.rules

SitesOf(kinds) == {findings[i].site : i \in {j \in 1..Len(findings) : findings[j].kind \in kinds}}

\* The IterationResult, as far as later iterations are compared with it.
Result == [arm |-> arm, k |-> k, error |-> FALSE,
           changed |-> IF arm = "joern" THEN Grew ELSE RulesChanged,
           sites |-> SitesOf(Kind \cup {"rule"}), taint |-> SitesOf({"taint"}),
           intact |-> failed = {}]

\* (mutant) one iteration too many
LastIterationLate == k > cfg.iterations

LastIteration == k = cfg.iterations

Report ==
    /\ pc = "report"
    /\ results' = Append(results, Result)
    /\ \/ /\ ~LastIteration
          /\ k' = k + 1 /\ pc' = "scan" /\ UNCHANGED <<arm, pre>>
       \/ /\ LastIteration /\ arm = "semgrep" /\ "joern" \in cfg.arms
          /\ arm' = "joern" /\ k' = 0 /\ pc' = "connect" /\ pre' = NoSnapshot
       \/ /\ LastIteration /\ ~(arm = "semgrep" /\ "joern" \in cfg.arms)
          /\ pc' = "done" /\ UNCHANGED <<arm, k, pre>>
    /\ findings' = <<>> /\ triaged' = <<>> /\ cursor' = 1
    /\ UNCHANGED <<dedupVars, cfg, rules, agent, union, failed, accounts, faults>>

-----------------------------------------------------------------------------
(* Queries that hang. *)

\* The Joern server does not answer, and no query of client.py has a time limit: not
\* the connection, a scan or the call graph, nor the clean-up that ends the arm, after
\* its last iteration or after an exception.
Hang ==
    /\ arm = "joern" /\ pc \notin {"strict", "done", "raised", "hung"}
    /\ pc = "report" => LastIteration
    /\ pc' = "hung"
    /\ UNCHANGED <<dedupVars, cfg, arm, k, rules, agent, pre, scanning, triaged, accounts,
                   results, faults>>

\* _run_with_timeout: a run that outlasts its budget is cancelled where it waits, for
\* Joern or for the LLM, and what it had is lost.
BudgetSpent ==
    /\ cfg.budget /\ (pc = "hung" \/ Judging \/ LlmAsked)
    /\ pc' = "raised" /\ results' = <<>>
    /\ UNCHANGED <<dedupVars, cfg, arm, k, rules, agent, pre, scanning, triaged, accounts, faults>>

Next ==
    \/ Connect \/ MessageRaises \/ ContextRaises
    \/ SemgrepScan \/ JoernScan \/ MergeRecord \/ RebuildUnion \/ RecoveryPass
    \/ MergeUnion \/ LoadContext
    \/ TriageFinding \/ TriageCallFails \/ TriageBaseline \/ TriageUnavailable \/ TriageDone
    \/ RefineRules \/ QueryCallGraph \/ ClassifyHelpers \/ RefinementCallFails
    \/ NotAnObject \/ NothingToRefine
    \/ Report
    \/ Hang \/ BudgetSpent

Spec == Init /\ [][Next]_vars

\* The event loop runs on.  A call of Semgrep, git or the LLM answers or fails, each has
\* a time limit.  One of Joern may answer or hang; the one that hangs is ended by the
\* budget, if there is one.  No step is owed that would hang.
FairSpec == Spec /\ WF_vars(Next /\ pc' # "hung")
-----------------------------------------------------------------------------
(* Properties. *)

Catalogs == [sources : SUBSET Name, sinks : SUBSET Name, sanitizers : SUBSET Name]
Findings == [site : Site, kind : Kind \cup {"rule"}, source : Source \cup {NoSource},
             sources : Seq(Source), evidence : SUBSET Source]
Judgements == [verdict : Verdict, cite : Source \cup {NoSource}, downgraded : BOOLEAN]
Results == [arm : {"semgrep", "joern"}, k : Nat, error : BOOLEAN, changed : BOOLEAN,
            sites : SUBSET Site, taint : SUBSET Site, intact : BOOLEAN]

\* Every variable has its type, and no iteration exceeds max_iterations.
TypeOK ==
    /\ cfg \in Configs
    /\ pc \in {"connect", "scan", "strict", "recover", "merge", "triage", "refine", "classify",
               "report", "hung", "done", "raised"}
    /\ arm \in {"semgrep", "joern"} /\ k \in 0..cfg.iterations
    /\ rules \in Seq(Rule) /\ agent \in Catalogs \cup {NoAgent}
    /\ union \in Seq(Record) /\ raw \in Seq(Record) /\ next \in 1..(Len(raw) + 1)
    /\ failed \subseteq Kind \cup {"semgrep"}
    /\ findings \in Seq(Findings) /\ triaged \in Seq(Judgements)
    /\ cursor \in Nat \ {0}
    /\ usage \in Nat /\ mark \in 0..usage /\ spent \in [{"triage", "refinement"} -> Nat]
    /\ results \in Seq(Results)
    /\ faults \in 0..MaxFaults

\* What the Joern arm hands to the triage is, for each sink call that some query of
\* this iteration reported, one finding: the merge of the strict findings with the
\* records of three other queries loses no call, and a call that the strict query
\* reached is presented as a taint flow from one of the sources it reached it from.
CandidatesKept ==
    arm = "joern" /\ pc = "triage" =>
        LET ran == ({"taint"} \cup cfg.passes) \ failed
            Found(kind) == IF kind = "taint" THEN StrictScan(agent) ELSE RecoveryScan(kind, agent)
            records == UNION {{Found(kind)[i] : i \in 1..Len(Found(kind))} : kind \in ran}
        IN  /\ SitesOf(Kind) = {r.site : r \in records}
            /\ \A i, j \in 1..Len(findings) : findings[i].site = findings[j].site => i = j
            /\ \A r \in records : r.kind = "taint" =>
                \E i \in 1..Len(findings) :
                    /\ findings[i].site = r.site /\ findings[i].kind = "taint"
                    /\ \E s \in records : s.kind = "taint" /\ s.site = r.site
                                            /\ s.source = findings[i].source

\* The brake of the scorer agrees with the brake of the agent, although the one sees
\* the finding long after the other: a true positive the agent let through is never
\* counted as citing a source that is not there.
BrakesAgree ==
    \A i \in 1..Len(triaged) : Label(findings[i], triaged[i]) # "fp_by_hallucinated_source"

\* The LLM committed to finding i: it called it a true positive, and cited an expression
\* from the text it was shown.
Committed(i) ==
    /\ triaged[i].verdict = "true_positive"
    /\ triaged[i].cite \in TriageText(findings[i], Evidence(findings[i]))

\* The score counts findings as true and false positives, and lines as missed.  Whatever
\* lines the matching picks, these fit together: the positives are the verdicts the LLM
\* committed to, near a vulnerable line or not; a line is missed if nothing was committed
\* near it, one is found as soon as something was, and true positives and missed lines
\* make up all lines exactly when no two findings were credited to one line.  Every
\* finding is counted once.
ScoreAddsUp ==
    \A credit \in Credits(findings, triaged) :
        LET score == Score(findings, triaged, credit)
            committed == {i \in 1..Len(triaged) : Committed(i)}
            detected == {i \in committed : MatchedLines(findings[i]) # {}}
            lines == Cardinality(VulnerableLines)
            far == {l \in VulnerableLines : \A i \in detected : l \notin MatchedLines(findings[i])}
        IN  /\ score.tp = Cardinality(detected) /\ score.fp = Cardinality(committed \ detected)
            /\ score.fn >= Cardinality(far) /\ (score.fn = lines <=> detected = {})
            /\ score.tp + score.fn >= lines
            /\ score.tp + score.fn = lines <=>
                    \A i, j \in detected : credit[i] = credit[j] => i = j
            /\ score.tp + score.fp + score.byLlm + score.uncertain
                    + Count(Labels(findings, triaged), {"tn"}) = Len(triaged)

\* The name calls, or the LLM may cite for it, what one of the sinks ts is called.
Wraps(n, ts) ==
    \/ (Callees[n] \cup BodyCalls[n]) \cap Tails(ts) # {}
    \/ \E reply \in HelperReplies : reply.cited[n] \cap Tails(ts) # {}

\* Every sink of the catalog goes back to the configured ones: a part of the catalog
\* that has those and is not all of it has a wrapper among the rest.  Helpers cannot
\* vouch for one another; only a call the LLM cites is taken at its word, as in the code.
SinksGrounded ==
    agent # NoAgent =>
        \A ts \in SUBSET agent.sinks : SeedCatalog.sinks \subseteq ts /\ ts # agent.sinks =>
            \E n \in Name : Cleaned[n] \in agent.sinks \ ts /\ Wraps(n, ts)

\* Only names the queries can be built from enter the catalogs.
CatalogClean ==
    agent # NoAgent => \A list \in DOMAIN agent : \A n \in agent[list] : Cleaned[n] = n

\* The iterations of an arm, one after the other and each under a key of its own:
\* the harness stores them in a dictionary, where a second one would replace the first.
\* An error is reported in place of iterations, never beside them.
OneResultPerKey ==
    /\ \A i, j \in 1..Len(results) :
        results[i].arm = results[j].arm /\ results[i].k = results[j].k => i = j
    /\ \A i \in 1..Len(results) :
        /\ results[i].error => JoernRows = {i}
        /\ results[i].k > 0 => results[i - 1].arm = results[i].arm
                                    /\ results[i - 1].k = results[i].k - 1

Consecutive(i) ==
    /\ i + 1 \in 1..Len(results)
    /\ results[i].arm = results[i + 1].arm
    /\ results[i].intact /\ results[i + 1].intact

\* When an iteration reports that its refinement changed nothing, the next one finds
\* the same calls, unless a query failed.
NoChangeNoNews ==
    \A i \in 1..Len(results) :
        Consecutive(i) /\ ~results[i].changed => results[i].sites = results[i + 1].sites

\* Refinement only adds to the Joern arm: a call the strict query reached is reached
\* in every later iteration, whatever was classified in between.
HitsPersist ==
    \A i \in 1..Len(results) :
        Consecutive(i) /\ results[i].arm = "joern" => results[i].taint \subseteq results[i + 1].taint

\* The tokens of an iteration are those of its triage and of its refinement, none
\* counted for two iterations or two arms, although all use one client.
TokensAttributed ==
    pc = "report" => usage = spent.triage + spent.refinement

\* Without an LLM nothing is spent and no verdict is committed to.
BaselineIsFree ==
    ~cfg.triage => usage = 0 /\ \A i \in 1..Len(triaged) : triaged[i] = Uncertain

\* Whatever fails or hangs, the run ends, with the results of its arms or without any;
\* only a query that hangs in a run without a budget keeps it for ever.
RunEnds == <>(pc \in {"done", "raised"} \/ (pc = "hung" /\ ~cfg.budget))
=============================================================================
