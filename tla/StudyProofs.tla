----------------------------- MODULE StudyProofs -----------------------------
(***************************************************************************)
(* What holds of a run of the study for any program under analysis, any    *)
(* replies of the LLM, any number of iterations and of failing calls.      *)
(*                                                                         *)
(* Five invariants are inductive on their own: AgentInv, AccountsInv,      *)
(* BaselineInv, BrakeInv, ResultsInv.  TypeInv joins three of them, the    *)
(* invariant of the merge loop and the types; on it rest QueryInv, which   *)
(* follows the records of the queries from the scan to the findings, and   *)
(* NewsInv, which relates the results so far to the rules and the catalogs *)
(* of the next scan.  Each has a lemma for what the actions that do not    *)
(* concern it have in common.                                              *)
(***************************************************************************)
EXTENDS Study, DedupProofs, SelectionProofs, TLAPS

IsSequence(s) == \E S : s \in Seq(S)

LEMMA AppendedSequence ==
    ASSUME NEW s, IsSequence(s), NEW e
    PROVE  /\ IsSequence(Append(s, e))
           /\ Len(s) \in Nat /\ Len(Append(s, e)) = Len(s) + 1
           /\ \A i \in 1..Len(s) : Append(s, e)[i] = s[i]
           /\ Append(s, e)[Len(s) + 1] = e
<1>1. PICK S : s \in Seq(S)
  BY DEF IsSequence
<1>2. s \in Seq(S \cup {e}) /\ e \in S \cup {e}
  BY <1>1
<1>3. Append(s, e) \in Seq(S \cup {e})
  BY <1>2
<1> QED
  BY <1>2, <1>3 DEF IsSequence

LEMMA EmptySequence == IsSequence(<<>>) /\ Len(<<>>) = 0
<1>1. <<>> \in Seq({})
  OBVIOUS
<1> QED
  BY <1>1 DEF IsSequence

-----------------------------------------------------------------------------
(* The catalogs. *)

Lists == {"sources", "sinks", "sanitizers"}

Clean(catalog) == \A list \in Lists : \A n \in catalog[list] : Cleaned[n] = n

Grounded(catalog) ==
    \A ts \in SUBSET catalog.sinks : SeedCatalog.sinks \subseteq ts /\ ts # catalog.sinks =>
        \E n \in Name : Cleaned[n] \in catalog.sinks \ ts /\ Wraps(n, ts)

Good(catalog) ==
    /\ catalog \in Catalogs
    /\ SeedCatalog.sinks \subseteq catalog.sinks
    /\ Clean(catalog) /\ Grounded(catalog)

\* Sanitised names are names, and clean.
LEMMA SanitizeCleans ==
    ASSUME NEW names \in SUBSET Name
    PROVE  /\ Sanitize(names) \subseteq Name
           /\ \A n \in Sanitize(names) : Cleaned[n] = n
  BY CatalogAssumption DEF Sanitize

LEMMA SeedIsGood == Good(SeedCatalog)
<1>1. /\ Seed.sources \subseteq Name /\ Seed.sinks \subseteq Name /\ Seed.sanitizers \subseteq Name
  BY CatalogAssumption
<1>2. SeedCatalog \in Catalogs /\ Clean(SeedCatalog)
  BY <1>1, SanitizeCleans DEF SeedCatalog, Catalogs, Clean, Lists
<1>3. Grounded(SeedCatalog)
  BY DEF Grounded
<1> QED
  BY <1>2, <1>3 DEF Good

\* More sinks vouch for more names.
LEMMA WrapsMore ==
    ASSUME NEW n, NEW ts, NEW us, ts \subseteq us, Wraps(n, ts)
    PROVE  Wraps(n, us)
  BY DEF Wraps, Tails

\* An expansion with what the gate let through keeps the catalog good.
LEMMA ExpansionIsGood ==
    ASSUME NEW catalog, Good(catalog), NEW new \in Catalogs,
           \A n \in new.sinks : Wraps(n, catalog.sinks)
    PROVE  Good(ExpandCatalog(catalog, new))
<1> DEFINE longer == ExpandCatalog(catalog, new)
<1>1. /\ longer = [sources |-> catalog.sources \cup Sanitize(new.sources),
                   sinks |-> catalog.sinks \cup Sanitize(new.sinks),
                   sanitizers |-> catalog.sanitizers \cup Sanitize(new.sanitizers)]
  <2>1. DOMAIN catalog = {"sources", "sinks", "sanitizers"}
    BY DEF Good, Catalogs
  <2>2. longer = [list \in {"sources", "sinks", "sanitizers"} |->
                     catalog[list] \cup Sanitize(new[list])]
    BY <2>1, Zenon DEF ExpandCatalog
  <2> HIDE DEF longer
  <2>3. longer = [sources |-> longer.sources, sinks |-> longer.sinks, sanitizers |-> longer.sanitizers]
    BY <2>2
  <2>4. /\ longer.sources = catalog.sources \cup Sanitize(new.sources)
        /\ longer.sinks = catalog.sinks \cup Sanitize(new.sinks)
        /\ longer.sanitizers = catalog.sanitizers \cup Sanitize(new.sanitizers)
    BY <2>2
  <2> QED
    BY <2>3, <2>4
<1>2. /\ catalog.sources \subseteq Name /\ catalog.sinks \subseteq Name /\ catalog.sanitizers \subseteq Name
      /\ new.sources \subseteq Name /\ new.sinks \subseteq Name /\ new.sanitizers \subseteq Name
  BY DEF Good, Catalogs
<1> HIDE DEF longer
<1>3. longer \in Catalogs
  BY <1>1, <1>2, SanitizeCleans DEF Catalogs
<1>4. Clean(longer)
  BY <1>1, <1>2, SanitizeCleans DEF Good, Clean, Lists
<1>5. ASSUME NEW ts \in SUBSET longer.sinks, SeedCatalog.sinks \subseteq ts, ts # longer.sinks
      PROVE  \E n \in Name : Cleaned[n] \in longer.sinks \ ts /\ Wraps(n, ts)
  <2>1. CASE catalog.sinks \subseteq ts
    <3>1. PICK n \in new.sinks : Cleaned[n] \in longer.sinks \ ts
      BY <1>1, <1>5, <2>1 DEF Sanitize
    <3>2. Wraps(n, ts)
      BY <2>1, WrapsMore
    <3> QED
      BY <1>2, <3>1, <3>2
  <2>2. CASE ~(catalog.sinks \subseteq ts)
    <3> DEFINE us == ts \cap catalog.sinks
    <3>1. us \in SUBSET catalog.sinks /\ us # catalog.sinks /\ SeedCatalog.sinks \subseteq us
      BY <1>5, <2>2 DEF Good
    <3>2. PICK n \in Name : Cleaned[n] \in catalog.sinks \ us /\ Wraps(n, us)
      BY <3>1 DEF Good, Grounded
    <3>3. Wraps(n, ts)
      BY <3>2, WrapsMore
    <3>4. Cleaned[n] \in longer.sinks \ ts
      BY <1>1, <3>2
    <3> QED
      BY <3>3, <3>4
  <2> QED
    BY <2>1, <2>2
<1>6. SeedCatalog.sinks \subseteq longer.sinks
  BY <1>1 DEF Good
<1> QED
  BY <1>3, <1>4, <1>5, <1>6 DEF Good, Grounded, longer

\* The Joern arm has its catalogs from its first scan on.
HasAgent == arm = "joern" /\ pc \in {"strict", "recover", "merge", "triage", "refine", "classify", "report"}

AgentInv ==
    /\ (agent # NoAgent \/ HasAgent) => Good(agent)
    /\ pc = "classify" => arm = "joern"

\* What a reply of the LLM adds: the gate lets through what wraps a sink.
LEMMA ClassifyKeepsAgentInv ==
    ASSUME AgentInv, ClassifyHelpers
    PROVE  AgentInv'
<1>1. PICK reply \in HelperReplies :
        agent' = ExpandCatalog(agent, [
            sources |-> reply.sources,
            sinks |-> {n \in reply.sinks :
                VerifySinkWrapper(n, Callers[CallName[findings[cursor].site]], agent.sinks, reply.cited[n])},
            sanitizers |-> reply.sanitizers])
  BY DEF ClassifyHelpers
<1> DEFINE new == [
            sources |-> reply.sources,
            sinks |-> {n \in reply.sinks :
                VerifySinkWrapper(n, Callers[CallName[findings[cursor].site]], agent.sinks, reply.cited[n])},
            sanitizers |-> reply.sanitizers]
<1>2. reply \in [sources : SUBSET Name, sinks : SUBSET Name, sanitizers : SUBSET Name,
                 cited : [Name -> SUBSET Short]]
  BY StudyAssumption
<1>3. new \in Catalogs
  BY <1>2 DEF Catalogs
<1>4. \A n \in new.sinks : Wraps(n, agent.sinks)
  BY DEF VerifySinkWrapper, Wraps
<1>5. Good(agent)
  BY DEF AgentInv, HasAgent, ClassifyHelpers
<1>6. Good(agent')
  BY <1>1, <1>3, <1>4, <1>5, ExpansionIsGood
<1>7. pc' = "report"
  BY DEF ClassifyHelpers, RefinementCall
<1> QED
  BY <1>6, <1>7 DEF AgentInv, Good, Grounded, Clean, SeedCatalog, Wraps

\* Everything else leaves the catalogs alone, and the Joern arm as far as it is.
LEMMA AgentInvInitially == Init => AgentInv
  BY DEF Init, AgentInv, HasAgent

AgentKept ==
    /\ UNCHANGED agent /\ (HasAgent' => HasAgent)
    /\ pc' = "classify" => arm' = "joern"

\* A run that hangs or is cancelled stays where it is; all it may lose is its results.
Stopped ==
    /\ pc \notin {"done", "raised"} /\ pc' \in {"hung", "raised"}
    /\ pc' = "hung" => pc # "hung" /\ results' = results
    /\ pc' = "raised" => results' = <<>>
    /\ UNCHANGED <<dedupVars, cfg, arm, k, rules, agent, pre, scanning, triaged, accounts, faults>>

LEMMA HangOrCancelStops == ASSUME Hang \/ BudgetSpent PROVE Stopped
<1>1. CASE Hang
  BY <1>1 DEF Hang, Stopped
<1>2. CASE BudgetSpent
  BY <1>2 DEF BudgetSpent, Judging, LlmAsked, Stopped
<1> QED
  BY <1>1, <1>2

LEMMA RaiseKeepsAgent ==
    ASSUME Raise PROVE AgentKept
  BY DEF Raise, AgentKept, HasAgent

LEMMA OthersKeepAgent ==
    ASSUME AgentInv, [Next]_vars, ~JoernScan, ~ClassifyHelpers
    PROVE  AgentKept
<1>1. CASE Connect
  BY <1>1 DEF Connect, AgentKept, HasAgent
<1>2. CASE MessageRaises \/ ContextRaises \/ TriageUnavailable \/ NotAnObject
  BY <1>2, RaiseKeepsAgent DEF MessageRaises, ContextRaises, TriageUnavailable, NotAnObject
<1>3. CASE SemgrepScan
  BY <1>3 DEF SemgrepScan, AgentKept, HasAgent
<1>4. CASE MergeRecord
  BY <1>4 DEF MergeRecord, AgentKept, HasAgent, AgentInv
<1>5. CASE RebuildUnion
  BY <1>5 DEF RebuildUnion, AgentKept, HasAgent
<1>6. CASE RecoveryPass
  BY <1>6 DEF RecoveryPass, AgentKept, HasAgent
<1>7. CASE MergeUnion
  BY <1>7 DEF MergeUnion, AgentKept, HasAgent
<1>8. CASE LoadContext
  BY <1>8 DEF LoadContext, AgentKept, HasAgent
<1>9. CASE TriageFinding
  BY <1>9 DEF TriageFinding, Judging, Judged, AgentKept, HasAgent
<1>10. CASE TriageCallFails
  BY <1>10 DEF TriageCallFails, Judging, Judged, AgentKept, HasAgent
<1>11. CASE TriageBaseline
  BY <1>11 DEF TriageBaseline, Judged, AgentKept, HasAgent
<1>12. CASE TriageDone
  BY <1>12 DEF TriageDone, AgentKept, HasAgent
<1>13. CASE RefineRules
  BY <1>13 DEF RefineRules, RefinementCall, AgentKept, HasAgent
<1>14. CASE QueryCallGraph
  BY <1>14 DEF QueryCallGraph, AgentKept, HasAgent
<1>15. CASE RefinementCallFails
  BY <1>15 DEF RefinementCallFails, LlmAsked, RefinementCall, AgentKept, HasAgent, AgentInv
<1>16. CASE NothingToRefine
  BY <1>16 DEF NothingToRefine, AgentKept, HasAgent
<1>17. CASE Report
  BY <1>17 DEF Report, AgentKept, HasAgent
<1>18. CASE UNCHANGED vars
  BY <1>18 DEF vars, AgentKept, HasAgent, AgentInv
<1>19. CASE Hang \/ BudgetSpent
  <2>1. Stopped
    BY <1>19, HangOrCancelStops
  <2> QED
    BY <2>1 DEF Stopped, AgentKept, HasAgent
<1> QED
  BY <1>1, <1>2, <1>3, <1>4, <1>5, <1>6, <1>7, <1>8, <1>9, <1>10, <1>11, <1>12, <1>13, <1>14,
     <1>15, <1>16, <1>17, <1>18, <1>19 DEF Next

LEMMA AgentInvInductive == AgentInv /\ [Next]_vars => AgentInv'
<1> SUFFICES ASSUME AgentInv, [Next]_vars PROVE AgentInv'
  OBVIOUS
<1>1. CASE ClassifyHelpers
  BY <1>1, ClassifyKeepsAgentInv
<1>2. CASE JoernScan
  <2>1. agent' = CurrentAgent /\ pc' = "strict"
    BY <1>2 DEF JoernScan
  <2>2. Good(CurrentAgent)
    BY SeedIsGood DEF CurrentAgent, AgentInv
  <2>3. Good(agent')
    BY <2>1, <2>2
  <2> QED
    BY <2>1, <2>3 DEF AgentInv, Good, Grounded, Clean, SeedCatalog, Wraps
<1>3. CASE ~ClassifyHelpers /\ ~JoernScan
  <2>1. AgentKept
    BY <1>3, OthersKeepAgent
  <2>2. Good(agent)' <=> Good(agent')
    BY DEF Good, Grounded, Clean, SeedCatalog, Wraps
  <2> QED
    BY <2>1, <2>2 DEF AgentInv, AgentKept
<1> QED
  BY <1>1, <1>2, <1>3

LEMMA AgentAlways == Spec => []AgentInv
  BY AgentInvInitially, AgentInvInductive, PTL DEF Spec

\* Whatever the LLM proposes, only names the queries can be built from enter the
\* catalogs (JoernArm.expand_catalog).
THEOREM CatalogsStayClean == Spec => []CatalogClean
<1>1. AgentInv => CatalogClean
  <2>1. ASSUME Good(agent) PROVE DOMAIN agent = Lists
    BY <2>1 DEF Good, Catalogs, Lists
  <2> QED
    BY <2>1 DEF AgentInv, CatalogClean, Good, Clean
<1> QED
  BY <1>1, AgentAlways, PTL

\* Whatever the LLM claims, every sink the refinement adds wraps, directly or through
\* other wrappers, a sink of the configuration (verify_sink_wrapper).
THEOREM SinksStayGrounded == Spec => []SinksGrounded
<1>1. AgentInv => SinksGrounded
  BY DEF AgentInv, SinksGrounded, Good, Grounded
<1> QED
  BY <1>1, AgentAlways, PTL

-----------------------------------------------------------------------------
(* The accounts. *)

AccountsType == usage \in Nat /\ mark \in Nat /\ spent \in [{"triage", "refinement"} -> Nat]

NothingSpent == usage = 0 /\ mark = 0 /\ spent.triage = 0 /\ spent.refinement = 0

AccountsInv ==
    /\ AccountsType
    /\ pc \in {"strict", "recover", "merge"} => NothingSpent
    /\ pc = "triage" => mark = 0 /\ spent.triage = 0 /\ spent.refinement = 0
    /\ pc \in {"refine", "classify", "report"} => usage = spent.triage + spent.refinement

LEMMA ResetKeepsAccounts ==
    ASSUME ResetUsage PROVE AccountsType' /\ NothingSpent'
  BY DEF ResetUsage, AccountsType, NothingSpent

LEMMA RaiseKeepsAccounts ==
    ASSUME AccountsInv, Raise PROVE AccountsInv'
  BY DEF AccountsInv, AccountsType, Raise, accounts

\* A call for the refinement is entered twice, as usage and as spent.
LEMMA CallKeepsAccounts ==
    ASSUME AccountsInv, pc \in {"refine", "classify"}, NEW calls \in Nat, RefinementCall(calls)
    PROVE  AccountsInv'
<1>1. /\ spent'.triage = spent.triage /\ spent'.refinement = spent.refinement + calls
      /\ spent' \in [{"triage", "refinement"} -> Nat]
  BY DEF AccountsInv, AccountsType, RefinementCall
<1>2. usage' = usage + calls /\ mark' = mark /\ pc' = "report"
  BY DEF RefinementCall
<1> QED
  BY <1>1, <1>2 DEF AccountsInv, AccountsType

LEMMA AccountsInductive == AccountsInv /\ [Next]_vars => AccountsInv'
<1> SUFFICES ASSUME AccountsInv, [Next]_vars PROVE AccountsInv'
  OBVIOUS
<1> USE DEF accounts
<1>1. CASE Connect
  BY <1>1 DEF Connect, AccountsInv, AccountsType
<1>2. CASE MessageRaises \/ ContextRaises \/ TriageUnavailable \/ NotAnObject
  BY <1>2, RaiseKeepsAccounts DEF MessageRaises, ContextRaises, TriageUnavailable, NotAnObject
<1>3. CASE SemgrepScan
  BY <1>3, ResetKeepsAccounts DEF SemgrepScan, AccountsInv, NothingSpent
<1>4. CASE JoernScan
  BY <1>4, ResetKeepsAccounts DEF JoernScan, AccountsInv, NothingSpent
<1>5. CASE MergeRecord
  BY <1>5 DEF MergeRecord, AccountsInv, AccountsType, NothingSpent
<1>6. CASE RebuildUnion
  BY <1>6 DEF RebuildUnion, AccountsInv, AccountsType, NothingSpent
<1>7. CASE RecoveryPass
  BY <1>7 DEF RecoveryPass, AccountsInv, AccountsType, NothingSpent
<1>8. CASE MergeUnion
  BY <1>8 DEF MergeUnion, AccountsInv, AccountsType, NothingSpent
<1>9. CASE LoadContext
  BY <1>9 DEF LoadContext, AccountsInv, AccountsType, NothingSpent
<1>10. CASE TriageFinding
  BY <1>10 DEF TriageFinding, Judging, Judged, AccountsInv, AccountsType
<1>11. CASE TriageCallFails
  BY <1>11 DEF TriageCallFails, Judging, Judged, AccountsInv, AccountsType
<1>12. CASE TriageBaseline
  BY <1>12 DEF TriageBaseline, Judged, AccountsInv, AccountsType
<1>13. CASE TriageDone
  <2>1. spent' = [spent EXCEPT !.triage = usage]
    BY <1>13 DEF TriageDone, AccountsInv, AccountsType
  <2>2. /\ spent'.triage = usage /\ spent'.refinement = 0
        /\ spent' \in [{"triage", "refinement"} -> Nat]
    BY <1>13, <2>1 DEF TriageDone, AccountsInv, AccountsType
  <2> QED
    BY <1>13, <2>2 DEF TriageDone, AccountsInv, AccountsType
<1>14. CASE RefineRules
  BY <1>14, CallKeepsAccounts DEF RefineRules
<1>15. CASE QueryCallGraph
  BY <1>15 DEF QueryCallGraph, AccountsInv, AccountsType
<1>16. CASE ClassifyHelpers
  BY <1>16, CallKeepsAccounts DEF ClassifyHelpers
<1>17. CASE RefinementCallFails
  BY <1>17, CallKeepsAccounts DEF RefinementCallFails, LlmAsked
<1>18. CASE NothingToRefine
  BY <1>18 DEF NothingToRefine, AccountsInv, AccountsType
<1>19. CASE Report
  BY <1>19 DEF Report, AccountsInv, AccountsType
<1>20. CASE UNCHANGED vars
  BY <1>20 DEF vars, AccountsInv, AccountsType, NothingSpent
<1>21. CASE Hang \/ BudgetSpent
  <2>1. Stopped
    BY <1>21, HangOrCancelStops
  <2> QED
    BY <2>1 DEF Stopped, AccountsInv, AccountsType
<1> QED
  BY <1>1, <1>2, <1>3, <1>4, <1>5, <1>6, <1>7, <1>8, <1>9, <1>10, <1>11, <1>12, <1>13, <1>14,
     <1>15, <1>16, <1>17, <1>18, <1>19, <1>20, <1>21 DEF Next

\* The tokens an iteration reports are those of its triage and its refinement, with
\* calls that fail before and after they are counted (LLMClient.usage, pipeline.py).
THEOREM TokensAreAttributed == Spec => []TokensAttributed
<1>1. Init => AccountsInv
  BY DEF Init, AccountsInv, AccountsType
<1>2. AccountsInv => TokensAttributed
  BY DEF AccountsInv, TokensAttributed
<1> QED
  BY <1>1, <1>2, AccountsInductive, PTL DEF Spec

-----------------------------------------------------------------------------
(* The baseline. *)

BaselineInv ==
    /\ pc = "classify" => arm = "joern"
    /\ IsSequence(triaged)
    /\ ~cfg.triage =>
        /\ usage = 0
        /\ \A i \in 1..Len(triaged) : triaged[i] = Uncertain
        /\ arm = "joern" => pc \notin {"refine", "classify", "report"}

BaselineVars == <<cfg, triaged, usage>>

LEMMA NewBatchIsBaseline ==
    ASSUME BaselineInv, triaged' = <<>>, cfg' = cfg, usage' \in {0, usage},
           pc' \in {"strict", "triage", "scan", "connect", "done"}
    PROVE  BaselineInv'
  BY EmptySequence DEF BaselineInv, IsSequence

LEMMA QuietKeepsBaseline ==
    ASSUME BaselineInv, UNCHANGED BaselineVars, pc' = "classify" => arm' = "joern",
           arm' = "joern" /\ pc' \in {"refine", "classify", "report"} =>
                arm = "joern" /\ pc \in {"refine", "classify", "report"}
    PROVE  BaselineInv'
  BY DEF BaselineInv, BaselineVars, IsSequence, Uncertain, Judgement

LEMMA JudgedKeepsBaseline ==
    ASSUME BaselineInv, NEW judgement, Judged(judgement), pc = "triage",
           ~cfg.triage => judgement = Uncertain /\ usage' = usage
    PROVE  BaselineInv'
<1>1. triaged' = Append(triaged, judgement) /\ UNCHANGED <<cfg, pc, arm>>
  BY DEF Judged
<1>2. /\ IsSequence(triaged') /\ Len(triaged) \in Nat /\ Len(triaged') = Len(triaged) + 1
      /\ \A i \in 1..Len(triaged) : triaged'[i] = triaged[i]
      /\ triaged'[Len(triaged) + 1] = judgement
  BY <1>1, AppendedSequence DEF BaselineInv
<1>3. ASSUME ~cfg.triage, NEW i \in 1..Len(triaged')
      PROVE  triaged'[i] = Uncertain
  BY <1>2, <1>3 DEF BaselineInv
<1> QED
  BY <1>1, <1>2, <1>3 DEF BaselineInv, IsSequence, Uncertain, Judgement

LEMMA BaselineInductive == BaselineInv /\ [Next]_vars => BaselineInv'
<1> SUFFICES ASSUME BaselineInv, [Next]_vars PROVE BaselineInv'
  OBVIOUS
<1> USE DEF accounts, BaselineVars
<1>1. CASE Connect
  BY <1>1, QuietKeepsBaseline DEF Connect
<1>2. CASE MessageRaises \/ ContextRaises \/ TriageUnavailable \/ NotAnObject
  <2>1. Raise
    BY <1>2 DEF MessageRaises, ContextRaises, TriageUnavailable, NotAnObject
  <2> QED
    BY <2>1, QuietKeepsBaseline DEF Raise
<1>3. CASE SemgrepScan
  BY <1>3, NewBatchIsBaseline DEF SemgrepScan, ResetUsage
<1>4. CASE JoernScan
  <2>1. usage' = 0 /\ pc' = "strict" /\ UNCHANGED <<cfg, arm, triaged>>
    BY <1>4 DEF JoernScan, ResetUsage
  <2> QED
    BY <2>1 DEF BaselineInv, IsSequence, Uncertain, Judgement
<1>5. CASE MergeRecord
  BY <1>5, QuietKeepsBaseline DEF MergeRecord
<1>6. CASE RebuildUnion
  BY <1>6, QuietKeepsBaseline DEF RebuildUnion
<1>7. CASE RecoveryPass
  BY <1>7, QuietKeepsBaseline DEF RecoveryPass
<1>8. CASE MergeUnion
  BY <1>8, QuietKeepsBaseline DEF MergeUnion
<1>9. CASE LoadContext
  BY <1>9, NewBatchIsBaseline DEF LoadContext
<1>10. CASE TriageFinding
  BY <1>10, JudgedKeepsBaseline DEF TriageFinding, Judging, AgentsExist
<1>11. CASE TriageCallFails
  BY <1>11, JudgedKeepsBaseline DEF TriageCallFails, Judging, AgentsExist
<1>12. CASE TriageBaseline
  BY <1>12, JudgedKeepsBaseline DEF TriageBaseline
<1>13. CASE TriageDone
  <2>1. pc' = "refine" /\ UNCHANGED BaselineVars /\ arm' = arm /\ (cfg.triage \/ arm = "semgrep")
    BY <1>13 DEF TriageDone, AgentsExist
  <2> QED
    BY <2>1 DEF BaselineInv, IsSequence, Uncertain, Judgement
<1>14. CASE RefineRules
  <2>1. cfg.triage /\ arm = "semgrep" /\ pc' = "report" /\ UNCHANGED <<cfg, arm, triaged>>
    BY <1>14 DEF RefineRules, MayRefineRules, AgentsExist, RefinementCall
  <2> QED
    BY <2>1 DEF BaselineInv, IsSequence, Uncertain, Judgement
<1>15. CASE QueryCallGraph
  BY <1>15, QuietKeepsBaseline DEF QueryCallGraph
<1>16. CASE ClassifyHelpers
  <2>1. cfg.triage /\ pc' = "report" /\ UNCHANGED <<cfg, arm, triaged>>
    BY <1>16 DEF ClassifyHelpers, RefinementCall, BaselineInv
  <2> QED
    BY <2>1 DEF BaselineInv, IsSequence, Uncertain, Judgement
<1>17. CASE RefinementCallFails
  <2>1. cfg.triage
    BY <1>17 DEF RefinementCallFails, LlmAsked, MayRefineRules, AgentsExist, BaselineInv
  <2>2. pc' = "report" /\ UNCHANGED <<cfg, arm, triaged>>
    BY <1>17 DEF RefinementCallFails, RefinementCall
  <2> QED
    BY <2>1, <2>2 DEF BaselineInv, IsSequence, Uncertain, Judgement
<1>18. CASE NothingToRefine
  BY <1>18, QuietKeepsBaseline DEF NothingToRefine
<1>19. CASE Report
  BY <1>19, NewBatchIsBaseline DEF Report
<1>20. CASE UNCHANGED vars
  BY <1>20, QuietKeepsBaseline DEF vars, BaselineInv
<1>21. CASE Hang \/ BudgetSpent
  <2>1. Stopped
    BY <1>21, HangOrCancelStops
  <2> QED
    BY <2>1, QuietKeepsBaseline DEF Stopped
<1> QED
  BY <1>1, <1>2, <1>3, <1>4, <1>5, <1>6, <1>7, <1>8, <1>9, <1>10, <1>11, <1>12, <1>13, <1>14,
     <1>15, <1>16, <1>17, <1>18, <1>19, <1>20, <1>21 DEF Next

\* With triage_disabled the LLM is never called, by no arm and no refinement.
THEOREM BaselineStaysFree == Spec => []BaselineIsFree
<1>1. Init => BaselineInv
  BY EmptySequence DEF Init, BaselineInv
<1>2. BaselineInv => BaselineIsFree
  BY DEF BaselineInv, BaselineIsFree
<1> QED
  BY <1>1, <1>2, BaselineInductive, PTL DEF Spec

-----------------------------------------------------------------------------
(* The two brakes. *)

\* The evidence on a finding of the Joern arm is the evidence the LLM is given.
Stamped == arm = "joern" =>
    /\ Len(findings) \in Nat
    /\ \A i \in 1..Len(findings) :
        findings[i].evidence =
            StructuralEvidence(findings[i].site, findings[i].source, findings[i].sources)

\* What the agent let through is in the text the scorer has.
Cited == \A i \in 1..Len(triaged) :
    triaged[i].verdict = "true_positive" => triaged[i].cite \in ScorerText(findings[i])

BrakeInv == IsSequence(order) /\ IsSequence(triaged) /\ Stamped /\ Cited

BrakeVars == <<findings, triaged>>

LEMMA QuietKeepsBrake ==
    ASSUME BrakeInv, UNCHANGED BrakeVars, arm' = arm, IsSequence(order')
    PROVE  BrakeInv'
  BY DEF BrakeInv, BrakeVars, Stamped, Cited, IsSequence, ScorerText, Snippet

LEMMA MergeKeepsOrder ==
    ASSUME IsSequence(order), MergeNext PROVE IsSequence(order')
<1>1. CASE FirstHit
  BY <1>1, AppendedSequence DEF FirstHit
<1>2. CASE StrongerHit \/ WeakerHit
  <2>1. order' = order
    BY <1>2 DEF StrongerHit, WeakerHit, MergeItem
  <2> QED
    BY <2>1
<1> QED
  BY <1>1, <1>2 DEF MergeNext

LEMMA ParseEmptiesOrder ==
    ASSUME NEW records, Parse(records) PROVE IsSequence(order')
  BY EmptySequence DEF Parse

\* A judgement is added to those of the findings before it.
LEMMA JudgedKeepsBrake ==
    ASSUME BrakeInv, NEW judgement, Judged(judgement), Len(triaged) < Len(findings),
           judgement.verdict = "true_positive" =>
                judgement.cite \in ScorerText(findings[Len(triaged) + 1])
    PROVE  BrakeInv'
<1>1. triaged' = Append(triaged, judgement) /\ UNCHANGED <<findings, arm, order>>
  BY DEF Judged, dedupVars, scanning
<1>2. /\ IsSequence(triaged') /\ Len(triaged) \in Nat /\ Len(triaged') = Len(triaged) + 1
      /\ \A i \in 1..Len(triaged) : triaged'[i] = triaged[i]
      /\ triaged'[Len(triaged) + 1] = judgement
  BY <1>1, AppendedSequence DEF BrakeInv
<1>3. ASSUME NEW i \in 1..Len(triaged'), triaged'[i].verdict = "true_positive"
      PROVE  triaged'[i].cite \in ScorerText(findings[i])
  BY <1>2, <1>3 DEF BrakeInv, Cited
<1>4. Stamped'
  BY <1>1 DEF BrakeInv, Stamped
<1>5. Cited'
  BY <1>1, <1>3 DEF Cited, ScorerText, Snippet
<1>6. IsSequence(order)' /\ IsSequence(triaged)'
  BY <1>1, <1>2 DEF BrakeInv, IsSequence
<1> QED
  BY <1>4, <1>5, <1>6 DEF BrakeInv

\* The agent compares a citation with no more than the scorer does.
LEMMA AgentTextIsScorerText ==
    ASSUME BrakeInv, Judging
    PROVE  LET f == findings[Len(triaged) + 1] IN TriageText(f, Evidence(f)) \subseteq ScorerText(f)
<1> DEFINE f == findings[Len(triaged) + 1]
<1>1. CASE arm = "joern"
  <2>1. Len(triaged) + 1 \in 1..Len(findings)
    <3>1. Len(triaged) \in Nat
      BY AppendedSequence DEF BrakeInv
    <3> QED
      BY <1>1, <3>1 DEF Judging, BrakeInv, Stamped
  <2>2. f.evidence = StructuralEvidence(f.site, f.source, f.sources)
    BY <1>1, <2>1 DEF BrakeInv, Stamped
  <2> QED
    BY <1>1, <2>2 DEF TriageText, ScorerText, Evidence
<1>2. CASE arm # "joern"
  BY <1>2 DEF TriageText, ScorerText, Evidence
<1> QED
  BY <1>1, <1>2

LEMMA LoadContextStamps ==
    ASSUME BrakeInv, LoadContext PROVE BrakeInv'
<1>1. /\ findings' = [i \in 1..Len(order) |-> Stamp(JoernFinding(order[i]))]
      /\ triaged' = <<>> /\ UNCHANGED <<arm, order>>
  BY DEF LoadContext, dedupVars
<1>2. Len(order) \in Nat
  BY AppendedSequence DEF BrakeInv
<1>3. Len(findings') = Len(order)
  BY <1>1, <1>2
<1>4. ASSUME NEW site
      PROVE  LET f == Stamp(JoernFinding(site)) IN
                f.evidence = StructuralEvidence(f.site, f.source, f.sources)
  BY DEF Stamp, JoernFinding
<1>5. ASSUME NEW i \in 1..Len(findings')
      PROVE  findings'[i].evidence =
                StructuralEvidence(findings'[i].site, findings'[i].source, findings'[i].sources)
  BY <1>1, <1>3, <1>4
<1>6. Stamped'
  BY <1>2, <1>3, <1>5 DEF Stamped
<1>7. Cited' /\ IsSequence(triaged)'
  BY <1>1, EmptySequence DEF Cited, IsSequence
<1>8. IsSequence(order)'
  BY <1>1 DEF BrakeInv, IsSequence
<1> QED
  BY <1>6, <1>7, <1>8 DEF BrakeInv

LEMMA BrakeInductive == BrakeInv /\ [Next]_vars => BrakeInv'
<1> SUFFICES ASSUME BrakeInv, [Next]_vars PROVE BrakeInv'
  OBVIOUS
<1>0. IsSequence(order)
  BY DEF BrakeInv
<1> USE DEF dedupVars, scanning, BrakeVars
<1>1. CASE Connect
  BY <1>0, <1>1, QuietKeepsBrake DEF Connect
<1>2. CASE MessageRaises \/ ContextRaises \/ TriageUnavailable \/ NotAnObject
  <2>1. Raise
    BY <1>2 DEF MessageRaises, ContextRaises, TriageUnavailable, NotAnObject
  <2> QED
    BY <1>0, <2>1, QuietKeepsBrake DEF Raise
<1>3. CASE SemgrepScan
  <2>1. triaged' = <<>> /\ arm' = "semgrep" /\ order' = order
    BY <1>3 DEF SemgrepScan
  <2> QED
    BY <1>0, <2>1, EmptySequence DEF BrakeInv, Stamped, Cited, IsSequence
<1>4. CASE JoernScan
  <2>1. UNCHANGED BrakeVars /\ arm' = arm
    BY <1>4 DEF JoernScan
  <2>2. IsSequence(order')
    BY <1>4, ParseEmptiesOrder DEF JoernScan
  <2> QED
    BY <2>1, <2>2, QuietKeepsBrake
<1>5. CASE MergeRecord
  BY <1>0, <1>5, MergeKeepsOrder, QuietKeepsBrake DEF MergeRecord
<1>6. CASE RebuildUnion
  BY <1>0, <1>6, QuietKeepsBrake DEF RebuildUnion
<1>7. CASE RecoveryPass
  BY <1>0, <1>7, QuietKeepsBrake DEF RecoveryPass
<1>8. CASE MergeUnion
  BY <1>8, ParseEmptiesOrder, QuietKeepsBrake DEF MergeUnion
<1>9. CASE LoadContext
  BY <1>9, LoadContextStamps
<1>10. CASE TriageFinding
  <2> DEFINE f == findings[Len(triaged) + 1]
  <2>1. PICK reply \in TriageReplies : Judged(Brake(reply, TriageText(f, Evidence(f))))
    BY <1>10 DEF TriageFinding
  <2>2. Judging
    BY <1>10 DEF TriageFinding
  <2>3. ASSUME Brake(reply, TriageText(f, Evidence(f))).verdict = "true_positive"
        PROVE  Brake(reply, TriageText(f, Evidence(f))).cite \in ScorerText(f)
    BY <2>2, <2>3, AgentTextIsScorerText DEF Brake, Judgement
  <2> QED
    BY <2>1, <2>2, <2>3, JudgedKeepsBrake DEF Judging
<1>11. CASE TriageCallFails
  BY <1>11, JudgedKeepsBrake DEF TriageCallFails, Judging, Uncertain, Judgement
<1>12. CASE TriageBaseline
  BY <1>12, JudgedKeepsBrake DEF TriageBaseline, Uncertain, Judgement
<1>13. CASE TriageDone
  BY <1>0, <1>13, QuietKeepsBrake DEF TriageDone
<1>14. CASE RefineRules \/ ClassifyHelpers \/ RefinementCallFails
  <2>1. PICK calls : RefinementCall(calls)
    BY <1>14 DEF RefineRules, ClassifyHelpers, RefinementCallFails
  <2> QED
    BY <1>0, <2>1, QuietKeepsBrake DEF RefinementCall
<1>15. CASE QueryCallGraph
  BY <1>0, <1>15, QuietKeepsBrake DEF QueryCallGraph
<1>16. CASE NothingToRefine
  BY <1>0, <1>16, QuietKeepsBrake DEF NothingToRefine
<1>17. CASE Report
  <2>1. findings' = <<>> /\ triaged' = <<>> /\ order' = order
    BY <1>17 DEF Report
  <2> QED
    BY <1>0, <2>1, EmptySequence DEF BrakeInv, Stamped, Cited, IsSequence
<1>18. CASE UNCHANGED vars
  BY <1>0, <1>18, QuietKeepsBrake DEF vars
<1>19. CASE Hang \/ BudgetSpent
  <2>1. Stopped
    BY <1>19, HangOrCancelStops
  <2> QED
    BY <1>0, <2>1, QuietKeepsBrake DEF Stopped
<1> QED
  BY <1>1, <1>2, <1>3, <1>4, <1>5, <1>6, <1>7, <1>8, <1>9, <1>10, <1>11, <1>12, <1>13, <1>14,
     <1>15, <1>16, <1>17, <1>18, <1>19 DEF Next

\* The scorer never calls the source of a true positive hallucinated that the agent let
\* through: both compare it with the same text, the evidence included.
THEOREM BrakesAlwaysAgree == Spec => []BrakesAgree
<1>1. Init => BrakeInv
  BY EmptySequence DEF Init, DedupInit, BrakeInv, Stamped, Cited
<1>2. BrakeInv => BrakesAgree
  BY DEF BrakeInv, Cited, BrakesAgree, Label
<1> QED
  BY <1>1, <1>2, BrakeInductive, PTL DEF Spec

-----------------------------------------------------------------------------
(* The results. *)

\* The iterations of the Semgrep arm, which come first.
Before == IF "semgrep" \in cfg.arms THEN cfg.iterations + 1 ELSE 0

\* Where the run is says how many results there are ...
Position ==
    /\ cfg \in Configs /\ k \in 0..cfg.iterations
    /\ arm = "semgrep" \/ arm = "joern"
    /\ arm = "semgrep" => "semgrep" \in cfg.arms
    /\ pc = "connect" => arm = "joern" /\ k = 0
    /\ pc = "raised" => results = <<>>
    /\ pc \notin {"done", "raised", "hung"} =>
        Len(results) = IF arm = "joern" THEN Before + k ELSE k

\* ... and where a result stands, as the i-th of n when b come before, what it is.
Row(r, i, b, n, where) ==
    IF r.error THEN r.arm = "joern" /\ r.k = 0 /\ where = "done" /\ i = b + 1 /\ i = n
    ELSE IF i <= b THEN r.arm = "semgrep" /\ r.k = i - 1
    ELSE r.arm = "joern" /\ r.k = i - 1 - b

ResultsInv ==
    /\ IsSequence(results)
    /\ Position
    /\ \A i \in 1..Len(results) : Row(results[i], i, Before, Len(results), pc)

LEMMA BeforeIsNat == ASSUME Position PROVE Before \in Nat /\ cfg.iterations \in Nat
  BY StudyAssumption DEF Before, Position

LEMMA QuietKeepsResults ==
    ASSUME ResultsInv, UNCHANGED <<cfg, arm, k, results>>,
           pc \notin {"done", "raised", "hung"},
           pc' # "connect", pc' # "raised"
    PROVE  ResultsInv'
  BY DEF ResultsInv, Position, Row, Before, IsSequence

\* A result is appended in its place.
LEMMA AppendedResult ==
    ASSUME ResultsInv, pc # "done", NEW r, results' = Append(results, r), cfg' = cfg,
           Row(r, Len(results) + 1, Before, Len(results) + 1, pc'), Position'
    PROVE  ResultsInv'
<1>1. /\ IsSequence(results') /\ Len(results) \in Nat /\ Len(results') = Len(results) + 1
      /\ \A i \in 1..Len(results) : results'[i] = results[i]
      /\ results'[Len(results) + 1] = r
  BY AppendedSequence DEF ResultsInv
<1>2. ASSUME NEW i \in 1..Len(results)
      PROVE  Row(results'[i], i, Before, Len(results'), pc')
  BY <1>1 DEF ResultsInv, Row
<1>3. ASSUME NEW i \in 1..Len(results')
      PROVE  Row(results'[i], i, Before, Len(results'), pc')
  BY <1>1, <1>2
<1>4. Before' = Before
  BY DEF Before
<1> QED
  BY <1>1, <1>3, <1>4 DEF ResultsInv, IsSequence

\* The Joern arm has no row yet when it has no iteration behind it.
LEMMA FirstJoernRow ==
    ASSUME ResultsInv, pc \notin {"done", "raised", "hung"}, arm = "joern", JoernRows = {}
    PROVE  k = 0 /\ Len(results) = Before
<1>1. Before \in Nat /\ k \in Nat /\ Len(results) = Before + k
  BY BeforeIsNat DEF ResultsInv, Position
<1>2. ASSUME k # 0 PROVE FALSE
  <2>1. Before + 1 \in 1..Len(results)
    BY <1>1, <1>2
  <2>2. results[Before + 1].arm = "joern"
    BY <1>1, <2>1 DEF ResultsInv, Row
  <2> QED
    BY <2>1, <2>2 DEF JoernRows
<1> QED
  BY <1>1, <1>2

LEMMA ErrorIsInPlace ==
    ASSUME ResultsInv, pc \notin {"done", "raised", "hung"}, arm = "joern", JoernRows = {},
           results' = Append(results, ErrorRow), pc' = "done", UNCHANGED <<cfg, arm, k>>
    PROVE  ResultsInv'
<1>1. Before \in Nat /\ Len(results) = Before
  BY FirstJoernRow, BeforeIsNat DEF ResultsInv
<1>2. Position'
  BY DEF ResultsInv, Position
<1>3. Row(ErrorRow, Len(results) + 1, Before, Len(results) + 1, pc')
  BY <1>1 DEF Row, ErrorRow
<1> QED
  BY <1>2, <1>3, AppendedResult

LEMMA RaiseKeepsResults ==
    ASSUME ResultsInv, pc \notin {"done", "raised", "hung"}, Raise PROVE ResultsInv'
<1>1. CASE arm = "joern" /\ JoernRows = {}
  BY <1>1, ErrorIsInPlace DEF Raise, ReportError
<1>2. CASE arm = "joern" /\ JoernRows # {}
  BY <1>2, QuietKeepsResults DEF Raise, ReportError
<1>3. CASE arm # "joern"
  BY <1>3, EmptySequence DEF Raise, ResultsInv, Position, IsSequence
<1> QED
  BY <1>1, <1>2, <1>3

LEMMA ConnectKeepsResults ==
    ASSUME ResultsInv, Connect PROVE ResultsInv'
<1>1. CASE pc' = "scan"
  BY <1>1, QuietKeepsResults DEF Connect, ErrorRow
<1>2. CASE pc' = "done"
  <2>1. arm = "joern" /\ k = 0 /\ Len(results) = Before /\ Before \in Nat
    BY BeforeIsNat DEF Connect, ResultsInv, Position
  <2>2. JoernRows = {}
    BY <2>1 DEF ResultsInv, Row, JoernRows, Connect
  <2> QED
    BY <1>2, <2>1, <2>2, ErrorIsInPlace DEF Connect
<1> QED
  BY <1>1, <1>2 DEF Connect

LEMMA ReportKeepsResults ==
    ASSUME ResultsInv, Report PROVE ResultsInv'
<1> DEFINE b == Before
<1>1. /\ b \in Nat /\ cfg.iterations \in Nat /\ k \in 0..cfg.iterations
      /\ Len(results) = IF arm = "joern" THEN b + k ELSE k
      /\ arm # "joern" => arm = "semgrep" /\ b = cfg.iterations + 1
  BY BeforeIsNat DEF Report, ResultsInv, Position, Before
<1>2. results' = Append(results, Result) /\ cfg' = cfg
  BY DEF Report
<1>3. Len(results') = Len(results) + 1 /\ Len(results) \in Nat
  BY <1>2, AppendedSequence DEF ResultsInv
<1>4. Row(Result, Len(results) + 1, b, Len(results) + 1, pc')
  BY <1>1 DEF Row, Result
<1>5. Position'
  <2>1. Before' = Before
    BY <1>2 DEF Before
  <2>2. CASE ~LastIteration
    BY <1>1, <1>2, <1>3, <2>1, <2>2 DEF Report, ResultsInv, Position, LastIteration
  <2>3. CASE LastIteration /\ arm = "semgrep" /\ "joern" \in cfg.arms
    <3>1. arm' = "joern" /\ k' = 0 /\ pc' = "connect"
      BY <2>3 DEF Report
    <3> QED
      BY <1>1, <1>2, <1>3, <2>1, <2>3, <3>1 DEF ResultsInv, Position, LastIteration
  <2>4. CASE LastIteration /\ ~(arm = "semgrep" /\ "joern" \in cfg.arms)
    <3>1. pc' = "done" /\ UNCHANGED <<arm, k>>
      BY <2>4 DEF Report
    <3> QED
      BY <1>2, <3>1 DEF ResultsInv, Position
  <2> QED
    BY <2>2, <2>3, <2>4
<1>6. pc # "done"
  BY DEF Report
<1> HIDE DEF b
<1> QED
  BY <1>2, <1>4, <1>5, <1>6, AppendedResult DEF b

LEMMA ResultsInitially == Init => ResultsInv
<1> SUFFICES ASSUME Init PROVE ResultsInv
  OBVIOUS
<1>1. /\ cfg.iterations \in Nat /\ cfg.arms \subseteq {"semgrep", "joern"} /\ cfg.arms # {}
      /\ cfg \in Configs
  BY StudyAssumption DEF Init
<1>2. Position
  BY <1>1, EmptySequence DEF Init, Position, Before
<1> QED
  BY <1>2, EmptySequence DEF Init, ResultsInv

LEMMA ResultsInductive == ResultsInv /\ [Next]_vars => ResultsInv'
<1> SUFFICES ASSUME ResultsInv, [Next]_vars PROVE ResultsInv'
  OBVIOUS
<1>1. CASE Connect
  BY <1>1, ConnectKeepsResults
<1>2. CASE MessageRaises \/ ContextRaises \/ TriageUnavailable \/ NotAnObject
  <2>1. Raise /\ pc \notin {"done", "raised", "hung"}
    BY <1>2 DEF MessageRaises, ContextRaises, TriageUnavailable, NotAnObject, Judging, LlmAsked
  <2> QED
    BY <2>1, RaiseKeepsResults
<1>3. CASE SemgrepScan
  BY <1>3, QuietKeepsResults DEF SemgrepScan
<1>4. CASE JoernScan
  BY <1>4, QuietKeepsResults DEF JoernScan
<1>5. CASE MergeRecord
  BY <1>5, QuietKeepsResults DEF MergeRecord
<1>6. CASE RebuildUnion
  BY <1>6, QuietKeepsResults DEF RebuildUnion
<1>7. CASE RecoveryPass
  BY <1>7, QuietKeepsResults DEF RecoveryPass
<1>8. CASE MergeUnion
  BY <1>8, QuietKeepsResults DEF MergeUnion
<1>9. CASE LoadContext
  BY <1>9, QuietKeepsResults DEF LoadContext
<1>10. CASE TriageFinding
  BY <1>10, QuietKeepsResults DEF TriageFinding, Judging, Judged
<1>11. CASE TriageCallFails
  BY <1>11, QuietKeepsResults DEF TriageCallFails, Judging, Judged
<1>12. CASE TriageBaseline
  BY <1>12, QuietKeepsResults DEF TriageBaseline, Judged
<1>13. CASE TriageDone
  BY <1>13, QuietKeepsResults DEF TriageDone
<1>14. CASE RefineRules \/ ClassifyHelpers \/ RefinementCallFails
  <2>1. pc \in {"refine", "classify"} /\ \E calls : RefinementCall(calls)
    BY <1>14 DEF RefineRules, ClassifyHelpers, RefinementCallFails, LlmAsked
  <2> QED
    BY <2>1, QuietKeepsResults DEF RefinementCall
<1>15. CASE QueryCallGraph
  BY <1>15, QuietKeepsResults DEF QueryCallGraph
<1>16. CASE NothingToRefine
  BY <1>16, QuietKeepsResults DEF NothingToRefine
<1>17. CASE Report
  BY <1>17, ReportKeepsResults
<1>18. CASE UNCHANGED vars
  BY <1>18 DEF vars, ResultsInv, Position, Row, Before, IsSequence
<1>19. CASE Hang \/ BudgetSpent
  <2>1. Stopped
    BY <1>19, HangOrCancelStops
  <2>2. CASE pc' = "hung"
    BY <2>1, <2>2, QuietKeepsResults DEF Stopped
  <2>3. CASE pc' = "raised"
    BY <2>1, <2>3, EmptySequence DEF Stopped, ResultsInv, Position, IsSequence
  <2> QED
    BY <2>1, <2>2, <2>3 DEF Stopped
<1> QED
  BY <1>1, <1>2, <1>3, <1>4, <1>5, <1>6, <1>7, <1>8, <1>9, <1>10, <1>11, <1>12, <1>13, <1>14,
     <1>15, <1>16, <1>17, <1>18, <1>19 DEF Next

\* Every result has its key, an arm and an iteration, to itself, iterations are
\* reported in order and without a gap, and an error only in place of iterations.
THEOREM ResultsHaveTheirKeys == Spec => []OneResultPerKey
<1>1. Init => ResultsInv
  BY ResultsInitially
<1>2. ResultsInv => OneResultPerKey
  <2> SUFFICES ASSUME ResultsInv PROVE OneResultPerKey
    OBVIOUS
  <2>1. Before \in Nat /\ Len(results) \in Nat
    BY BeforeIsNat, AppendedSequence DEF ResultsInv
  <2>2. ASSUME NEW i \in 1..Len(results)
        PROVE  Row(results[i], i, Before, Len(results), pc)
    BY DEF ResultsInv
  <2>3. ASSUME NEW i \in 1..Len(results), NEW j \in 1..Len(results),
               results[i].arm = results[j].arm, results[i].k = results[j].k
        PROVE  i = j
    BY <2>1, <2>2, <2>3 DEF Row
  <2>4. ASSUME NEW i \in 1..Len(results), results[i].error
        PROVE  JoernRows = {i}
    BY <2>1, <2>2, <2>4 DEF Row, JoernRows
  <2>5. ASSUME NEW i \in 1..Len(results), results[i].k > 0
        PROVE  results[i - 1].arm = results[i].arm /\ results[i - 1].k = results[i].k - 1
    <3>1. ~results[i].error /\ i - 1 \in 1..Len(results) /\ i - 1 # Len(results)
      BY <2>1, <2>2, <2>5 DEF Row
    <3>2. ~results[i - 1].error
      BY <2>1, <2>2, <3>1 DEF Row
    <3> QED
      BY <2>1, <2>2, <2>5, <3>1, <3>2 DEF Row
  <2> QED
    BY <2>3, <2>4, <2>5 DEF OneResultPerKey
<1> QED
  BY <1>1, <1>2, ResultsInductive, PTL DEF Spec

-----------------------------------------------------------------------------
(* What the scans return. *)

FlowType == [site : Site, source : Source, via : Via, names : SUBSET (Name \cup Short)]

LEMMA RecordsOfFlows ==
    ASSUME NEW flows \in Seq(FlowType), NEW kind \in Kind
    PROVE  LET rs == FlowRecords(flows, kind) IN
            /\ rs \in Seq(Record) /\ Len(rs) = Len(flows)
            /\ \A i \in 1..Len(flows) : rs[i] = AsRecord(flows[i].site, kind, flows[i].source)
<1> DEFINE rs == FlowRecords(flows, kind)
<1>1. Len(flows) \in Nat
  OBVIOUS
<1>2. ASSUME NEW i \in 1..Len(flows)
      PROVE  AsRecord(flows[i].site, kind, flows[i].source) \in Record
  <2>1. flows[i] \in FlowType
    OBVIOUS
  <2> QED
    BY <2>1 DEF FlowType, AsRecord, Record
<1>3. rs \in [1..Len(flows) -> Record]
  BY <1>2 DEF FlowRecords
<1>4. rs \in Seq(Record) /\ Len(rs) = Len(flows)
  BY <1>1, <1>3
<1> QED
  BY <1>4 DEF FlowRecords

LEMMA TakeProperties ==
    ASSUME NEW T, NEW s \in Seq(T), NEW cap \in Nat
    PROVE  /\ Take(s, cap) \in Seq(T) /\ Len(Take(s, cap)) <= Len(s)
           /\ \A i \in 1..Len(Take(s, cap)) : Take(s, cap)[i] = s[i]
  BY DEF Take

\* The positions of Flow that the strict query is about.
StrictFlows(catalog) ==
    {i \in 1..Len(Flow) : IsSinkCall(Flow[i].site, catalog.sinks) /\ StrictSource(Flow[i], catalog.sources)}

LEMMA FlowIsTyped == Flow \in Seq(FlowType) /\ Len(Flow) \in Nat
  BY CatalogAssumption DEF FlowType

\* The strict query reports the strict flows, as taint.
LEMMA StrictScanReports ==
    ASSUME NEW catalog
    PROVE  LET rs == StrictScan(catalog) IN
            /\ rs \in Seq(Record)
            /\ \A i \in 1..Len(rs) : \E n \in StrictFlows(catalog) :
                rs[i] = AsRecord(Flow[n].site, "taint", Flow[n].source)
            /\ \A n \in StrictFlows(catalog) : \E i \in 1..Len(rs) :
                rs[i] = AsRecord(Flow[n].site, "taint", Flow[n].source)
<1> DEFINE flows == Kept(Flow, StrictFlows(catalog))
<1>1. StrictFlows(catalog) \in SUBSET (1..Len(Flow))
  BY DEF StrictFlows
<1>2. StrictScan(catalog) = FlowRecords(flows, "taint")
  BY DEF StrictScan, StrictFlows
<1>3. /\ flows \in Seq(FlowType) /\ Len(flows) \in Nat
      /\ \A i \in 1..Len(flows) : \E n \in StrictFlows(catalog) : flows[i] = Flow[n]
      /\ \A n \in StrictFlows(catalog) : \E i \in 1..Len(flows) : flows[i] = Flow[n]
  BY <1>1, FlowIsTyped, KeptSources
<1> HIDE DEF flows
<1>4. "taint" \in Kind
  BY DEF Kind
<1>5. LET rs == FlowRecords(flows, "taint") IN
        /\ rs \in Seq(Record) /\ Len(rs) = Len(flows)
        /\ \A i \in 1..Len(flows) : rs[i] = AsRecord(flows[i].site, "taint", flows[i].source)
  BY <1>3, <1>4, RecordsOfFlows
<1> PICK rs : rs = StrictScan(catalog)
  OBVIOUS
<1>6. /\ rs \in Seq(Record) /\ Len(rs) = Len(flows)
      /\ \A i \in 1..Len(flows) : rs[i] = AsRecord(flows[i].site, "taint", flows[i].source)
  BY <1>2, <1>5
<1>7. ASSUME NEW i \in 1..Len(rs)
      PROVE  \E n \in StrictFlows(catalog) : rs[i] = AsRecord(Flow[n].site, "taint", Flow[n].source)
  <2>1. PICK n \in StrictFlows(catalog) : flows[i] = Flow[n]
    BY <1>3, <1>6
  <2>2. rs[i] = AsRecord(flows[i].site, "taint", flows[i].source)
    BY <1>6
  <2> QED
    BY <2>1, <2>2
<1>8. ASSUME NEW n \in StrictFlows(catalog)
      PROVE  \E i \in 1..Len(rs) : rs[i] = AsRecord(Flow[n].site, "taint", Flow[n].source)
  <2>1. PICK i \in 1..Len(flows) : flows[i] = Flow[n]
    BY <1>3
  <2>2. i \in 1..Len(rs) /\ rs[i] = AsRecord(flows[i].site, "taint", flows[i].source)
    BY <1>6
  <2> QED
    BY <2>1, <2>2
<1> QED
  BY <1>6, <1>7, <1>8

LEMMA RecoveryScanTyped ==
    ASSUME NEW catalog, NEW kind \in RecoveryKind
    PROVE  LET rs == RecoveryScan(kind, catalog) IN
            rs \in Seq(Record) /\ \A i \in 1..Len(rs) : rs[i].kind = kind
<1> PICK rs : rs = RecoveryScan(kind, catalog)
  OBVIOUS
<1>1. kind \in Kind /\ (kind = "direct_sink" \/ kind = "relaxed" \/ kind = "def_use")
  BY DEF RecoveryKind, Kind
<1>2. CASE kind = "direct_sink"
  <2> DEFINE is == {i \in 1..Len(Call) : IsSinkCall(Call[i], catalog.sinks)}
             calls == Kept(Call, is)
             sites == Take(calls, DirectCap)
  <2>1. rs = [i \in 1..Len(sites) |-> AsRecord(sites[i], "direct_sink", NoSource)]
    BY <1>2 DEF RecoveryScan, DirectSinkScan
  <2>2. calls \in Seq(Site)
    <3>1. is \in SUBSET (1..Len(Call)) /\ Call \in Seq(Site)
      BY CatalogAssumption
    <3> QED
      BY <3>1, KeptSources
  <2> HIDE DEF calls
  <2>3. sites \in Seq(Site)
    BY <2>2, CatalogAssumption, TakeProperties
  <2> HIDE DEF sites
  <2>4. ASSUME NEW i \in 1..Len(sites)
        PROVE  AsRecord(sites[i], "direct_sink", NoSource) \in Record
    <3>1. sites[i] \in Site
      BY <2>3
    <3> QED
      BY <3>1 DEF AsRecord, Record, Kind
  <2>5. Len(sites) \in Nat
    BY <2>3
  <2>6. rs \in [1..Len(sites) -> Record]
    BY <2>1, <2>4
  <2>7. rs \in Seq(Record) /\ Len(rs) = Len(sites)
    BY <2>5, <2>6
  <2>8. \A i \in 1..Len(rs) : rs[i].kind = "direct_sink"
    BY <2>1, <2>7 DEF AsRecord
  <2> QED
    BY <1>2, <2>7, <2>8
<1>3. CASE kind = "relaxed" \/ kind = "def_use"
  <2>1. PICK is \in SUBSET (1..Len(Flow)), cap \in Nat : rs = FlowRecords(Take(Kept(Flow, is), cap), kind)
    <3>1. CASE kind = "relaxed"
      <4> DEFINE is == {i \in 1..Len(Flow) :
                            IsSinkCall(Flow[i].site, catalog.sinks) /\ RelaxedSource(Flow[i], catalog.sources)}
      <4>1. rs = FlowRecords(Take(Kept(Flow, is), RelaxedCap), kind)
        BY <3>1 DEF RecoveryScan, RelaxedTaintScan
      <4>2. is \in SUBSET (1..Len(Flow)) /\ RelaxedCap \in Nat
        BY CatalogAssumption
      <4> HIDE DEF is
      <4> QED
        BY <4>1, <4>2
    <3>2. CASE kind = "def_use"
      <4> DEFINE is == {i \in 1..Len(Flow) : IsSinkCall(Flow[i].site, catalog.sinks) /\ Flow[i].via # "call"}
      <4>1. rs = FlowRecords(Take(Kept(Flow, is), DefUseCap), kind)
        BY <3>2 DEF RecoveryScan, DefUseChase
      <4>2. is \in SUBSET (1..Len(Flow)) /\ DefUseCap \in Nat
        BY CatalogAssumption
      <4> HIDE DEF is
      <4> QED
        BY <4>1, <4>2
    <3> QED
      BY <1>3, <3>1, <3>2
  <2> DEFINE flows == Take(Kept(Flow, is), cap)
  <2>2. Kept(Flow, is) \in Seq(FlowType)
    BY FlowIsTyped, KeptSources
  <2>3. flows \in Seq(FlowType)
    BY <2>2, TakeProperties
  <2> HIDE DEF flows
  <2>4. LET qs == FlowRecords(flows, kind) IN
        /\ qs \in Seq(Record) /\ Len(qs) = Len(flows)
        /\ \A i \in 1..Len(flows) : qs[i] = AsRecord(flows[i].site, kind, flows[i].source)
    BY <1>1, <2>3, RecordsOfFlows
  <2>5. rs = FlowRecords(flows, kind)
    BY <2>1 DEF flows
  <2>6. /\ rs \in Seq(Record) /\ Len(rs) = Len(flows)
        /\ \A i \in 1..Len(flows) : rs[i] = AsRecord(flows[i].site, kind, flows[i].source)
    BY <2>4, <2>5
  <2>7. ASSUME NEW i \in 1..Len(rs) PROVE rs[i].kind = kind
    <3>1. rs[i] = AsRecord(flows[i].site, kind, flows[i].source)
      BY <2>6
    <3> QED
      BY <3>1 DEF AsRecord
  <2> QED
    BY <2>6, <2>7
<1> QED
  BY <1>1, <1>2, <1>3

-----------------------------------------------------------------------------
(* The types. *)

\* A step of a run is a step of the merge loop, or leaves it alone.
LEMMA RunsMerge ==
    ASSUME union \in Seq(Record), [Next]_vars
    PROVE  [DedupNext]_dedupVars
<1>1. CASE MergeRecord
  BY <1>1 DEF MergeRecord, DedupNext
<1>2. CASE JoernScan
  <2>1. raw' \in Seq(Record) /\ Parse(raw')
    <3>1. CASE Parse(StrictScan(CurrentAgent))
      BY <3>1, StrictScanReports DEF Parse
    <3>2. CASE Parse(<<>>)
      BY <3>2 DEF Parse
    <3> QED
      BY <1>2, <3>1, <3>2 DEF JoernScan
  <2> QED
    BY <2>1 DEF DedupNext
<1>3. CASE MergeUnion
  <2>1. raw' \in Seq(Record) /\ Parse(raw')
    BY <1>3 DEF MergeUnion, Parse
  <2> QED
    BY <2>1 DEF DedupNext
<1>4. MergeRecord \/ JoernScan \/ MergeUnion \/ UNCHANGED dedupVars
  BY DEF Next, vars, Connect, MessageRaises, ContextRaises, Raise, SemgrepScan, RebuildUnion,
         RecoveryPass, LoadContext, TriageFinding, TriageCallFails, TriageBaseline, Judged,
         TriageUnavailable, TriageDone, RefineRules, RefinementCall, QueryCallGraph, ClassifyHelpers,
         RefinementCallFails, NotAnObject, NothingToRefine, Report, Hang, BudgetSpent
<1> QED
  BY <1>1, <1>2, <1>3, <1>4

LEMMA EvidenceIsSources ==
    ASSUME NEW site, NEW source \in Source \cup {NoSource}, NEW sources \in Seq(Source)
    PROVE  StructuralEvidence(site, source, sources) \subseteq Source
<1> DEFINE rs == {i \in 1..Len(sources) : ~IsSelfFlow(sources[i], site)}
           real == Kept(sources, rs)
           promoted == IF IsSelfFlow(source, site) /\ real # <<>> THEN {real[1]} ELSE {}
           shown == IF promoted # {} THEN promoted ELSE {source} \ {NoSource}
           os == {i \in 1..Len(sources) : sources[i] \notin shown \cup {source}}
           others == Kept(sources, os)
<1>1. StructuralEvidence(site, source, sources) =
        shown \cup {others[i] : i \in {j \in 1..Len(others) : j <= AltSourcesCap}}
  BY DEF StructuralEvidence
<1>2. real \in Seq(Source)
  <2>1. rs \in SUBSET (1..Len(sources))
    OBVIOUS
  <2> HIDE DEF rs
  <2> QED
    BY <2>1, KeptSources
<1>3. others \in Seq(Source)
  <2>1. os \in SUBSET (1..Len(sources))
    OBVIOUS
  <2> HIDE DEF os
  <2> QED
    BY <2>1, KeptSources
<1> HIDE DEF real, others
<1>4. real # <<>> => real[1] \in Source
  BY <1>2
<1>5. shown \subseteq Source
  BY <1>4
<1>6. \A i \in 1..Len(others) : others[i] \in Source
  BY <1>3
<1> HIDE DEF shown
<1> QED
  BY <1>1, <1>5, <1>6

\* What a finding of either arm is.
LEMMA StampedFinding ==
    ASSUME NEW f \in Findings
    PROVE  /\ Stamp(f) \in Findings /\ Stamp(f).site = f.site /\ Stamp(f).kind = f.kind
           /\ Stamp(f).source = f.source /\ Stamp(f).sources = f.sources
<1>1. StructuralEvidence(f.site, f.source, f.sources) \subseteq Source
  BY EvidenceIsSources DEF Findings
<1> QED
  BY <1>1 DEF Stamp, Findings

\* The hits of the rules, one after the other.
LEMMA HitsAreSites ==
    ASSUME NEW rs \in Seq(Rule) PROVE SemgrepHits(rs) \in Seq(Site)
<1> DEFINE IsHits(f) == f = [n \in 0..Len(rs) |->
                            IF n = 0 THEN <<>> ELSE f[n - 1] \o Matches[rs[n]]]
           step == [n \in 1..Len(rs) |-> [x \in Seq(Site) |-> x \o Matches[rs[n]]]]
<1>1. Len(rs) \in Nat /\ <<>> \in Seq(Site)
  OBVIOUS
<1>2. ASSUME NEW n \in 1..Len(rs), NEW x \in Seq(Site)
      PROVE  step[n][x] = x \o Matches[rs[n]] /\ x \o Matches[rs[n]] \in Seq(Site)
  <2>1. rs[n] \in Rule
    OBVIOUS
  <2>2. Matches[rs[n]] \in Seq(Site)
    BY <2>1, RulesAssumption
  <2> QED
    BY <2>2
<1> HIDE DEF step
<1>3. \E f : Iterates(f, Len(rs), Seq(Site), <<>>, step)
  BY <1>1, <1>2, RecursiveFunction
<1>4. PICK f \in [0..Len(rs) -> Seq(Site)] :
        f[0] = <<>> /\ \A n \in 1..Len(rs) : f[n] = step[n][f[n - 1]]
  BY <1>3 DEF Iterates
<1>5. IsHits(f)
  <2>1. ASSUME NEW n \in 0..Len(rs)
        PROVE  f[n] = IF n = 0 THEN <<>> ELSE f[n - 1] \o Matches[rs[n]]
    <3>1. CASE n = 0
      BY <3>1, <1>4
    <3>2. CASE n # 0
      <4>1. n \in 1..Len(rs) /\ n - 1 \in 0..Len(rs)
        BY <3>2, <1>1
      <4> QED
        BY <4>1, <3>2, <1>2, <1>4
    <3> QED
      BY <3>1, <3>2
  <2> QED
    BY <2>1
<1> DEFINE g == CHOOSE h : IsHits(h)
<1>6. IsHits(g)
  BY <1>5
<1>7. SemgrepHits(rs) = g[Len(rs)]
  BY DEF SemgrepHits
<1> HIDE DEF g
<1>8. ASSUME NEW n \in 0..Len(rs)
      PROVE  g[n] = IF n = 0 THEN <<>> ELSE g[n - 1] \o Matches[rs[n]]
  BY <1>6, Zenon
<1> HIDE DEF IsHits
<1> DEFINE G == {n \in Nat : n <= Len(rs) => g[n] \in Seq(Site)}
<1>9. 0 \in G
  <2>1. 0 \in 0..Len(rs)
    BY <1>1
  <2>2. g[0] = <<>>
    BY <2>1, <1>8
  <2> QED
    BY <1>1, <2>2
<1>10. \A n \in Nat : n \in G => n + 1 \in G
  <2> SUFFICES ASSUME NEW n \in Nat, n \in G, n + 1 <= Len(rs) PROVE g[n + 1] \in Seq(Site)
    OBVIOUS
  <2>1. n + 1 \in 1..Len(rs) /\ n + 1 \in 0..Len(rs) /\ n + 1 # 0 /\ (n + 1) - 1 = n /\ g[n] \in Seq(Site)
    BY <1>1
  <2>2. g[n + 1] = g[n] \o Matches[rs[n + 1]]
    BY <2>1, <1>8
  <2> QED
    BY <2>1, <2>2, <1>2
<1> HIDE DEF G
<1>11. Nat \subseteq G
  BY <1>9, <1>10, Induction
<1> QED
  BY <1>1, <1>7, <1>11 DEF G

Phase == {"connect", "scan", "strict", "recover", "merge", "triage", "refine", "classify",
          "report", "hung", "done", "raised"}

Types ==
    /\ pc \in Phase /\ rules \in Seq(Rule) /\ union \in Seq(Record)
    /\ failed \subseteq Kind \cup {"semgrep"} /\ cursor \in Nat \ {0}
    /\ findings \in Seq(Findings) /\ triaged \in Seq(Judgements)
    /\ mark <= usage /\ results \in Seq(Results) /\ faults \in 0..MaxFaults

\* The types of what is counted, judged and merged come with the invariants about it.
TypeInv == AgentInv /\ AccountsInv /\ ResultsInv /\ DedupInv /\ Types

LEMMA FaultIsCounted == ASSUME faults \in 0..MaxFaults, Fault PROVE faults' \in 0..MaxFaults
  BY StudyAssumption DEF Fault

LEMMA ErrorRowTyped == ErrorRow \in Results
  BY DEF ErrorRow, Results

LEMMA RaiseKeepsTypes ==
    ASSUME Types, AccountsInv, faults' \in 0..MaxFaults, Raise
    PROVE  Types'
<1>1. results' \in Seq(Results)
  <2>1. Append(results, ErrorRow) \in Seq(Results) /\ <<>> \in Seq(Results)
    BY ErrorRowTyped DEF Types
  <2> QED
    BY <2>1 DEF Raise, ReportError, Types
<1>2. pc' \in Phase
  BY DEF Raise, Phase
<1> QED
  BY <1>1, <1>2 DEF Raise, Types, scanning, accounts

LEMMA JudgedKeepsTypes ==
    ASSUME Types, AccountsInv, faults' \in 0..MaxFaults, NEW judgement \in Judgements, Judged(judgement),
           usage' \in {usage, usage + 1}
    PROVE  Types'
<1>1. triaged' \in Seq(Judgements)
  BY DEF Judged, Types
<1>2. mark' <= usage'
  BY DEF Judged, Types, AccountsInv, AccountsType
<1> QED
  BY <1>1, <1>2 DEF Judged, Types, scanning

LEMMA CallKeepsTypes ==
    ASSUME Types, AccountsInv, faults' \in 0..MaxFaults, rules' \in Seq(Rule),
           NEW calls \in Nat, RefinementCall(calls)
    PROVE  Types'
<1>1. mark' <= usage'
  BY DEF RefinementCall, Types, AccountsInv, AccountsType
<1> QED
  BY <1>1 DEF RefinementCall, Types, scanning, Phase

LEMMA BrakeTyped ==
    ASSUME NEW reply \in TriageReplies, NEW text
    PROVE  Brake(reply, text) \in Judgements
<1>1. reply \in [verdict : Verdict, cite : Source \cup {NoSource}]
  BY StudyAssumption
<1> QED
  BY <1>1 DEF Brake, Judgement, Judgements, Verdict

LEMMA UncertainTyped == Uncertain \in Judgements
  BY DEF Uncertain, Judgement, Judgements, Verdict

LEMMA RefinementTyped ==
    ASSUME NEW rs \in Seq(Rule), NEW reply \in RuleReplies
    PROVE  ApplyRefinement(rs, reply) \in Seq(Rule)
<1>1. reply.patch \in Rule \cup {NoRule}
  BY StudyAssumption
<1>2. CASE reply.action = "keep" \/ reply.patch = NoRule
  BY <1>2 DEF ApplyRefinement
<1>3. CASE ~(reply.action = "keep" \/ reply.patch = NoRule)
  <2>0. ASSUME NEW s \in Seq(Rule) PROVE Dumped(s) \in Seq(Rule)
    <3>1. Len(s) \in Nat /\ \A i \in 1..Len(s) : Dump[s[i]] \in Rule
      BY RulesAssumption
    <3> QED
      BY <3>1 DEF Dumped
  <2>1. Append(rs, reply.patch) \in Seq(Rule)
    BY <1>1, <1>3
  <2>2. ASSUME NEW i PROVE [rs EXCEPT ![i] = reply.patch] \in Seq(Rule)
    <3> PICK p \in Rule : p = reply.patch
      BY <1>1, <1>3
    <3> PICK q : q = [rs EXCEPT ![i] = p]
      OBVIOUS
    <3>1. Len(rs) \in Nat /\ rs \in [1..Len(rs) -> Rule]
      OBVIOUS
    <3>2. q \in [1..Len(rs) -> Rule]
      BY <3>1
    <3> QED
      BY <3>1, <3>2
  <2> QED
    BY <1>3, <2>0, <2>1, <2>2 DEF ApplyRefinement
<1> QED
  BY <1>2, <1>3

LEMMA ResultTyped ==
    ASSUME Types, ResultsInv, AgentInv, pc = "report"
    PROVE  Result \in Results
<1>1. ASSUME NEW kinds PROVE SitesOf(kinds) \in SUBSET Site
  <2>1. ASSUME NEW i \in 1..Len(findings) PROVE findings[i].site \in Site
    <3>1. findings[i] \in Findings
      BY DEF Types
    <3> QED
      BY <3>1 DEF Findings
  <2> QED
    BY <2>1 DEF SitesOf
<1>2. arm \in {"semgrep", "joern"} /\ k \in Nat
  BY StudyAssumption DEF ResultsInv, Position
<1>3. (IF arm = "joern" THEN Grew ELSE RulesChanged) \in BOOLEAN
  BY DEF Grew, RulesChanged
<1> QED
  BY <1>1, <1>2, <1>3 DEF Result, Results

LEMMA TypesInductive == TypeInv /\ [Next]_vars => Types'
<1> SUFFICES ASSUME TypeInv, [Next]_vars PROVE Types'
  OBVIOUS
<1>0. Types /\ AccountsInv /\ DedupInv /\ ResultsInv /\ AgentInv /\ AccountsType
  BY DEF TypeInv, AccountsInv
<1>f. faults \in 0..MaxFaults /\ (Fault \/ UNCHANGED faults => faults' \in 0..MaxFaults)
  BY <1>0, FaultIsCounted DEF Types
<1>1. CASE Connect
  <2>1. results' \in Seq(Results)
    <3>1. Append(results, ErrorRow) \in Seq(Results)
      BY <1>0, ErrorRowTyped DEF Types
    <3> QED
      BY <1>0, <1>1, <3>1 DEF Connect, Types
  <2> QED
    BY <1>0, <1>1, <1>f, <2>1 DEF Connect, Types, scanning, accounts, Phase
<1>2. CASE MessageRaises \/ ContextRaises \/ TriageUnavailable \/ NotAnObject
  <2>1. Raise /\ (Fault \/ UNCHANGED faults)
    BY <1>2 DEF MessageRaises, ContextRaises, TriageUnavailable, NotAnObject
  <2> QED
    BY <1>0, <1>f, <2>1, RaiseKeepsTypes
<1>3. CASE SemgrepScan
  <2>1. faults' \in 0..MaxFaults
    BY <1>3, <1>f DEF SemgrepScan
  <2>2. findings' \in Seq(Findings) /\ failed' \subseteq Kind \cup {"semgrep"}
    <3>1. CASE findings' = <<>> /\ failed' = {"semgrep"}
      BY <3>1
    <3>2. CASE /\ LET hits == SemgrepHits(rules) IN
                    findings' = [i \in 1..Len(hits) |-> Stamp(SemgrepFinding(hits[i]))]
               /\ failed' = {}
      <4> PICK hits : hits = SemgrepHits(rules)
        OBVIOUS
      <4>1. hits \in Seq(Site) /\ Len(hits) \in Nat
        BY <1>0, HitsAreSites DEF Types
      <4>2. ASSUME NEW i \in 1..Len(hits) PROVE Stamp(SemgrepFinding(hits[i])) \in Findings
        <5>1. hits[i] \in Site /\ <<>> \in Seq(Source)
          BY <4>1
        <5>2. SemgrepFinding(hits[i]) \in Findings
          BY <5>1 DEF SemgrepFinding, Findings
        <5> QED
          BY <5>2, StampedFinding
      <4>3. findings' \in [1..Len(hits) -> Findings]
        BY <3>2, <4>2
      <4> QED
        BY <3>2, <4>1, <4>3
    <3> QED
      BY <1>3, <3>1, <3>2 DEF SemgrepScan
  <2>3. pc' = "triage" /\ triaged' = <<>> /\ UNCHANGED <<rules, union, cursor, results>>
        /\ mark' = 0 /\ usage' = 0
    BY <1>3 DEF SemgrepScan, ResetUsage
  <2> QED
    BY <1>0, <2>1, <2>2, <2>3 DEF Types, Phase
<1>4. CASE JoernScan
  <2>1. pc' = "strict" /\ UNCHANGED <<rules, union, findings, cursor, triaged, results>>
        /\ mark' = 0 /\ usage' = 0 /\ failed' \in {{}, {"taint"}} /\ (Fault \/ UNCHANGED faults)
    BY <1>4 DEF JoernScan, ResetUsage
  <2> QED
    BY <1>0, <1>f, <2>1 DEF Types, Phase, Kind
<1>5. CASE MergeRecord
  BY <1>0, <1>5, <1>f DEF MergeRecord, Types, scanning, accounts
<1>6. CASE RebuildUnion
  <2>1. DedupTypeOK /\ EverySiteOnce /\ order \in Seq(Site) /\ Len(order) \in Nat
    BY <1>0 DEF DedupInv, DedupTypeOK
  <2>2. ASSUME NEW i \in 1..Len(order) PROVE Rebuilt(order[i]) \in Record
    <3>1. order[i] \in DOMAIN byKey /\ order[i] \in Site
      BY <2>1 DEF EverySiteOnce
    <3>2. byKey[order[i]] \in Merged
      BY <2>1, <3>1 DEF DedupTypeOK
    <3> PICK m : m = byKey[order[i]]
      OBVIOUS
    <3>3. m.kind \in Kind /\ m.source \in Source \cup {NoSource} /\ m.sources \in Seq(Source)
      BY <3>2 DEF Merged
    <3>4. m.sources # <<>> => m.sources[1] \in Source
      BY <3>3
    <3> QED
      BY <3>1, <3>3, <3>4 DEF Rebuilt, AsRecord, Record
  <2>3. union' \in Seq(Record)
    <3>1. union' = [i \in 1..Len(order) |-> Rebuilt(order[i])]
      BY <1>6 DEF RebuildUnion
    <3>2. union' \in [1..Len(order) -> Record]
      BY <2>2, <3>1
    <3> QED
      BY <2>1, <3>2
  <2> QED
    BY <1>0, <1>6, <1>f, <2>3 DEF RebuildUnion, Types, Phase, accounts
<1>7. CASE RecoveryPass
  <2>1. cursor \in 1..3
    BY <1>0, <1>7 DEF RecoveryPass, Types
  <2>2. Passes[cursor] \in RecoveryKind
    BY <2>1 DEF Passes, RecoveryKind, Kind
  <2> PICK kind \in RecoveryKind : kind = Passes[cursor]
    BY <2>2
  <2>3. RecoveryScan(kind, agent) \in Seq(Record)
    BY RecoveryScanTyped
  <2>4. union \o RecoveryScan(kind, agent) \in Seq(Record)
    BY <1>0, <2>3 DEF Types
  <2>5. union' \in Seq(Record) /\ failed' \subseteq Kind \cup {"semgrep"} /\ (Fault \/ UNCHANGED faults)
    BY <1>0, <1>7, <2>4 DEF RecoveryPass, Types, RecoveryKind
  <2>6. cursor' = cursor + 1 /\ UNCHANGED <<pc, rules, findings, triaged, usage, mark, results>>
    BY <1>7 DEF RecoveryPass, accounts
  <2> QED
    BY <1>0, <1>f, <2>5, <2>6 DEF Types
<1>8. CASE MergeUnion
  <2>1. union' = <<>> /\ pc' = "merge" /\ UNCHANGED <<rules, failed, findings, cursor, triaged,
                                                      usage, mark, results, faults>>
    BY <1>8 DEF MergeUnion, accounts
  <2> QED
    BY <1>0, <2>1 DEF Types, Phase
<1>9. CASE LoadContext
  <2>1. DedupTypeOK /\ EverySiteOnce /\ order \in Seq(Site) /\ Len(order) \in Nat
    BY <1>0 DEF DedupInv, DedupTypeOK
  <2>2. ASSUME NEW i \in 1..Len(order) PROVE Stamp(JoernFinding(order[i])) \in Findings
    <3>1. order[i] \in DOMAIN byKey /\ order[i] \in Site
      BY <2>1 DEF EverySiteOnce
    <3>2. byKey[order[i]] \in Merged
      BY <2>1, <3>1 DEF DedupTypeOK
    <3>3. JoernFinding(order[i]) \in Findings
      BY <3>1, <3>2 DEF JoernFinding, Merged, Findings
    <3> QED
      BY <3>3, StampedFinding
  <2>3. findings' \in Seq(Findings)
    <3>1. findings' = [i \in 1..Len(order) |-> Stamp(JoernFinding(order[i]))]
      BY <1>9 DEF LoadContext
    <3>2. findings' \in [1..Len(order) -> Findings]
      BY <2>2, <3>1
    <3> QED
      BY <2>1, <3>2
  <2>4. triaged' = <<>> /\ mark' = usage /\ cursor' = 1 /\ pc' = "triage"
        /\ UNCHANGED <<rules, union, failed, usage, results, faults>>
    BY <1>9 DEF LoadContext
  <2> QED
    BY <1>0, <2>3, <2>4 DEF Types, Phase, AccountsType
<1>10. CASE TriageFinding
  <2>0. PICK reply \in TriageReplies : \E text : Judged(Brake(reply, text))
    BY <1>10 DEF TriageFinding
  <2>1. PICK text : Judged(Brake(reply, text))
    BY <2>0
  <2>2. usage' = usage + 1 /\ UNCHANGED faults
    BY <1>10 DEF TriageFinding
  <2> QED
    BY <1>0, <1>f, <2>1, <2>2, BrakeTyped, JudgedKeepsTypes
<1>11. CASE TriageCallFails
  <2>1. Judged(Uncertain) /\ usage' \in {usage, usage + 1} /\ Fault
    BY <1>11 DEF TriageCallFails
  <2> QED
    BY <1>0, <1>f, <2>1, UncertainTyped, JudgedKeepsTypes
<1>12. CASE TriageBaseline
  <2>1. Judged(Uncertain) /\ usage' = usage /\ UNCHANGED faults
    BY <1>12 DEF TriageBaseline
  <2> QED
    BY <1>0, <1>f, <2>1, UncertainTyped, JudgedKeepsTypes
<1>13. CASE TriageDone
  BY <1>0, <1>13, <1>f DEF TriageDone, Types, scanning, Phase
<1>14. CASE RefineRules
  <2>1. PICK reply \in RuleReplies : rules' = ApplyRefinement(rules, reply)
    BY <1>14 DEF RefineRules
  <2>2. rules' \in Seq(Rule)
    BY <1>0, <2>1, RefinementTyped DEF Types
  <2> QED
    BY <1>0, <1>14, <1>f, <2>2, CallKeepsTypes DEF RefineRules
<1>15. CASE QueryCallGraph
  <2>1. pc' \in {"classify", pc} /\ cursor' \in {cursor, cursor + 1} /\ (Fault \/ UNCHANGED faults)
        /\ UNCHANGED <<rules, union, failed, findings, triaged, usage, mark, results>>
    BY <1>15 DEF QueryCallGraph, NextFinding, accounts
  <2> QED
    BY <1>0, <1>f, <2>1 DEF Types, Phase
<1>16. CASE ClassifyHelpers
  <2>1. RefinementCall(1) /\ UNCHANGED <<rules, faults>>
    BY <1>16 DEF ClassifyHelpers
  <2> QED
    BY <1>0, <1>f, <2>1, CallKeepsTypes DEF Types
<1>17. CASE RefinementCallFails
  <2>1. PICK calls \in {0, 1} : RefinementCall(calls)
    BY <1>17 DEF RefinementCallFails
  <2>2. Fault /\ UNCHANGED rules
    BY <1>17 DEF RefinementCallFails
  <2> QED
    BY <1>0, <1>f, <2>1, <2>2, CallKeepsTypes DEF Types
<1>18. CASE NothingToRefine
  BY <1>0, <1>18, <1>f DEF NothingToRefine, Types, scanning, accounts, Phase
<1>19. CASE Report
  <2>1. Result \in Results
    BY <1>0, <1>19, ResultTyped DEF Report
  <2>2. results' \in Seq(Results)
    BY <1>0, <1>19, <2>1 DEF Report, Types
  <2>3. pc' \in Phase /\ findings' = <<>> /\ triaged' = <<>> /\ cursor' = 1
        /\ UNCHANGED <<rules, union, failed, usage, mark, faults>>
    BY <1>19 DEF Report, Phase, accounts
  <2> QED
    BY <1>0, <2>2, <2>3 DEF Types
<1>20. CASE UNCHANGED vars
  BY <1>0, <1>20 DEF vars, Types, scanning, accounts
<1>21. CASE Hang \/ BudgetSpent
  <2>1. Stopped
    BY <1>21, HangOrCancelStops
  <2>2. pc' \in Phase
    BY <2>1 DEF Stopped, Phase
  <2>3. <<>> \in Seq(Results) /\ results \in Seq(Results)
    BY <1>0 DEF Types
  <2>4. results' \in Seq(Results)
    BY <2>1, <2>3 DEF Stopped
  <2> QED
    BY <1>0, <2>1, <2>2, <2>4 DEF Stopped, Types, scanning, accounts
<1> QED
  BY <1>1, <1>2, <1>3, <1>4, <1>5, <1>6, <1>7, <1>8, <1>9, <1>10, <1>11, <1>12, <1>13, <1>14,
     <1>15, <1>16, <1>17, <1>18, <1>19, <1>20, <1>21 DEF Next

LEMMA TypeInvariant == Spec => []TypeInv
<1>1. Init => TypeInv
  <2> SUFFICES ASSUME Init PROVE TypeInv
    OBVIOUS
  <2>1. AgentInv /\ AccountsInv /\ ResultsInv
    <3>1. AgentInv
      BY AgentInvInitially
    <3>2. AccountsInv
      BY DEF Init, AccountsInv, AccountsType
    <3>3. ResultsInv
      BY ResultsInitially
    <3> QED
      BY <3>1, <3>2, <3>3
  <2>2. DedupInv
    BY DEF Init, DedupInit, DedupInv, DedupTypeOK, EverySiteOnce, StrongestRecordWins, MergeIsExact,
           NoFindings, Seen
  <2>3. Types
    BY RulesAssumption, StudyAssumption DEF Init, Types, Phase
  <2> QED
    BY <2>1, <2>2, <2>3 DEF TypeInv
<1>2. TypeInv /\ [Next]_vars => TypeInv'
  <2> SUFFICES ASSUME TypeInv, [Next]_vars PROVE TypeInv'
    OBVIOUS
  <2>1. Types'
    BY TypesInductive
  <2>2. DedupInv'
    BY RunsMerge, DedupStepKeepsInv DEF TypeInv, Types
  <2> QED
    BY <2>1, <2>2, AgentInvInductive, AccountsInductive, ResultsInductive DEF TypeInv
<1> QED
  BY <1>1, <1>2, PTL DEF Spec

\* The state of the run keeps its types, whatever fails and whatever the LLM replies,
\* and no arm goes beyond max_iterations.
THEOREM StudyTyped == Spec => []TypeOK
<1>1. TypeInv => TypeOK
  <2> SUFFICES ASSUME TypeInv PROVE TypeOK
    OBVIOUS
  <2>1. agent \in Catalogs \cup {NoAgent}
    BY DEF TypeInv, AgentInv, Good
  <2> QED
    BY <2>1 DEF TypeInv, Types, Phase, AccountsInv, AccountsType, ResultsInv, Position,
                DedupInv, DedupTypeOK, TypeOK
<1> QED
  BY <1>1, TypeInvariant, PTL

\* A run is a run of the merge loop, call after call of _parse_taint_results: what is
\* proved of that loop holds of the merge of the strict scan and of that of the union.
THEOREM RunImplementsDedup == Spec => DedupSpec
<1>1. Init => DedupInit
  BY DEF Init
<1>2. TypeInv /\ [Next]_vars => [DedupNext]_dedupVars
  BY RunsMerge DEF TypeInv, Types
<1> QED
  BY <1>1, <1>2, TypeInvariant, PTL DEF Spec, DedupSpec

-----------------------------------------------------------------------------
(* The detections. *)

\* A true positive that stands cites the text the agent had.
Earned == \A i \in 1..Len(triaged) :
    triaged[i].verdict = "true_positive" =>
        ~triaged[i].downgraded /\ triaged[i].cite \in TriageText(findings[i], Evidence(findings[i]))

EarnedInv == IsSequence(triaged) /\ Earned

LEMMA QuietKeepsEarned ==
    ASSUME EarnedInv, UNCHANGED <<findings, triaged, arm>>
    PROVE  EarnedInv'
  BY DEF EarnedInv, Earned, IsSequence, TriageText, Evidence, Snippet

LEMMA NewBatchIsEarned ==
    ASSUME triaged' = <<>>
    PROVE  EarnedInv'
  BY EmptySequence DEF EarnedInv, Earned, IsSequence

LEMMA JudgedKeepsEarned ==
    ASSUME EarnedInv, NEW judgement, Judged(judgement),
           judgement.verdict = "true_positive" =>
                LET f == findings[Len(triaged) + 1] IN
                ~judgement.downgraded /\ judgement.cite \in TriageText(f, Evidence(f))
    PROVE  EarnedInv'
<1>1. triaged' = Append(triaged, judgement) /\ UNCHANGED <<findings, arm>>
  BY DEF Judged, scanning
<1>2. /\ IsSequence(triaged') /\ Len(triaged) \in Nat /\ Len(triaged') = Len(triaged) + 1
      /\ \A i \in 1..Len(triaged) : triaged'[i] = triaged[i]
      /\ triaged'[Len(triaged) + 1] = judgement
  BY <1>1, AppendedSequence DEF EarnedInv
<1>3. ASSUME NEW i \in 1..Len(triaged'), triaged'[i].verdict = "true_positive"
      PROVE  /\ ~triaged'[i].downgraded
             /\ triaged'[i].cite \in TriageText(findings[i], Evidence(findings[i]))
  BY <1>2, <1>3 DEF EarnedInv, Earned
<1>4. \A f : TriageText(f, Evidence(f))' = TriageText(f, Evidence(f))
  BY <1>1 DEF TriageText, Evidence, Snippet
<1>5. Earned'
  BY <1>1, <1>3 DEF Earned, TriageText, Evidence, Snippet
<1> QED
  BY <1>2, <1>5 DEF EarnedInv, IsSequence

LEMMA EarnedInductive == EarnedInv /\ [Next]_vars => EarnedInv'
<1> SUFFICES ASSUME EarnedInv, [Next]_vars PROVE EarnedInv'
  OBVIOUS
<1> USE DEF scanning
<1>1. CASE Connect \/ MergeRecord \/ RebuildUnion \/ RecoveryPass \/ MergeUnion \/ TriageDone
           \/ QueryCallGraph \/ NothingToRefine \/ JoernScan
  BY <1>1, QuietKeepsEarned DEF Connect, MergeRecord, RebuildUnion, RecoveryPass, MergeUnion, TriageDone,
         QueryCallGraph, NothingToRefine, JoernScan
<1>2. CASE MessageRaises \/ ContextRaises \/ TriageUnavailable \/ NotAnObject
  <2>1. Raise
    BY <1>2 DEF MessageRaises, ContextRaises, TriageUnavailable, NotAnObject
  <2> QED
    BY <2>1, QuietKeepsEarned DEF Raise
<1>3. CASE SemgrepScan \/ LoadContext \/ Report
  BY <1>3, NewBatchIsEarned DEF SemgrepScan, LoadContext, Report
<1>4. CASE TriageFinding
  <2> DEFINE f == findings[Len(triaged) + 1]
  <2>1. PICK reply \in TriageReplies : Judged(Brake(reply, TriageText(f, Evidence(f))))
    BY <1>4 DEF TriageFinding
  <2>2. ASSUME Brake(reply, TriageText(f, Evidence(f))).verdict = "true_positive"
        PROVE  /\ ~Brake(reply, TriageText(f, Evidence(f))).downgraded
               /\ Brake(reply, TriageText(f, Evidence(f))).cite \in TriageText(f, Evidence(f))
    BY <2>2 DEF Brake, Judgement
  <2> QED
    BY <2>1, <2>2, JudgedKeepsEarned
<1>5. CASE TriageCallFails \/ TriageBaseline
  <2>1. Judged(Uncertain)
    BY <1>5 DEF TriageCallFails, TriageBaseline
  <2> QED
    BY <2>1, JudgedKeepsEarned DEF Uncertain, Judgement
<1>6. CASE RefineRules \/ ClassifyHelpers \/ RefinementCallFails
  <2>1. PICK calls : RefinementCall(calls)
    BY <1>6 DEF RefineRules, ClassifyHelpers, RefinementCallFails
  <2> QED
    BY <2>1, QuietKeepsEarned DEF RefinementCall
<1>7. CASE UNCHANGED vars
  BY <1>7, QuietKeepsEarned DEF vars
<1>8. CASE Hang \/ BudgetSpent
  <2>1. Stopped
    BY <1>8, HangOrCancelStops
  <2> QED
    BY <2>1, QuietKeepsEarned DEF Stopped
<1> QED
  BY <1>1, <1>2, <1>3, <1>4, <1>5, <1>6, <1>7, <1>8 DEF Next

\* Where labels are among those wanted; there are finitely many such places.
Places(labels, wanted) == {i \in 1..Len(labels) : labels[i] \in wanted}

LEMMA CountIsFinite ==
    ASSUME NEW labels, Len(labels) \in Nat, NEW wanted
    PROVE  /\ IsFiniteSet(Places(labels, wanted)) /\ Count(labels, wanted) \in Nat
           /\ Count(labels, wanted) = Cardinality(Places(labels, wanted))
<1>1. IsFiniteSet(1..Len(labels))
  BY FS_Interval
<1>2. Places(labels, wanted) \in SUBSET (1..Len(labels))
  BY DEF Places
<1> QED
  BY <1>1, <1>2, FS_Subset, FS_CardinalityType DEF Count, Places

\* Two kinds of labels that have none in common are counted one after the other.
LEMMA CountsAddUp ==
    ASSUME NEW labels, Len(labels) \in Nat, NEW A, NEW B, A \cap B = {}
    PROVE  Count(labels, A \cup B) = Count(labels, A) + Count(labels, B)
<1> PICK P : P = Places(labels, A)
  OBVIOUS
<1> PICK Q : Q = Places(labels, B)
  OBVIOUS
<1>1. Places(labels, A \cup B) = P \cup Q /\ P \cap Q = {}
  BY DEF Places
<1>2. IsFiniteSet(P) /\ IsFiniteSet(Q)
  BY CountIsFinite
<1>3. Cardinality(P \cap Q) = 0
  BY <1>1, FS_EmptySet
<1>4. Cardinality(P \cup Q) = Cardinality(P) + Cardinality(Q) - Cardinality(P \cap Q)
  BY <1>2, FS_Union
<1>5. Count(labels, A) = Cardinality(P) /\ Count(labels, B) = Cardinality(Q)
      /\ Count(labels, A \cup B) = Cardinality(P \cup Q)
  BY <1>1, CountIsFinite
<1>6. Cardinality(P) \in Nat /\ Cardinality(Q) \in Nat
  BY <1>2, FS_CardinalityType
<1> QED
  BY <1>3, <1>4, <1>5, <1>6

\* Every finding has one of the labels the score counts.
AllLabels == {"tp"} \cup {"fp_by_hallucinated_source", "fp_by_llm_overclaim"} \cup {"fn_by_llm"}
                \cup {"uncertain_on_gt", "uncertain_off_gt"} \cup {"tn"}

LEMMA LabelIsCounted ==
    ASSUME NEW f, NEW t PROVE Label(f, t) \in AllLabels
<1>1. CASE t.verdict = "false_positive"
  BY <1>1 DEF Label, AllLabels
<1>2. CASE t.verdict = "true_positive"
  BY <1>2 DEF Label, AllLabels
<1>3. CASE t.verdict # "false_positive" /\ t.verdict # "true_positive"
  BY <1>3 DEF Label, AllLabels
<1> QED
  BY <1>1, <1>2, <1>3

LEMMA IntervalCount == \A n \in Nat : Cardinality(1..n) = n
<1> SUFFICES ASSUME NEW n \in Nat PROVE Cardinality(1..n) = n
  OBVIOUS
<1>1. 1 \in Int /\ n \in Int
  OBVIOUS
<1>2. Cardinality(1..n) = IF 1 > n THEN 0 ELSE n - 1 + 1
  BY <1>1, FS_Interval
<1> QED
  BY <1>2

LEMMA ScoreCountsAll ==
    ASSUME NEW fs, NEW ts, NEW n \in Nat, n = Len(ts), NEW credit
    PROVE  LET score == Score(fs, ts, credit) IN
            score.tp + score.fp + score.byLlm + score.uncertain + Count(Labels(fs, ts), {"tn"}) = Len(ts)
<1> DEFINE labels == Labels(fs, ts)
           W1 == {"tp"}
           W2 == {"fp_by_hallucinated_source", "fp_by_llm_overclaim"}
           W3 == {"fn_by_llm"}
           W4 == {"uncertain_on_gt", "uncertain_off_gt"}
           W5 == {"tn"}
<1>1. labels = [i \in 1..n |-> Label(fs[i], ts[i])]
  BY DEF Labels
<1>2. Len(labels) = n /\ Len(labels) \in Nat
  BY <1>1
<1>3. \A i \in 1..n : labels[i] \in AllLabels
  BY <1>1, LabelIsCounted
<1>4. Places(labels, AllLabels) = 1..n
  BY <1>2, <1>3 DEF Places
<1>5. Count(labels, AllLabels) = n
  BY <1>2, <1>4, CountIsFinite, IntervalCount
<1>6. LET score == Score(fs, ts, credit) IN
        /\ score.tp = Count(labels, W1) /\ score.fp = Count(labels, W2)
        /\ score.byLlm = Count(labels, W3) /\ score.uncertain = Count(labels, W4)
  BY DEF Score
<1>7. W1 \cap W2 = {} /\ (W1 \cup W2) \cap W3 = {} /\ (W1 \cup W2 \cup W3) \cap W4 = {}
      /\ (W1 \cup W2 \cup W3 \cup W4) \cap W5 = {}
      /\ AllLabels = W1 \cup W2 \cup W3 \cup W4 \cup W5
  BY DEF AllLabels
<1> HIDE DEF labels, W1, W2, W3, W4, W5
<1>8. /\ Count(labels, W1) \in Nat /\ Count(labels, W2) \in Nat /\ Count(labels, W3) \in Nat
      /\ Count(labels, W4) \in Nat /\ Count(labels, W5) \in Nat
  BY <1>2, CountIsFinite
<1>9. Count(labels, W1 \cup W2) = Count(labels, W1) + Count(labels, W2)
  BY <1>2, <1>7, CountsAddUp
<1>10. Count(labels, W1 \cup W2 \cup W3) = Count(labels, W1 \cup W2) + Count(labels, W3)
  BY <1>2, <1>7, CountsAddUp
<1>11. Count(labels, W1 \cup W2 \cup W3 \cup W4) = Count(labels, W1 \cup W2 \cup W3) + Count(labels, W4)
  BY <1>2, <1>7, CountsAddUp
<1>12. Count(labels, W1 \cup W2 \cup W3 \cup W4 \cup W5)
        = Count(labels, W1 \cup W2 \cup W3 \cup W4) + Count(labels, W5)
  BY <1>2, <1>7, CountsAddUp
<1>13. Count(labels, W1) + Count(labels, W2) + Count(labels, W3) + Count(labels, W4) + Count(labels, W5) = n
  BY <1>5, <1>7, <1>8, <1>9, <1>10, <1>11, <1>12
<1> QED
  BY <1>6, <1>13 DEF labels, W5

\* The agent's verdict decides between the labels of a true positive and the rest.
LEMMA LabelOfVerdict ==
    ASSUME NEW f, NEW t, t.verdict = "true_positive" => t.cite \in ScorerText(f)
    PROVE  /\ Label(f, t) = "tp" <=> t.verdict = "true_positive" /\ MatchedLines(f) # {}
           /\ Label(f, t) \in {"fp_by_hallucinated_source", "fp_by_llm_overclaim"}
                <=> t.verdict = "true_positive" /\ MatchedLines(f) = {}
<1>1. CASE t.verdict = "false_positive"
  BY <1>1 DEF Label
<1>2. CASE t.verdict = "true_positive"
  BY <1>2 DEF Label
<1>3. CASE t.verdict # "false_positive" /\ t.verdict # "true_positive"
  BY <1>3 DEF Label
<1> QED
  BY <1>1, <1>2, <1>3

\* Findings credited to lines, and the lines nothing is credited to.
LEMMA CreditedLines ==
    ASSUME NEW D, IsFiniteSet(D), NEW c \in [D -> VulnerableLines],
           NEW missed, missed = VulnerableLines \ {c[i] : i \in D}
    PROVE  /\ IsFiniteSet(missed) /\ Cardinality(missed) \in Nat
           /\ Cardinality(D) + Cardinality(missed) >= Cardinality(VulnerableLines)
           /\ Cardinality(D) + Cardinality(missed) = Cardinality(VulnerableLines)
                <=> \A i, j \in D : c[i] = c[j] => i = j
           /\ Cardinality(missed) = Cardinality(VulnerableLines) <=> D = {}
<1> DEFINE image == {c[i] : i \in D}
<1>0. missed = VulnerableLines \ image
  OBVIOUS
<1>1. IsFiniteSet(VulnerableLines) /\ image \subseteq VulnerableLines
  BY TriageAssumption
<1>2. c \in Surjection(D, image)
  BY DEF Surjection
<1>3. c \in Injection(D, image) <=> \A i, j \in D : c[i] = c[j] => i = j
  BY <1>2 DEF Surjection, Injection, IsInjective
<1> HIDE DEF image
<1>4. /\ IsFiniteSet(image) /\ Cardinality(image) <= Cardinality(D)
      /\ Cardinality(image) = Cardinality(D) <=> c \in Injection(D, image)
  BY <1>2, FS_Surjection
<1>5. VulnerableLines \cap image = image
  BY <1>1
<1>6. IsFiniteSet(missed) /\ Cardinality(missed) = Cardinality(VulnerableLines) - Cardinality(image)
  <2>1. /\ IsFiniteSet(VulnerableLines \ image)
        /\ Cardinality(VulnerableLines \ image)
            = Cardinality(VulnerableLines) - Cardinality(VulnerableLines \cap image)
    BY <1>1, FS_Difference
  <2> QED
    BY <1>0, <1>5, <2>1
<1>7. /\ Cardinality(missed) \in Nat /\ Cardinality(image) \in Nat /\ Cardinality(D) \in Nat
      /\ Cardinality(VulnerableLines) \in Nat
  BY <1>1, <1>4, <1>6, FS_CardinalityType
<1>8. Cardinality(image) = 0 <=> image = {}
  BY <1>4, FS_EmptySet
<1>9. image = {} <=> D = {}
  BY DEF image
<1>10. /\ Cardinality(D) + Cardinality(missed) >= Cardinality(VulnerableLines)
       /\ Cardinality(D) + Cardinality(missed) = Cardinality(VulnerableLines)
            <=> \A i, j \in D : c[i] = c[j] => i = j
       /\ Cardinality(missed) = Cardinality(VulnerableLines) <=> D = {}
  BY <1>3, <1>4, <1>6, <1>7, <1>8, <1>9
<1> QED
  BY <1>6, <1>7, <1>10

\* The positives of the score are the verdicts the LLM committed to, and with the lines it
\* misses they make up the vulnerable lines, but for lines credited to two findings
\* (label_findings); every finding has one label.
THEOREM ScoreAlwaysAddsUp == Spec => []ScoreAddsUp
<1>1. Init => EarnedInv /\ BrakeInv
  BY EmptySequence DEF Init, DedupInit, EarnedInv, Earned, BrakeInv, Stamped, Cited
<1>2. EarnedInv /\ BrakeInv /\ TypeInv => ScoreAddsUp
  <2> SUFFICES ASSUME EarnedInv, BrakeInv, TypeInv, NEW credit \in Credits(findings, triaged)
               PROVE  LET score == Score(findings, triaged, credit)
                          committed == {i \in 1..Len(triaged) : Committed(i)}
                          detected == {i \in committed : MatchedLines(findings[i]) # {}}
                          lines == Cardinality(VulnerableLines)
                          far == {l \in VulnerableLines :
                                    \A i \in detected : l \notin MatchedLines(findings[i])}
                      IN  /\ score.tp = Cardinality(detected)
                          /\ score.fp = Cardinality(committed \ detected)
                          /\ score.fn >= Cardinality(far) /\ (score.fn = lines <=> detected = {})
                          /\ score.tp + score.fn >= lines
                          /\ score.tp + score.fn = lines <=>
                                \A i, j \in detected : credit[i] = credit[j] => i = j
                          /\ score.tp + score.fp + score.byLlm + score.uncertain
                                + Count(Labels(findings, triaged), {"tn"}) = Len(triaged)
    BY DEF ScoreAddsUp
  <2> DEFINE score == Score(findings, triaged, credit)
             committed == {i \in 1..Len(triaged) : Committed(i)}
             detected == {i \in committed : MatchedLines(findings[i]) # {}}
             far == {l \in VulnerableLines : \A i \in detected : l \notin MatchedLines(findings[i])}
             missed == VulnerableLines \ {credit[i] : i \in DOMAIN credit}
             labels == Labels(findings, triaged)
  <2>1. Len(triaged) \in Nat /\ IsFiniteSet(1..Len(triaged))
    BY FS_Interval DEF TypeInv, Types
  <2>2. ASSUME NEW i \in 1..Len(triaged)
        PROVE  /\ Committed(i) <=> triaged[i].verdict = "true_positive"
               /\ triaged[i].verdict = "true_positive" => triaged[i].cite \in ScorerText(findings[i])
    BY DEF Committed, EarnedInv, Earned, BrakeInv, Cited
  <2>3. /\ detected = {i \in 1..Len(triaged) : Label(findings[i], triaged[i]) = "tp"}
        /\ committed \ detected = {i \in 1..Len(triaged) :
                Label(findings[i], triaged[i]) \in {"fp_by_hallucinated_source", "fp_by_llm_overclaim"}}
    BY <2>2, LabelOfVerdict
  <2>4. Len(labels) = Len(triaged) /\ \A i \in 1..Len(triaged) : labels[i] = Label(findings[i], triaged[i])
    BY <2>1 DEF Labels
  <2>5. score.tp = Cardinality(detected) /\ score.fp = Cardinality(committed \ detected)
    <3>1. /\ {i \in 1..Len(labels) : labels[i] \in {"tp"}} = detected
          /\ {i \in 1..Len(labels) : labels[i] \in {"fp_by_hallucinated_source", "fp_by_llm_overclaim"}}
                = committed \ detected
      BY <2>3, <2>4
    <3> QED
      BY <3>1 DEF Score, Count
  <2>6. credit \in [detected -> VulnerableLines] /\ DOMAIN credit = detected
        /\ \A i \in detected : credit[i] \in MatchedLines(findings[i])
    BY <2>3 DEF Credits
  <2>7. IsFiniteSet(detected)
    <3>1. detected \in SUBSET (1..Len(triaged))
      OBVIOUS
    <3> QED
      BY <2>1, <3>1, FS_Subset
  <2>8. score.fn = Cardinality(missed) /\ far \in SUBSET missed
    BY <2>6 DEF Score
  <2> HIDE DEF score, committed, detected, far
  <2>9. missed = VulnerableLines \ {credit[i] : i \in detected}
    BY <2>6
  <2> HIDE DEF missed
  <2>10. /\ IsFiniteSet(missed) /\ Cardinality(missed) \in Nat
         /\ Cardinality(detected) + Cardinality(missed) >= Cardinality(VulnerableLines)
         /\ Cardinality(detected) + Cardinality(missed) = Cardinality(VulnerableLines)
                <=> \A i, j \in detected : credit[i] = credit[j] => i = j
         /\ Cardinality(missed) = Cardinality(VulnerableLines) <=> detected = {}
    BY <2>6, <2>7, <2>9, CreditedLines
  <2>11. Cardinality(far) <= Cardinality(missed) /\ Cardinality(far) \in Nat
    BY <2>8, <2>10, FS_Subset, FS_CardinalityType
  <2>12. /\ score.fn >= Cardinality(far) /\ (score.fn = Cardinality(VulnerableLines) <=> detected = {})
         /\ score.tp + score.fn >= Cardinality(VulnerableLines)
         /\ score.tp + score.fn = Cardinality(VulnerableLines) <=>
                \A i, j \in detected : credit[i] = credit[j] => i = j
    BY <2>5, <2>8, <2>10, <2>11
  <2>13. score.tp + score.fp + score.byLlm + score.uncertain + Count(labels, {"tn"}) = Len(triaged)
    BY <2>1, ScoreCountsAll DEF score
  <2> QED
    BY <2>5, <2>12, <2>13 DEF score, committed, detected, far
<1> QED
  BY <1>1, <1>2, EarnedInductive, BrakeInductive, TypeInvariant, PTL DEF Spec

-----------------------------------------------------------------------------
(* What the queries found, from the scan to the findings. *)

Elements(s) == {s[i] : i \in 1..Len(s)}
Found(kind, catalog) == IF kind = "taint" THEN StrictScan(catalog) ELSE RecoveryScan(kind, catalog)
Reported(kinds, catalog) == UNION {Elements(Found(kind, catalog)) : kind \in kinds}

\* The list s has the calls of the records rs, and of the taint flows among them each
\* call with one of the sources.
Carries(s, rs) ==
    /\ {s[i].site : i \in 1..Len(s)} = {r.site : r \in rs}
    /\ \A i \in 1..Len(s) : s[i].kind \in Kind
    /\ \A i \in 1..Len(s) : s[i].kind = "taint" =>
        \E r \in rs : r.kind = "taint" /\ r.site = s[i].site /\ r.source = s[i].source
    /\ \A r \in rs : r.kind = "taint" => \E i \in 1..Len(s) : s[i].kind = "taint" /\ s[i].site = r.site

\* The list s carries rs, and each call once.
Presents(s, rs) ==
    /\ Carries(s, rs)
    /\ \A i, j \in 1..Len(s) : s[i].site = s[j].site => i = j

\* The passes that are through, and the queries that did not fail.
Through == {Passes[i] : i \in {j \in 1..3 : j < cursor}} \cap cfg.passes
Ran == ({"taint"} \cup cfg.passes) \ failed

QueryInv == arm = "joern" =>
    /\ pc = "strict" => /\ failed \subseteq {"taint"}
                        /\ raw = IF failed = {} THEN StrictScan(agent) ELSE <<>>
    /\ pc = "recover" => /\ cursor \in 1..4 /\ failed \subseteq {"taint"} \cup Through
                         /\ Carries(union, Reported(({"taint"} \cup Through) \ failed, agent))
    /\ pc = "merge" => Carries(raw, Reported(Ran, agent))
    /\ pc \in {"triage", "refine", "classify"} => Presents(findings, Reported(Ran, agent))

\* When the loop is through it has been through all its records.
LEMMA AllSeen ==
    ASSUME DedupInv, Finished
    PROVE  /\ Len(raw) \in Nat /\ Len(order) \in Nat /\ Seen = 1..Len(raw)
           /\ raw \in Seq(Record) /\ order \in Seq(Site)
           /\ {order[i] : i \in 1..Len(order)} = {raw[i].site : i \in 1..Len(raw)}
           /\ \A i \in 1..Len(order) : order[i] \in DOMAIN byKey
           /\ \A i, j \in 1..Len(order) : order[i] = order[j] => i = j
<1>1. DedupTypeOK /\ EverySiteOnce
  BY DEF DedupInv
<1>2. Len(raw) \in Nat /\ Len(order) \in Nat /\ next = Len(raw) + 1
      /\ raw \in Seq(Record) /\ order \in Seq(Site)
  BY <1>1 DEF DedupTypeOK, Finished
<1>3. Seen = 1..Len(raw)
  BY <1>2 DEF Seen
<1>4. ASSUME NEW i \in 1..Len(order), NEW j \in 1..Len(order), i < j, order[i] = order[j]
      PROVE  FALSE
  <2>1. PICK m \in RecordsOf(order[i]) : \A n \in RecordsOf(order[j]) : m < n
    BY <1>1, <1>4 DEF EverySiteOnce
  <2>2. m < m /\ m \in Nat
    BY <1>3, <1>4, <2>1 DEF RecordsOf
  <2> QED
    BY <2>2
<1>5. \A i, j \in 1..Len(order) : order[i] = order[j] => i = j
  BY <1>2, <1>4
<1> QED
  BY <1>1, <1>2, <1>3, <1>5 DEF EverySiteOnce

\* Only taint has the priority of taint.
LEMMA TaintIsStrongest ==
    \A kind \in Kind : Priority["taint"] <= Priority[kind] => kind = "taint"
  BY DEF Priority, Kind

\* The finding of a call is a taint flow when a record of it is, from the source of one.
LEMMA KindOfFinding ==
    ASSUME DedupInv, Finished, NEW site \in DOMAIN byKey, \A i \in 1..Len(raw) : raw[i].kind \in Kind
    PROVE  /\ byKey[site].kind \in Kind
           /\ byKey[site].kind = "taint" => \E i \in 1..Len(raw) :
                raw[i].site = site /\ raw[i].kind = "taint" /\ raw[i].source = byKey[site].source
           /\ (\E i \in 1..Len(raw) : raw[i].site = site /\ raw[i].kind = "taint")
                => byKey[site].kind = "taint"
<1>1. \A i \in 1..Len(raw) : KindOf(i) = raw[i].kind
  BY DEF KindOf, NormalizeKind
<1>2. RecordsOf(site) = {i \in 1..Len(raw) : raw[i].site = site}
  BY AllSeen DEF RecordsOf
<1>3. PICK i \in RecordsOf(site) :
        /\ byKey[site].kind = KindOf(i) /\ byKey[site].source = raw[i].source
        /\ \A j \in RecordsOf(site) : Priority[KindOf(j)] <= Priority[KindOf(i)]
  BY DEF DedupInv, StrongestRecordWins
<1>4. byKey[site].kind \in Kind
  BY <1>1, <1>2, <1>3
<1>5. ASSUME NEW j \in 1..Len(raw), raw[j].site = site, raw[j].kind = "taint"
      PROVE  byKey[site].kind = "taint"
  <2>1. KindOf(j) = "taint" /\ j \in RecordsOf(site)
    BY <1>1, <1>2, <1>5
  <2>2. Priority["taint"] <= Priority[byKey[site].kind]
    BY <1>3, <2>1
  <2> QED
    BY <1>4, <2>2, TaintIsStrongest
<1>6. byKey[site].kind = "taint" => \E j \in 1..Len(raw) :
        raw[j].site = site /\ raw[j].kind = "taint" /\ raw[j].source = byKey[site].source
  BY <1>1, <1>2, <1>3
<1> QED
  BY <1>4, <1>5, <1>6

\* What is merged from a list that carries rs presents rs.
LEMMA MergePresents ==
    ASSUME DedupInv, Finished, NEW rs, Carries(raw, rs), NEW s,
           s = [i \in 1..Len(order) |-> Stamp(JoernFinding(order[i]))]
    PROVE  Presents(s, rs)
<1>1. /\ Len(raw) \in Nat /\ Len(order) \in Nat
      /\ {order[i] : i \in 1..Len(order)} = {raw[i].site : i \in 1..Len(raw)}
      /\ \A i \in 1..Len(order) : order[i] \in DOMAIN byKey
      /\ \A i, j \in 1..Len(order) : order[i] = order[j] => i = j
  BY AllSeen
<1>2. Len(s) = Len(order)
  BY <1>1
<1>3. ASSUME NEW i \in 1..Len(order)
      PROVE  /\ s[i].site = order[i] /\ s[i].kind = byKey[order[i]].kind
             /\ s[i].source = byKey[order[i]].source
  BY DEF Stamp, JoernFinding
<1>4. \A i \in 1..Len(raw) : raw[i].kind \in Kind
  BY DEF Carries
<1>5. {s[i].site : i \in 1..Len(s)} = {r.site : r \in rs}
  <2>1. {s[i].site : i \in 1..Len(s)} = {order[i] : i \in 1..Len(order)}
    BY <1>2, <1>3
  <2> QED
    BY <1>1, <2>1 DEF Carries
<1>6. \A i \in 1..Len(s) : s[i].kind \in Kind
  BY <1>1, <1>2, <1>3, <1>4, KindOfFinding
<1>7. ASSUME NEW i \in 1..Len(s), s[i].kind = "taint"
      PROVE  \E r \in rs : r.kind = "taint" /\ r.site = s[i].site /\ r.source = s[i].source
  <2>1. order[i] \in DOMAIN byKey /\ byKey[order[i]].kind = "taint"
    BY <1>1, <1>2, <1>3, <1>7
  <2>2. PICK j \in 1..Len(raw) :
            raw[j].site = order[i] /\ raw[j].kind = "taint" /\ raw[j].source = byKey[order[i]].source
    BY <1>4, <2>1, KindOfFinding
  <2>3. PICK r \in rs : r.kind = "taint" /\ r.site = raw[j].site /\ r.source = raw[j].source
    BY <2>2 DEF Carries
  <2>4. s[i].site = order[i] /\ s[i].source = byKey[order[i]].source
    BY <1>2, <1>3
  <2> QED
    BY <2>2, <2>3, <2>4
<1>8. ASSUME NEW r \in rs, r.kind = "taint"
      PROVE  \E i \in 1..Len(s) : s[i].kind = "taint" /\ s[i].site = r.site
  <2>1. PICK j \in 1..Len(raw) : raw[j].kind = "taint" /\ raw[j].site = r.site
    BY <1>8 DEF Carries
  <2>2. PICK i \in 1..Len(order) : order[i] = raw[j].site
    BY <1>1
  <2>3. byKey[order[i]].kind = "taint"
    BY <1>1, <1>4, <2>1, <2>2, KindOfFinding
  <2>4. i \in 1..Len(s)
    BY <1>2
  <2>5. s[i].kind = "taint" /\ s[i].site = r.site
    BY <1>3, <2>1, <2>2, <2>3
  <2> QED
    BY <2>4, <2>5
<1>9. \A i, j \in 1..Len(s) : s[i].site = s[j].site => i = j
  BY <1>1, <1>2, <1>3
<1> QED
  BY <1>5, <1>6, <1>7, <1>8, <1>9 DEF Presents, Carries

\* The union starts with the taint flows that were merged, each call with a source of it.
LEMMA RebuiltCarries ==
    ASSUME DedupInv, Finished, \A i \in 1..Len(raw) : raw[i].kind = "taint", NEW s,
           s = [i \in 1..Len(order) |-> Rebuilt(order[i])]
    PROVE  Carries(s, Elements(raw))
<1>1. /\ Len(raw) \in Nat /\ Len(order) \in Nat /\ Seen = 1..Len(raw)
      /\ {order[i] : i \in 1..Len(order)} = {raw[i].site : i \in 1..Len(raw)}
      /\ \A i \in 1..Len(order) : order[i] \in DOMAIN byKey
  BY AllSeen
<1>2. Len(s) = Len(order)
  BY <1>1
<1>3. \A i \in 1..Len(raw) : raw[i].kind \in Kind
  BY DEF Kind
<1>4. ASSUME NEW i \in 1..Len(order)
      PROVE  s[i].site = order[i] /\ s[i].kind = "taint"
  <2>1. PICK j \in 1..Len(raw) : raw[j].site = order[i]
    BY <1>1
  <2>2. byKey[order[i]].kind = "taint"
    BY <1>1, <1>3, <2>1, KindOfFinding
  <2> QED
    BY <2>2 DEF Rebuilt, AsRecord
<1>5. ASSUME NEW i \in 1..Len(order)
      PROVE  \E j \in 1..Len(raw) : raw[j].site = order[i] /\ raw[j].source = s[i].source
  <2> PICK m : m = byKey[order[i]]
    OBVIOUS
  <2>1. s[i].source = IF m.sources # <<>> THEN m.sources[1] ELSE m.source
    BY DEF Rebuilt, AsRecord
  <2>2. CASE m.sources = <<>>
    <3>1. PICK j \in 1..Len(raw) :
              raw[j].site = order[i] /\ raw[j].kind = "taint" /\ raw[j].source = m.source
      BY <1>1, <1>3, <1>4, KindOfFinding DEF Rebuilt, AsRecord
    <3> QED
      BY <2>1, <2>2, <3>1
  <2>3. CASE m.sources # <<>>
    <3>1. m \in Merged
      BY <1>1 DEF DedupInv, DedupTypeOK
    <3>2. 1 \in 1..Len(m.sources)
      BY <2>3, <3>1 DEF Merged
    <3>3. m.sources[1] \in SourcesOf(order[i])
      BY <1>1, <3>2 DEF DedupInv, MergeIsExact
    <3> QED
      BY <1>1, <2>1, <2>3, <3>3 DEF SourcesOf, RecordsOf
  <2> QED
    BY <2>2, <2>3
<1>6. {s[i].site : i \in 1..Len(s)} = {r.site : r \in Elements(raw)}
  <2>1. {s[i].site : i \in 1..Len(s)} = {order[i] : i \in 1..Len(order)}
    BY <1>2, <1>4
  <2>2. {r.site : r \in Elements(raw)} = {raw[i].site : i \in 1..Len(raw)}
    BY DEF Elements
  <2> QED
    BY <1>1, <2>1, <2>2
<1>7. \A i \in 1..Len(s) : s[i].kind \in Kind
  BY <1>2, <1>4 DEF Kind
<1>8. ASSUME NEW i \in 1..Len(s)
      PROVE  \E r \in Elements(raw) : r.kind = "taint" /\ r.site = s[i].site /\ r.source = s[i].source
  <2>1. PICK j \in 1..Len(raw) : raw[j].site = s[i].site /\ raw[j].source = s[i].source
    BY <1>2, <1>4, <1>5
  <2>2. raw[j].kind = "taint" /\ raw[j] \in Elements(raw)
    BY DEF Elements
  <2> QED
    BY <2>1, <2>2
<1>9. \A r \in Elements(raw) : r.kind = "taint" => \E i \in 1..Len(s) : s[i].kind = "taint" /\ s[i].site = r.site
  <2> SUFFICES ASSUME NEW j \in 1..Len(raw) PROVE \E i \in 1..Len(s) : s[i].kind = "taint" /\ s[i].site = raw[j].site
    BY DEF Elements
  <2>1. PICK i \in 1..Len(order) : order[i] = raw[j].site
    BY <1>1
  <2> QED
    BY <1>2, <1>4, <2>1
<1> QED
  BY <1>6, <1>7, <1>8, <1>9 DEF Carries

\* The records of a recovery pass are added.
LEMMA MoreCarried ==
    ASSUME NEW s \in Seq(Record), NEW rs, Carries(s, rs), NEW more \in Seq(Record), NEW kind \in RecoveryKind,
           \A i \in 1..Len(more) : more[i].kind = kind
    PROVE  Carries(s \o more, rs \cup Elements(more))
<1> PICK t : t = s \o more
  OBVIOUS
<1>1. /\ Len(s) \in Nat /\ Len(more) \in Nat /\ Len(t) = Len(s) + Len(more)
      /\ \A i \in 1..Len(s) : t[i] = s[i]
      /\ \A i \in 1..Len(more) : t[Len(s) + i] = more[i]
  BY ConcatProperties
<1>2. kind \in Kind /\ kind # "taint"
  BY DEF RecoveryKind
<1>3. ASSUME NEW i \in 1..Len(t)
      PROVE  \/ i \in 1..Len(s) /\ t[i] = s[i]
             \/ i - Len(s) \in 1..Len(more) /\ t[i] = more[i - Len(s)]
  <2>1. CASE i <= Len(s)
    BY <1>1, <2>1
  <2>2. CASE ~(i <= Len(s))
    <3>1. i - Len(s) \in 1..Len(more) /\ Len(s) + (i - Len(s)) = i
      BY <1>1, <2>2
    <3>2. t[Len(s) + (i - Len(s))] = more[i - Len(s)]
      BY <1>1, <3>1
    <3> QED
      BY <3>1, <3>2
  <2> QED
    BY <2>1, <2>2
<1>4. \A i \in 1..Len(s) : i \in 1..Len(t)
  BY <1>1
<1>5. \A i \in 1..Len(more) : Len(s) + i \in 1..Len(t)
  BY <1>1
<1>6. {t[i].site : i \in 1..Len(t)} = {r.site : r \in rs \cup Elements(more)}
  <2> DEFINE of(u) == {u[i].site : i \in 1..Len(u)}
  <2>1. of(t) = of(s) \cup of(more)
    <3>1. ASSUME NEW x \in of(t) PROVE x \in of(s) \cup of(more)
      <4>1. PICK i \in 1..Len(t) : t[i].site = x
        OBVIOUS
      <4> QED
        BY <1>3, <4>1
    <3>2. ASSUME NEW x \in of(s) PROVE x \in of(t)
      <4>1. PICK i \in 1..Len(s) : s[i].site = x
        OBVIOUS
      <4>2. i \in 1..Len(t) /\ t[i] = s[i]
        BY <1>1, <1>4
      <4> QED
        BY <4>1, <4>2
    <3>3. ASSUME NEW x \in of(more) PROVE x \in of(t)
      <4>1. PICK i \in 1..Len(more) : more[i].site = x
        OBVIOUS
      <4>2. Len(s) + i \in 1..Len(t) /\ t[Len(s) + i] = more[i]
        BY <1>1, <1>5
      <4> QED
        BY <4>1, <4>2
    <3> HIDE DEF of
    <3> QED
      BY <3>1, <3>2, <3>3
  <2>2. {r.site : r \in rs \cup Elements(more)} = {r.site : r \in rs} \cup {more[i].site : i \in 1..Len(more)}
    BY DEF Elements
  <2> QED
    BY <2>1, <2>2 DEF Carries
<1>7. \A i \in 1..Len(t) : t[i].kind \in Kind
  BY <1>2, <1>3 DEF Carries
<1>8. \A i \in 1..Len(t) : t[i].kind = "taint" =>
        \E r \in rs \cup Elements(more) : r.kind = "taint" /\ r.site = t[i].site /\ r.source = t[i].source
  BY <1>2, <1>3 DEF Carries
<1>9. ASSUME NEW r \in rs \cup Elements(more), r.kind = "taint"
      PROVE  \E i \in 1..Len(t) : t[i].kind = "taint" /\ t[i].site = r.site
  <2>1. r \in rs
    BY <1>2, <1>9 DEF Elements
  <2>2. PICK i \in 1..Len(s) : s[i].kind = "taint" /\ s[i].site = r.site
    BY <1>9, <2>1 DEF Carries
  <2> QED
    BY <1>1, <1>4, <2>2
<1>10. Carries(t, rs \cup Elements(more))
  BY <1>6, <1>7, <1>8, <1>9 DEF Carries
<1> QED
  BY <1>10

LEMMA ReportedMore ==
    ASSUME NEW kinds, NEW kind, NEW catalog
    PROVE  Reported(kinds \cup {kind}, catalog) = Reported(kinds, catalog) \cup Elements(Found(kind, catalog))
  BY DEF Reported

LEMMA QuietKeepsQueries ==
    ASSUME QueryInv, UNCHANGED <<cfg, arm, agent, raw, union, failed, findings, cursor>>,
           pc' = pc \/ pc' \in {"done", "raised", "hung", "scan", "connect", "report"}
    PROVE  QueryInv'
<1>1. Through' = Through /\ Ran' = Ran
  BY DEF Through, Ran
<1> QED
  BY <1>1 DEF QueryInv

LEMMA ScanStartsQueries == ASSUME JoernScan PROVE QueryInv'
<1>1. /\ pc' = "strict" /\ agent' = CurrentAgent /\ failed' \in {{}, {"taint"}}
      /\ failed' = {} => raw' = StrictScan(CurrentAgent)
      /\ failed' # {} => raw' = <<>>
  BY DEF JoernScan, Parse
<1> QED
  BY <1>1 DEF QueryInv

LEMMA RebuildKeepsQueries ==
    ASSUME QueryInv, TypeInv, RebuildUnion, arm = "joern" PROVE QueryInv'
<1> PICK t : t = union'
  OBVIOUS
<1>1. /\ pc = "strict" /\ pc' = "recover" /\ cursor' = 1 /\ Finished
      /\ UNCHANGED <<cfg, agent, arm, failed>>
      /\ t = [i \in 1..Len(order) |-> Rebuilt(order[i])]
  BY DEF RebuildUnion
<1>2. failed \subseteq {"taint"} /\ raw = IF failed = {} THEN StrictScan(agent) ELSE <<>>
  BY <1>1 DEF QueryInv
<1>3. Elements(raw) = Reported({"taint"} \ failed, agent)
  <2>1. CASE failed = {}
    BY <1>2, <2>1 DEF Reported, Found
  <2>2. CASE failed = {"taint"}
    <3>1. Elements(raw) = {}
      BY <1>2, <2>2 DEF Elements
    <3> QED
      BY <2>2, <3>1 DEF Reported
  <2> QED
    BY <1>2, <2>1, <2>2
<1>4. ASSUME NEW i \in 1..Len(raw) PROVE raw[i].kind = "taint"
  <2>1. CASE failed = {}
    <3> PICK rs : rs = StrictScan(agent)
      OBVIOUS
    <3>1. \A j \in 1..Len(rs) : \E n \in StrictFlows(agent) :
            rs[j] = AsRecord(Flow[n].site, "taint", Flow[n].source)
      BY StrictScanReports
    <3>2. i \in 1..Len(rs) /\ raw[i] = rs[i]
      BY <1>2, <2>1
    <3>3. PICK n \in StrictFlows(agent) : rs[i] = AsRecord(Flow[n].site, "taint", Flow[n].source)
      BY <3>1, <3>2
    <3> QED
      BY <3>2, <3>3 DEF AsRecord
  <2>2. CASE failed # {}
    <3>1. raw = <<>> /\ Len(<<>>) = 0
      BY <1>2, <2>2
    <3> QED
      BY <3>1
  <2> QED
    BY <2>1, <2>2
<1>5. Carries(t, Elements(raw))
  BY <1>1, <1>4, RebuiltCarries DEF TypeInv
<1>6. Through' = {}
  BY <1>1 DEF Through
<1> HIDE DEF QueryInv
<1> QED
  BY <1>1, <1>2, <1>3, <1>5, <1>6 DEF QueryInv

LEMMA PassKeepsQueries ==
    ASSUME QueryInv, TypeInv, RecoveryPass, arm = "joern" PROVE QueryInv'
<1> DEFINE kind == Passes[cursor]
           ran == ({"taint"} \cup Through) \ failed
<1>1. /\ pc = "recover" /\ pc' = "recover" /\ cursor' = cursor + 1 /\ cursor \in 1..3
      /\ UNCHANGED <<cfg, agent, arm>>
      /\ failed \subseteq {"taint"} \cup Through /\ Carries(union, Reported(ran, agent))
  BY DEF RecoveryPass, QueryInv
<1>2. kind \in RecoveryKind /\ kind # "taint" /\ kind \notin Through
  BY <1>1 DEF Passes, RecoveryKind, Kind, Through
<1>3. Through' = Through \cup ({kind} \cap cfg.passes)
  BY <1>1 DEF Through, Passes
<1>4. kind \notin failed /\ Found(kind, agent) = RecoveryScan(kind, agent)
  BY <1>1, <1>2 DEF Found
<1>5. \/ kind \notin cfg.passes /\ UNCHANGED <<union, failed>>
      \/ kind \in cfg.passes /\ union' = union \o RecoveryScan(kind, agent) /\ UNCHANGED failed
      \/ kind \in cfg.passes /\ failed' = failed \cup {kind} /\ UNCHANGED union
  BY DEF RecoveryPass
<1> HIDE DEF kind
<1>6. CASE kind \notin cfg.passes /\ UNCHANGED <<union, failed>>
  <2>1. Through' = Through
    BY <1>3, <1>6
  <2> QED
    BY <1>1, <1>6, <2>1 DEF QueryInv
<1>7. CASE kind \in cfg.passes /\ union' = union \o RecoveryScan(kind, agent) /\ UNCHANGED failed
  <2> PICK more : more = RecoveryScan(kind, agent)
    OBVIOUS
  <2>1. more \in Seq(Record) /\ \A i \in 1..Len(more) : more[i].kind = kind
    BY <1>2, RecoveryScanTyped
  <2>2. union \in Seq(Record)
    BY DEF TypeInv, Types
  <2>3. Carries(union \o more, Reported(ran, agent) \cup Elements(more))
    BY <1>1, <1>2, <2>1, <2>2, MoreCarried
  <2>4. ({"taint"} \cup Through') \ failed' = ran \cup {kind}
    BY <1>2, <1>3, <1>4, <1>7
  <2>5. Reported(ran \cup {kind}, agent) = Reported(ran, agent) \cup Elements(more)
    BY <1>4, ReportedMore
  <2>6. failed' \subseteq {"taint"} \cup Through' /\ cursor' \in 1..4
    BY <1>1, <1>3, <1>7
  <2> QED
    BY <1>1, <1>7, <2>3, <2>4, <2>5, <2>6 DEF QueryInv
<1>8. CASE kind \in cfg.passes /\ failed' = failed \cup {kind} /\ UNCHANGED union
  <2>1. ({"taint"} \cup Through') \ failed' = ran
    BY <1>2, <1>3, <1>8
  <2>2. failed' \subseteq {"taint"} \cup Through'
    BY <1>1, <1>3, <1>8
  <2>3. cursor' \in 1..4
    BY <1>1
  <2> QED
    BY <1>1, <1>8, <2>1, <2>2, <2>3 DEF QueryInv
<1> QED
  BY <1>5, <1>6, <1>7, <1>8

LEMMA MergeKeepsQueries ==
    ASSUME QueryInv, TypeInv, MergeUnion, arm = "joern" PROVE QueryInv'
<1>1. /\ pc = "recover" /\ pc' = "merge" /\ cursor = 4 /\ raw' = union
      /\ UNCHANGED <<cfg, agent, arm, failed>>
  BY DEF MergeUnion, Parse
<1>2. cfg.passes \subseteq RecoveryKind
  BY StudyAssumption DEF TypeInv, ResultsInv, Position
<1>3. Through = cfg.passes
  <2>1. Passes[1] = "direct_sink" /\ Passes[2] = "relaxed" /\ Passes[3] = "def_use"
    BY DEF Passes
  <2>2. RecoveryKind \subseteq {Passes[i] : i \in {j \in 1..3 : j < 4}}
    BY <2>1 DEF RecoveryKind, Kind
  <2> QED
    BY <1>1, <1>2, <2>2 DEF Through
<1>4. Ran' = Ran /\ Ran = ({"taint"} \cup Through) \ failed
  BY <1>1, <1>3 DEF Ran
<1> QED
  BY <1>1, <1>4 DEF QueryInv

LEMMA ContextKeepsQueries ==
    ASSUME QueryInv, TypeInv, LoadContext, arm = "joern" PROVE QueryInv'
<1> PICK s : s = findings'
  OBVIOUS
<1>1. /\ pc = "merge" /\ pc' = "triage" /\ Finished
      /\ s = [i \in 1..Len(order) |-> Stamp(JoernFinding(order[i]))]
      /\ UNCHANGED <<cfg, agent, arm, failed>>
  BY DEF LoadContext
<1>2. Carries(raw, Reported(Ran, agent))
  BY <1>1 DEF QueryInv
<1>3. Presents(s, Reported(Ran, agent))
  BY <1>1, <1>2, MergePresents DEF TypeInv
<1>4. Ran' = Ran
  BY <1>1 DEF Ran
<1> QED
  BY <1>1, <1>3, <1>4 DEF QueryInv

LEMMA QueriesInductive == QueryInv /\ TypeInv /\ [Next]_vars => QueryInv'
<1> SUFFICES ASSUME QueryInv, TypeInv, [Next]_vars PROVE QueryInv'
  OBVIOUS
<1> USE DEF scanning
<1>1. CASE Connect \/ NothingToRefine
  BY <1>1, QuietKeepsQueries DEF Connect, NothingToRefine, dedupVars
<1>2. CASE MessageRaises \/ ContextRaises \/ TriageUnavailable \/ NotAnObject
  <2>1. Raise
    BY <1>2 DEF MessageRaises, ContextRaises, TriageUnavailable, NotAnObject
  <2> QED
    BY <2>1, QuietKeepsQueries DEF Raise, dedupVars
<1>3. CASE SemgrepScan \/ (arm # "joern" /\ arm' = arm)
  BY <1>3 DEF SemgrepScan, QueryInv
<1>4. CASE JoernScan
  BY <1>4, ScanStartsQueries
<1>5. CASE MergeRecord
  BY <1>5, QuietKeepsQueries DEF MergeRecord, MergeNext, FirstHit, StrongerHit, WeakerHit, MergeItem
<1>6. CASE arm = "joern" /\ RebuildUnion
  BY <1>6, RebuildKeepsQueries
<1>7. CASE arm = "joern" /\ RecoveryPass
  BY <1>7, PassKeepsQueries
<1>8. CASE arm = "joern" /\ MergeUnion
  BY <1>8, MergeKeepsQueries
<1>9. CASE arm = "joern" /\ LoadContext
  BY <1>9, ContextKeepsQueries
<1>10. CASE TriageFinding \/ TriageCallFails \/ TriageBaseline
  <2>1. \E judgement : Judged(judgement)
    BY <1>10 DEF TriageFinding, TriageCallFails, TriageBaseline
  <2> QED
    BY <2>1, QuietKeepsQueries DEF Judged, dedupVars
<1>11. CASE TriageDone \/ QueryCallGraph
  <2>1. /\ pc \in {"triage", "refine"} /\ pc' \in {"refine", "classify"}
        /\ UNCHANGED <<cfg, arm, agent, failed, findings>>
    BY <1>11 DEF TriageDone, QueryCallGraph
  <2>2. Ran' = Ran
    BY <2>1 DEF Ran
  <2> QED
    BY <2>1, <2>2 DEF QueryInv
<1>12. CASE RefineRules \/ ClassifyHelpers \/ RefinementCallFails
  <2>1. pc' = "report"
    BY <1>12 DEF RefineRules, ClassifyHelpers, RefinementCallFails, RefinementCall
  <2> QED
    BY <2>1 DEF QueryInv
<1>13. CASE Report
  <2>1. pc' \in {"scan", "connect", "done"}
    BY <1>13 DEF Report
  <2> QED
    BY <2>1 DEF QueryInv
<1>14. CASE UNCHANGED vars
  BY <1>14, QuietKeepsQueries DEF vars, dedupVars
<1>15. CASE arm # "joern" /\ (RebuildUnion \/ RecoveryPass \/ MergeUnion \/ LoadContext)
  BY <1>15 DEF RebuildUnion, RecoveryPass, MergeUnion, LoadContext, QueryInv
<1>16. CASE Hang \/ BudgetSpent
  <2>1. Stopped
    BY <1>16, HangOrCancelStops
  <2> QED
    BY <2>1, QuietKeepsQueries DEF Stopped, dedupVars
<1> QED
  BY <1>1, <1>2, <1>3, <1>4, <1>5, <1>6, <1>7, <1>8, <1>9, <1>10, <1>11, <1>12, <1>13, <1>14, <1>15, <1>16
     DEF Next

LEMMA QueriesAlways == Spec => [](TypeInv /\ QueryInv)
<1>1. Init => QueryInv
  BY DEF Init, QueryInv
<1> QED
  BY <1>1, QueriesInductive, TypeInvariant, PTL DEF Spec

\* The Joern arm hands to the triage each call that a query reported, once, and as a
\* taint flow from a source it was reached from when the strict query reached it: neither
\* the merge of the strict flows, nor the union with the recovery passes, nor the second
\* merge loses a call, in whatever order the queries report and whichever of them fail.
THEOREM CandidatesAreKept == Spec => []CandidatesKept
<1>1. TypeInv /\ QueryInv => CandidatesKept
  <2> DEFINE F(kind) == IF kind = "taint" THEN StrictScan(agent) ELSE RecoveryScan(kind, agent)
             records == UNION {{F(kind)[i] : i \in 1..Len(F(kind))} : kind \in ({"taint"} \cup cfg.passes) \ failed}
  <2> SUFFICES ASSUME TypeInv, QueryInv, arm = "joern", pc = "triage"
               PROVE  /\ SitesOf(Kind) = {r.site : r \in records}
                      /\ \A i, j \in 1..Len(findings) : findings[i].site = findings[j].site => i = j
                      /\ \A r \in records : r.kind = "taint" =>
                            \E i \in 1..Len(findings) :
                                /\ findings[i].site = r.site /\ findings[i].kind = "taint"
                                /\ \E s \in records : s.kind = "taint" /\ s.site = r.site
                                                        /\ s.source = findings[i].source
    BY DEF CandidatesKept
  <2>1. records = Reported(Ran, agent)
    BY DEF Reported, Ran, Elements, Found
  <2> HIDE DEF records
  <2>2. Presents(findings, records)
    BY <2>1 DEF QueryInv
  <2>3. SitesOf(Kind) = {findings[i].site : i \in 1..Len(findings)}
    BY <2>2 DEF Presents, Carries, SitesOf
  <2>4. ASSUME NEW r \in records, r.kind = "taint"
        PROVE  \E i \in 1..Len(findings) :
                    /\ findings[i].site = r.site /\ findings[i].kind = "taint"
                    /\ \E s \in records : s.kind = "taint" /\ s.site = r.site /\ s.source = findings[i].source
    <3>1. PICK i \in 1..Len(findings) : findings[i].kind = "taint" /\ findings[i].site = r.site
      BY <2>2, <2>4 DEF Presents, Carries
    <3>2. PICK s \in records :
            s.kind = "taint" /\ s.site = findings[i].site /\ s.source = findings[i].source
      BY <2>2, <3>1 DEF Presents, Carries
    <3> QED
      BY <3>1, <3>2
  <2> QED
    BY <2>2, <2>3, <2>4 DEF Presents, Carries
<1> QED
  BY <1>1, QueriesAlways, PTL

-----------------------------------------------------------------------------
(* What the iterations find, one after the other. *)

\* The catalog c is part of the catalog d.
Below(c, d) == \A list \in Lists : c[list] \subseteq d[list]

FiniteLists(catalog) == \A list \in Lists : IsFiniteSet(catalog[list])

\* The calls a scan reports: those the strict query reaches, those of all the queries,
\* those the rules match.
StrictSites(catalog) == {r.site : r \in Reported({"taint"}, catalog)}
AllSites(catalog) == {r.site : r \in Reported({"taint"} \cup cfg.passes, catalog)}
HitSites(rs) == {SemgrepHits(rs)[i] : i \in 1..Len(SemgrepHits(rs))}

\* The findings are those of a scan with this catalog, unless a query failed.
ScanOf(catalog) == failed = {} =>
    SitesOf({"taint"}) = StrictSites(catalog) /\ SitesOf(Kind \cup {"rule"}) = AllSites(catalog)

\* The last result is one of this arm, is complete, and says that nothing changed.
Unchanged(which) ==
    /\ Len(results) > 0 /\ results[Len(results)].arm = which
    /\ results[Len(results)].intact /\ ~results[Len(results)].changed

\* What the results so far have to do with the rules, or the catalog, of the next one.
PriorRules(rs) == Unchanged("semgrep") => results[Len(results)].sites = HitSites(rs)
PriorCatalog(catalog) ==
    /\ \A i \in 1..Len(results) : results[i].arm = "joern" /\ results[i].intact =>
        results[i].taint \subseteq StrictSites(catalog)
    /\ Unchanged("joern") => results[Len(results)].sites = AllSites(catalog)

SemgrepNews == arm = "semgrep" =>
    /\ pc \in {"scan", "triage", "refine", "report", "hung", "done", "raised"}
    /\ pc = "scan" => PriorRules(rules)
    /\ pc \in {"triage", "refine", "report"} =>
        PriorRules(pre.rules) /\ (failed = {} => SitesOf(Kind \cup {"rule"}) = HitSites(pre.rules))
    /\ pc \in {"triage", "refine"} => rules = pre.rules

Scanning == {"strict", "recover", "merge", "triage", "refine", "classify"}

JoernNews == arm = "joern" =>
    /\ pc \in {"connect", "scan"} => PriorCatalog(CurrentAgent)
    /\ pc \in Scanning => Below(pre.catalog, agent) /\ PriorCatalog(agent)
    /\ pc = "report" => \E catalog \in Catalogs :
        Below(pre.catalog, catalog) /\ Below(catalog, agent) /\ PriorCatalog(catalog) /\ ScanOf(catalog)

NewsInv ==
    /\ HitsPersist /\ NoChangeNoNews
    /\ SemgrepNews /\ JoernNews
    /\ agent # NoAgent => FiniteLists(agent)
    /\ pre \in [rules : Seq(Rule), catalog : Catalogs]

\* A larger catalog reaches more.
LEMMA StrictFlowsGrow ==
    ASSUME NEW c, NEW d, Below(c, d)
    PROVE  StrictSites(c) \subseteq StrictSites(d)
<1>1. c.sinks \subseteq d.sinks /\ c.sources \subseteq d.sources
  BY DEF Below, Lists
<1>2. \A site : IsSinkCall(site, c.sinks) => IsSinkCall(site, d.sinks)
  BY <1>1 DEF IsSinkCall, Tails
<1>3. \A f : StrictSource(f, c.sources) => StrictSource(f, d.sources)
  <2>1. CallSources(c.sources) \subseteq CallSources(d.sources)
    BY <1>1 DEF CallSources, Tails
  <2> QED
    BY <1>1, <2>1 DEF StrictSource
<1>4. StrictFlows(c) \subseteq StrictFlows(d)
  BY <1>2, <1>3 DEF StrictFlows
<1> PICK rs : rs = StrictScan(c)
  OBVIOUS
<1> PICK qs : qs = StrictScan(d)
  OBVIOUS
<1>5. \A i \in 1..Len(rs) : \E n \in StrictFlows(c) : rs[i] = AsRecord(Flow[n].site, "taint", Flow[n].source)
  BY StrictScanReports
<1>6. \A n \in StrictFlows(d) : \E i \in 1..Len(qs) : qs[i] = AsRecord(Flow[n].site, "taint", Flow[n].source)
  BY StrictScanReports
<1>7. Elements(rs) \subseteq Elements(qs)
  BY <1>4, <1>5, <1>6 DEF Elements
<1> QED
  BY <1>7 DEF StrictSites, Reported, Found

LEMMA BelowItself == \A c : Below(c, c)
  BY DEF Below

LEMMA BelowBelow ==
    ASSUME NEW b, NEW c, NEW d, Below(b, c), Below(c, d) PROVE Below(b, d)
  BY DEF Below

\* What is not larger, list by list, is the same.
LEMMA NotGrown ==
    ASSUME NEW before, NEW c \in Catalogs, NEW after \in Catalogs, FiniteLists(after),
           Below(before, c), Below(c, after),
           \A list \in Lists : ~(Cardinality(after[list]) > Cardinality(before[list]))
    PROVE  c = after
<1>1. ASSUME NEW list \in Lists PROVE c[list] = after[list]
  <2>1. before[list] \in SUBSET after[list] /\ IsFiniteSet(after[list])
    BY DEF Below, FiniteLists
  <2>2. /\ IsFiniteSet(before[list]) /\ Cardinality(before[list]) <= Cardinality(after[list])
        /\ Cardinality(before[list]) = Cardinality(after[list]) => before[list] = after[list]
    BY <2>1, FS_Subset
  <2>3. Cardinality(before[list]) \in Nat /\ Cardinality(after[list]) \in Nat
    BY <2>1, <2>2, FS_CardinalityType
  <2>4. before[list] = after[list]
    BY <2>2, <2>3
  <2> QED
    BY <2>4 DEF Below
<1>2. c.sources = after.sources /\ c.sinks = after.sinks /\ c.sanitizers = after.sanitizers
  BY <1>1 DEF Lists
<1> QED
  BY <1>2 DEF Catalogs

LEMMA SanitizeIsFinite ==
    ASSUME NEW names, IsFiniteSet(names) PROVE IsFiniteSet(Sanitize(names))
<1> DEFINE image == {Cleaned[n] : n \in names}
           f == [n \in names |-> Cleaned[n]]
<1>0. f \in Surjection(names, image)
  BY DEF Surjection
<1>1. IsFiniteSet(image)
  <2> HIDE DEF image, f
  <2> QED
    BY <1>0, FS_Surjection
<1> QED
  BY <1>1, FS_Subset DEF Sanitize

LEMMA SeedIsFinite == FiniteLists(SeedCatalog)
<1>1. IsFiniteSet(Seed.sources) /\ IsFiniteSet(Seed.sinks) /\ IsFiniteSet(Seed.sanitizers)
  BY StudyAssumption
<1> QED
  BY <1>1, SanitizeIsFinite DEF FiniteLists, SeedCatalog, Lists

\* A classification only adds names to the lists, and finitely many.
LEMMA ClassifyAddsNames ==
    ASSUME ClassifyHelpers, agent \in Catalogs, FiniteLists(agent)
    PROVE  Below(agent, agent') /\ FiniteLists(agent')
<1>1. PICK reply \in HelperReplies :
        agent' = ExpandCatalog(agent, [
            sources |-> reply.sources,
            sinks |-> {n \in reply.sinks :
                VerifySinkWrapper(n, Callers[CallName[findings[cursor].site]], agent.sinks, reply.cited[n])},
            sanitizers |-> reply.sanitizers])
  BY DEF ClassifyHelpers
<1>2. IsFiniteSet(reply.sources) /\ IsFiniteSet(reply.sinks) /\ IsFiniteSet(reply.sanitizers)
  BY StudyAssumption
<1> DEFINE accepted == {n \in reply.sinks :
                VerifySinkWrapper(n, Callers[CallName[findings[cursor].site]], agent.sinks, reply.cited[n])}
           new == [sources |-> reply.sources, sinks |-> accepted, sanitizers |-> reply.sanitizers]
<1>3. IsFiniteSet(accepted)
  <2>1. accepted \in SUBSET reply.sinks
    OBVIOUS
  <2> HIDE DEF accepted
  <2> QED
    BY <1>2, <2>1, FS_Subset
<1>4. agent' = ExpandCatalog(agent, new)
  BY <1>1
<1>5. \A list \in Lists : IsFiniteSet(new[list])
  <2> HIDE DEF accepted
  <2> QED
    BY <1>2, <1>3 DEF Lists
<1> HIDE DEF new
<1>6. DOMAIN agent = Lists
  BY DEF Catalogs, Lists
<1>7. ASSUME NEW list \in Lists PROVE agent'[list] = agent[list] \cup Sanitize(new[list])
  BY <1>4, <1>6, Zenon DEF ExpandCatalog
<1>8. ASSUME NEW list \in Lists PROVE IsFiniteSet(agent'[list])
  <2>1. IsFiniteSet(agent[list]) /\ IsFiniteSet(Sanitize(new[list]))
    BY <1>5, SanitizeIsFinite DEF FiniteLists
  <2> QED
    BY <1>7, <2>1, FS_Union
<1> QED
  BY <1>7, <1>8 DEF Below, FiniteLists

\* The findings of an iteration no query of which failed are those of its scan.
LEMMA FindingsOfScan ==
    ASSUME TypeInv, QueryInv, arm = "joern", pc \in {"triage", "refine", "classify"}
    PROVE  ScanOf(agent)
<1> SUFFICES ASSUME failed = {}
             PROVE  /\ SitesOf({"taint"}) = StrictSites(agent)
                    /\ SitesOf(Kind \cup {"rule"}) = AllSites(agent)
  BY DEF ScanOf
<1>1. Presents(findings, Reported({"taint"} \cup cfg.passes, agent))
  BY DEF QueryInv, Ran
<1> PICK rs : rs = Reported({"taint"} \cup cfg.passes, agent)
  OBVIOUS
<1>2. cfg.passes \subseteq RecoveryKind
  BY StudyAssumption DEF TypeInv, ResultsInv, Position
<1>3. \A r \in Reported({"taint"}, agent) : r \in rs /\ r.kind = "taint"
  <2> PICK qs : qs = StrictScan(agent)
    OBVIOUS
  <2>1. Reported({"taint"}, agent) = Elements(qs) /\ Elements(qs) \subseteq rs
    BY DEF Reported, Found
  <2>2. \A i \in 1..Len(qs) : \E n \in StrictFlows(agent) : qs[i] = AsRecord(Flow[n].site, "taint", Flow[n].source)
    BY StrictScanReports
  <2>3. ASSUME NEW i \in 1..Len(qs) PROVE qs[i].kind = "taint"
    <3>1. PICK n \in StrictFlows(agent) : qs[i] = AsRecord(Flow[n].site, "taint", Flow[n].source)
      BY <2>2
    <3> QED
      BY <3>1 DEF AsRecord
  <2> QED
    BY <2>1, <2>3 DEF Elements
<1>4. ASSUME NEW r \in rs, r.kind = "taint" PROVE r \in Reported({"taint"}, agent)
  <2>1. PICK kind \in {"taint"} \cup cfg.passes : r \in Elements(Found(kind, agent))
    BY DEF Reported
  <2>2. CASE kind = "taint"
    BY <2>1, <2>2 DEF Reported
  <2>3. CASE kind # "taint"
    <3> PICK qs : qs = RecoveryScan(kind, agent)
      OBVIOUS
    <3>1. kind \in RecoveryKind
      BY <1>2, <2>1, <2>3
    <3>2. \A i \in 1..Len(qs) : qs[i].kind = kind
      BY <3>1, RecoveryScanTyped
    <3>3. r \in Elements(qs)
      BY <2>1, <2>3 DEF Found
    <3> QED
      BY <1>4, <2>3, <3>2, <3>3 DEF Elements
  <2> QED
    BY <2>2, <2>3
<1>5. /\ {findings[i].site : i \in 1..Len(findings)} = {r.site : r \in rs}
      /\ \A i \in 1..Len(findings) : findings[i].kind \in Kind
      /\ \A i \in 1..Len(findings) : findings[i].kind = "taint" =>
            \E r \in rs : r.kind = "taint" /\ r.site = findings[i].site
      /\ \A r \in rs : r.kind = "taint" =>
            \E i \in 1..Len(findings) : findings[i].kind = "taint" /\ findings[i].site = r.site
  BY <1>1 DEF Presents, Carries
<1>6. SitesOf(Kind \cup {"rule"}) = AllSites(agent)
  BY <1>5 DEF SitesOf, AllSites
<1>7. ASSUME NEW x \in SitesOf({"taint"}) PROVE x \in StrictSites(agent)
  <2>1. PICK i \in 1..Len(findings) : findings[i].kind = "taint" /\ findings[i].site = x
    BY DEF SitesOf
  <2>2. PICK r \in rs : r.kind = "taint" /\ r.site = x
    BY <1>5, <2>1
  <2> QED
    BY <1>4, <2>2 DEF StrictSites
<1>8. ASSUME NEW x \in StrictSites(agent) PROVE x \in SitesOf({"taint"})
  <2>1. PICK r \in Reported({"taint"}, agent) : r.site = x
    BY DEF StrictSites
  <2>2. PICK i \in 1..Len(findings) : findings[i].kind = "taint" /\ findings[i].site = x
    BY <1>3, <1>5, <2>1
  <2> QED
    BY <2>2 DEF SitesOf
<1> QED
  BY <1>6, <1>7, <1>8

\* The results stay in order when the new one agrees with the last.
LEMMA NewRow ==
    ASSUME HitsPersist, NoChangeNoNews, IsSequence(results), NEW r, results' = Append(results, r),
           ASSUME Len(results) > 0, results[Len(results)].arm = r.arm,
                  results[Len(results)].intact, r.intact
           PROVE  /\ ~results[Len(results)].changed => results[Len(results)].sites = r.sites
                  /\ r.arm = "joern" => results[Len(results)].taint \subseteq r.taint
    PROVE  HitsPersist' /\ NoChangeNoNews'
<1>1. /\ IsSequence(results') /\ Len(results) \in Nat /\ Len(results') = Len(results) + 1
      /\ \A i \in 1..Len(results) : results'[i] = results[i]
      /\ results'[Len(results) + 1] = r
  BY AppendedSequence
<1>2. ASSUME NEW i \in 1..Len(results'), Consecutive(i)'
      PROVE  /\ ~results'[i].changed => results'[i].sites = results'[i + 1].sites
             /\ results'[i].arm = "joern" => results'[i].taint \subseteq results'[i + 1].taint
  <2>1. /\ i + 1 \in 1..Len(results') /\ results'[i].arm = results'[i + 1].arm
        /\ results'[i].intact /\ results'[i + 1].intact
    BY <1>2 DEF Consecutive
  <2>2. CASE i + 1 \in 1..Len(results)
    <3>1. i \in 1..Len(results)
      BY <1>1, <2>2
    <3>2. results'[i] = results[i] /\ results'[i + 1] = results[i + 1]
      BY <1>1, <2>2, <3>1
    <3>3. Consecutive(i)
      BY <2>1, <2>2, <3>2 DEF Consecutive
    <3> QED
      BY <3>1, <3>2, <3>3 DEF HitsPersist, NoChangeNoNews
  <2>3. CASE ~(i + 1 \in 1..Len(results))
    <3>1. i = Len(results) /\ Len(results) > 0 /\ i \in 1..Len(results)
      BY <1>1, <2>1, <2>3
    <3>2. results'[i] = results[Len(results)] /\ results'[i + 1] = r
      BY <1>1, <3>1
    <3> QED
      BY <2>1, <3>1, <3>2
  <2> QED
    BY <2>2, <2>3
<1> QED
  BY <1>2 DEF HitsPersist, NoChangeNoNews

\* What the invariant says of the results depends on them and the configuration alone.
LEMMA SameResults ==
    ASSUME UNCHANGED <<cfg, results>>
    PROVE  /\ HitsPersist' = HitsPersist /\ NoChangeNoNews' = NoChangeNoNews
           /\ \A c : PriorCatalog(c)' = PriorCatalog(c)
           /\ \A rs : PriorRules(rs)' = PriorRules(rs)
<1>1. HitsPersist' = HitsPersist /\ NoChangeNoNews' = NoChangeNoNews
  BY DEF HitsPersist, NoChangeNoNews, Consecutive
<1>2. \A c : PriorCatalog(c)' = PriorCatalog(c)
  BY DEF PriorCatalog, Unchanged, AllSites
<1>3. \A rs : PriorRules(rs)' = PriorRules(rs)
  BY DEF PriorRules, Unchanged
<1> QED
  BY <1>1, <1>2, <1>3

\* A step within the scan, the triage and the refinement.
LEMMA QuietKeepsNews ==
    ASSUME NewsInv, UNCHANGED <<cfg, arm, rules, agent, pre, results>>,
           arm = "joern" \/ arm = "semgrep",
           arm = "joern" => \/ pc \in Scanning /\ pc' \in Scanning
                            \/ pc = "connect" /\ pc' = "scan"
                            \/ pc' = pc /\ UNCHANGED <<findings, failed>>,
           arm = "semgrep" =>
                /\ UNCHANGED <<findings, failed>>
                /\ pc' = pc \/ (pc \in {"triage", "refine"} /\ pc' \in {"triage", "refine"})
    PROVE  NewsInv'
<1>1. CASE arm = "joern" /\ pc \in Scanning /\ pc' \in Scanning
  <2>1. PriorCatalog(agent)' = PriorCatalog(agent)
    BY DEF PriorCatalog, Unchanged, AllSites
  <2> QED
    BY <1>1, <2>1, SameResults DEF NewsInv, SemgrepNews, JoernNews, Scanning
<1>2. CASE arm = "joern" /\ pc = "connect" /\ pc' = "scan"
  <2>1. PriorCatalog(CurrentAgent)' = PriorCatalog(CurrentAgent)
    BY DEF PriorCatalog, Unchanged, AllSites, CurrentAgent
  <2> QED
    BY <1>2, <2>1, SameResults DEF NewsInv, SemgrepNews, JoernNews, Scanning
<1>3. CASE arm = "joern" /\ pc' = pc /\ UNCHANGED <<findings, failed>>
  <2>1. PriorCatalog(CurrentAgent)' = PriorCatalog(CurrentAgent) /\ PriorCatalog(agent)' = PriorCatalog(agent)
    BY DEF PriorCatalog, Unchanged, AllSites, CurrentAgent
  <2>2. \A c : ScanOf(c)' = ScanOf(c)
    BY <1>3 DEF ScanOf, SitesOf, AllSites
  <2> QED
    BY <1>3, <2>1, <2>2, SameResults DEF NewsInv, SemgrepNews, JoernNews
<1>4. CASE arm = "semgrep"
  <2>1. UNCHANGED <<findings, failed>> /\ (pc' = pc \/ (pc \in {"triage", "refine"} /\ pc' \in {"triage", "refine"}))
    BY <1>4
  <2>2. PriorRules(rules)' = PriorRules(rules) /\ PriorRules(pre.rules)' = PriorRules(pre.rules)
    BY DEF PriorRules, Unchanged
  <2>3. SitesOf(Kind \cup {"rule"})' = SitesOf(Kind \cup {"rule"})
    BY <2>1 DEF SitesOf
  <2>4. SemgrepNews
    BY DEF NewsInv
  <2>5. SemgrepNews'
    BY <1>4, <2>1, <2>2, <2>3, <2>4 DEF SemgrepNews
  <2> QED
    BY <1>4, <2>5, SameResults DEF NewsInv, JoernNews
<1> QED
  BY <1>1, <1>2, <1>3, <1>4

\* An arm that ends leaves the results as they are, adds an error or loses them.
LEMMA EndKeepsNews ==
    ASSUME NewsInv, IsSequence(results), pc' \in {"done", "raised", "hung"},
           UNCHANGED <<cfg, arm, agent, pre>>,
           \/ results' = <<>>
           \/ results' = results
           \/ results' = Append(results, ErrorRow)
    PROVE  NewsInv'
<1>1. HitsPersist' /\ NoChangeNoNews'
  <2>1. CASE results' = <<>>
    BY <2>1, EmptySequence DEF HitsPersist, NoChangeNoNews
  <2>2. CASE results' = results
    BY <2>2 DEF NewsInv, HitsPersist, NoChangeNoNews, Consecutive
  <2>3. CASE results' = Append(results, ErrorRow)
    <3>1. ~ErrorRow.intact
      BY DEF ErrorRow
    <3> PICK r : r = ErrorRow
      OBVIOUS
    <3> QED
      BY <2>3, <3>1, NewRow DEF NewsInv
  <2> QED
    BY <2>1, <2>2, <2>3
<1> QED
  BY <1>1 DEF NewsInv, SemgrepNews, JoernNews, Scanning

\* The refinement is over.
LEMMA RefinedKeepsNews ==
    ASSUME NewsInv, TypeInv, QueryInv, pc \in {"refine", "classify"}, pc' = "report",
           UNCHANGED <<cfg, arm, pre, failed, findings, results>>,
           \/ agent' = agent
           \/ arm = "joern" /\ Below(agent, agent') /\ FiniteLists(agent')
    PROVE  NewsInv'
<1>1. arm = "joern" \/ arm = "semgrep"
  BY DEF TypeInv, ResultsInv, Position
<1>2. CASE arm = "joern"
  <2> PICK c : c = agent
    OBVIOUS
  <2>1. c \in Catalogs
    BY <1>2 DEF TypeInv, AgentInv, HasAgent, Good
  <2>2. c # NoAgent
    BY <2>1, StudyAssumption DEF Catalogs
  <2>3. Below(pre.catalog, c) /\ PriorCatalog(c)
    BY <1>2 DEF NewsInv, JoernNews, Scanning
  <2>4. ScanOf(c)
    BY <1>2, FindingsOfScan
  <2>5. PriorCatalog(c)' /\ ScanOf(c)'
    <3>1. PriorCatalog(c)'
      BY <2>3 DEF PriorCatalog, Unchanged, AllSites
    <3>2. ScanOf(c)'
      BY <2>4 DEF ScanOf, SitesOf, AllSites
    <3> QED
      BY <3>1, <3>2
  <2>6. Below(c, agent') /\ FiniteLists(agent')
    BY <2>2, BelowItself DEF NewsInv
  <2>7. JoernNews'
    BY <2>1, <2>3, <2>5, <2>6 DEF JoernNews, Scanning
  <2> QED
    BY <1>2, <2>6, <2>7, SameResults DEF NewsInv, SemgrepNews
<1>3. CASE arm = "semgrep"
  <2>1. PriorRules(pre.rules)' = PriorRules(pre.rules)
    BY DEF PriorRules, Unchanged
  <2>2. SitesOf(Kind \cup {"rule"})' = SitesOf(Kind \cup {"rule"})
    BY DEF SitesOf
  <2>3. SemgrepNews
    BY DEF NewsInv
  <2>4. SemgrepNews'
    BY <1>3, <2>1, <2>2, <2>3 DEF SemgrepNews
  <2> QED
    BY <1>3, <2>4, SameResults DEF NewsInv, JoernNews
<1> QED
  BY <1>1, <1>2, <1>3

\* The scans find what the rules and the catalogs say.
LEMMA SemgrepScanKeepsNews ==
    ASSUME NewsInv, TypeInv, SemgrepScan PROVE NewsInv'
<1>1. /\ arm = "semgrep" /\ pc = "scan" /\ pc' = "triage" /\ UNCHANGED <<cfg, arm, rules, agent, results>>
      /\ pre' = [pre EXCEPT !.rules = rules]
  BY DEF SemgrepScan
<1>2. pre' \in [rules : Seq(Rule), catalog : Catalogs] /\ pre'.rules = rules
  BY <1>1 DEF NewsInv, TypeInv, Types
<1>3. failed' = {} => SitesOf(Kind \cup {"rule"})' = HitSites(rules)
  <2> SUFFICES ASSUME failed' = {} PROVE SitesOf(Kind \cup {"rule"})' = HitSites(rules)
    OBVIOUS
  <2> PICK hits : hits = SemgrepHits(rules)
    OBVIOUS
  <2> PICK fs : fs = findings'
    OBVIOUS
  <2>1. hits \in Seq(Site) /\ Len(hits) \in Nat
    BY HitsAreSites DEF TypeInv, Types
  <2>2. fs = [i \in 1..Len(hits) |-> Stamp(SemgrepFinding(hits[i]))]
    BY DEF SemgrepScan
  <2>3. Len(fs) = Len(hits)
    BY <2>1, <2>2
  <2>4. ASSUME NEW i \in 1..Len(hits)
        PROVE  fs[i].site = hits[i] /\ fs[i].kind = "rule"
    <3>1. hits[i] \in Site /\ <<>> \in Seq(Source)
      BY <2>1
    <3> PICK f : f = SemgrepFinding(hits[i])
      OBVIOUS
    <3>2. f \in Findings /\ f.site = hits[i] /\ f.kind = "rule"
      BY <3>1 DEF SemgrepFinding, Findings
    <3>3. Stamp(f).site = f.site /\ Stamp(f).kind = f.kind
      BY <3>2, StampedFinding
    <3>4. fs[i] = Stamp(f)
      BY <2>2
    <3> QED
      BY <3>2, <3>3, <3>4
  <2>5. SitesOf(Kind \cup {"rule"})' = {fs[i].site : i \in {j \in 1..Len(fs) : fs[j].kind \in Kind \cup {"rule"}}}
    BY DEF SitesOf
  <2>6. {j \in 1..Len(fs) : fs[j].kind \in Kind \cup {"rule"}} = 1..Len(hits)
    BY <2>3, <2>4
  <2>7. {fs[i].site : i \in 1..Len(hits)} = {hits[i] : i \in 1..Len(hits)}
    BY <2>4
  <2>8. SitesOf(Kind \cup {"rule"})' = {fs[i].site : i \in 1..Len(hits)}
    BY <2>5, <2>6
  <2>9. HitSites(rules) = {hits[i] : i \in 1..Len(hits)}
    BY DEF HitSites
  <2> QED
    BY <2>7, <2>8, <2>9
<1>4. PriorRules(rules)' = PriorRules(rules)
  BY <1>1 DEF PriorRules, Unchanged
<1>5. PriorRules(rules)
  BY <1>1 DEF NewsInv, SemgrepNews
<1>6. PriorRules(pre.rules)' = PriorRules(rules)'
  BY <1>1, <1>2 DEF PriorRules
<1>7. SemgrepNews'
  BY <1>1, <1>2, <1>3, <1>4, <1>5, <1>6 DEF SemgrepNews
<1> QED
  BY <1>1, <1>2, <1>7, SameResults DEF NewsInv, JoernNews

LEMMA JoernScanKeepsNews ==
    ASSUME NewsInv, TypeInv, JoernScan PROVE NewsInv'
<1>1. /\ arm = "joern" /\ pc = "scan" /\ pc' = "strict" /\ UNCHANGED <<cfg, arm, rules, results>>
      /\ pre' = [pre EXCEPT !.catalog = CatalogPre] /\ agent' = CurrentAgent
  BY DEF JoernScan
<1>2. agent # NoAgent => agent \in Catalogs
  BY DEF TypeInv, AgentInv, Good
<1>3. CatalogPre \in Catalogs /\ Below(CatalogPre, CurrentAgent)
  <2>1. EmptyCatalog \in Catalogs /\ \A c : Below(EmptyCatalog, c)
    BY DEF EmptyCatalog, Catalogs, Below, Lists
  <2> QED
    BY <1>2, <2>1, BelowItself DEF CatalogPre, CurrentAgent
<1>4. pre' \in [rules : Seq(Rule), catalog : Catalogs] /\ pre'.catalog = CatalogPre
  BY <1>1, <1>3 DEF NewsInv
<1>5. FiniteLists(agent')
  BY <1>1, SeedIsFinite DEF CurrentAgent, NewsInv
<1>6. PriorCatalog(CurrentAgent)
  BY <1>1 DEF NewsInv, JoernNews
<1>7. PriorCatalog(agent)'
  BY <1>1, <1>6 DEF PriorCatalog, Unchanged, AllSites
<1>8. Below(pre.catalog, agent)'
  BY <1>1, <1>3, <1>4
<1>9. JoernNews'
  BY <1>1, <1>7, <1>8 DEF JoernNews
<1> QED
  BY <1>1, <1>4, <1>5, <1>9, SameResults DEF NewsInv, SemgrepNews

\* What a report adds to the results of an arm: the last of them, with its sites.
LEMMA ReportedRow ==
    ASSUME Report, IsSequence(results)
    PROVE  /\ IsSequence(results') /\ Len(results) \in Nat /\ Len(results') = Len(results) + 1
           /\ \A i \in 1..Len(results) : results'[i] = results[i]
           /\ results'[Len(results')] = Result
           /\ Result.arm = arm /\ Result.intact = (failed = {})
           /\ Result.sites = SitesOf(Kind \cup {"rule"}) /\ Result.taint = SitesOf({"taint"})
           /\ Result.changed = IF arm = "joern" THEN Grew ELSE RulesChanged
  BY AppendedSequence DEF Report, Result

LEMMA SemgrepReportKeepsNews ==
    ASSUME NewsInv, TypeInv, Report, arm = "semgrep" PROVE NewsInv'
<1>1. ResultsInv /\ IsSequence(results) /\ results' = Append(results, Result)
  BY DEF TypeInv, ResultsInv, Report
<1>2. /\ Len(results) \in Nat /\ Len(results') = Len(results) + 1
      /\ \A i \in 1..Len(results) : results'[i] = results[i]
      /\ results'[Len(results')] = Result
      /\ Result.arm = "semgrep" /\ Result.intact = (failed = {})
      /\ Result.sites = SitesOf(Kind \cup {"rule"}) /\ Result.changed = RulesChanged
  BY <1>1, ReportedRow
<1> PICK r : r = Result
  OBVIOUS
<1>3. /\ PriorRules(pre.rules)
      /\ r.intact => r.sites = HitSites(pre.rules)
  BY <1>2 DEF NewsInv, SemgrepNews, Report
<1>4. ASSUME Len(results) > 0, results[Len(results)].arm = r.arm,
             results[Len(results)].intact, r.intact
      PROVE  /\ ~results[Len(results)].changed => results[Len(results)].sites = r.sites
             /\ r.arm = "joern" => results[Len(results)].taint \subseteq r.taint
  BY <1>2, <1>3, <1>4 DEF PriorRules, Unchanged
<1>5. HitsPersist' /\ NoChangeNoNews'
  BY <1>1, <1>4, NewRow DEF NewsInv
<1>6. pre' \in [rules : Seq(Rule), catalog : Catalogs] /\ (agent' # NoAgent => FiniteLists(agent'))
  <2>1. NoSnapshot \in [rules : Seq(Rule), catalog : Catalogs]
    BY DEF NoSnapshot, EmptyCatalog, Catalogs
  <2>2. agent' = agent /\ (pre' = pre \/ pre' = NoSnapshot)
    BY DEF Report
  <2> QED
    BY <2>1, <2>2 DEF NewsInv
<1>7. PriorRules(rules)'
  <2>1. ASSUME Unchanged("semgrep")'
        PROVE  results'[Len(results')].sites = HitSites(rules')
    <3>1. r.intact /\ ~r.changed
      BY <1>2, <2>1 DEF Unchanged
    <3>2. rules = pre.rules /\ rules' = rules
      BY <1>2, <3>1 DEF RulesChanged, Report
    <3> QED
      BY <1>2, <1>3, <3>1, <3>2
  <2> QED
    BY <2>1 DEF PriorRules
<1>8. SemgrepNews'
  BY <1>7 DEF SemgrepNews, Report
<1>9. JoernNews'
  <2> SUFFICES ASSUME arm' = "joern" PROVE JoernNews'
    BY DEF JoernNews
  <2>1. pc' = "connect"
    BY DEF Report
  <2>2. ASSUME NEW i \in 1..Len(results') PROVE results'[i].arm = "semgrep"
    <3>1. CASE i \in 1..Len(results)
      <4>1. /\ pc # "done" /\ Before \in Nat /\ Len(results) = k /\ k \in 0..cfg.iterations
            /\ Before = cfg.iterations + 1 /\ cfg.iterations \in Nat
        BY BeforeIsNat DEF Report, ResultsInv, TypeInv, Position, Before
      <4>2. Row(results[i], i, Before, Len(results), pc)
        BY <1>1, <3>1 DEF ResultsInv
      <4>3. results[i].arm = "semgrep"
        BY <3>1, <4>1, <4>2 DEF Row
      <4> QED
        BY <1>2, <3>1, <4>3
    <3>2. CASE ~(i \in 1..Len(results))
      <4>1. i = Len(results')
        BY <1>2, <3>2
      <4> QED
        BY <1>2, <4>1
    <3> QED
      BY <3>1, <3>2
  <2>3. ~Unchanged("joern")'
    BY <1>2, <2>2 DEF Unchanged
  <2>4. PriorCatalog(CurrentAgent)'
    BY <2>2, <2>3 DEF PriorCatalog
  <2> QED
    BY <2>1, <2>4 DEF JoernNews, Scanning
<1> QED
  BY <1>5, <1>6, <1>8, <1>9 DEF NewsInv

LEMMA JoernReportKeepsNews ==
    ASSUME NewsInv, TypeInv, Report, arm = "joern" PROVE NewsInv'
<1>1. IsSequence(results) /\ results' = Append(results, Result) /\ pc = "report"
  BY DEF TypeInv, ResultsInv, Report
<1>2. /\ Len(results) \in Nat /\ Len(results') = Len(results) + 1
      /\ \A i \in 1..Len(results) : results'[i] = results[i]
      /\ results'[Len(results')] = Result
      /\ Result.arm = "joern" /\ Result.intact = (failed = {})
      /\ Result.sites = SitesOf(Kind \cup {"rule"}) /\ Result.taint = SitesOf({"taint"})
      /\ Result.changed = Grew
  BY <1>1, ReportedRow
<1> PICK r : r = Result
  OBVIOUS
<1>3. PICK catalog \in Catalogs :
        Below(pre.catalog, catalog) /\ Below(catalog, agent) /\ PriorCatalog(catalog) /\ ScanOf(catalog)
  BY <1>1 DEF NewsInv, JoernNews
<1>4. r.intact => r.taint = StrictSites(catalog) /\ r.sites = AllSites(catalog)
  BY <1>2, <1>3 DEF ScanOf
<1>5. ASSUME Len(results) > 0, results[Len(results)].arm = r.arm,
             results[Len(results)].intact, r.intact
      PROVE  /\ ~results[Len(results)].changed => results[Len(results)].sites = r.sites
             /\ r.arm = "joern" => results[Len(results)].taint \subseteq r.taint
  <2>1. Len(results) \in 1..Len(results) /\ results[Len(results)].arm = "joern"
    BY <1>2, <1>5
  <2>2. results[Len(results)].taint \subseteq StrictSites(catalog)
    BY <1>3, <1>5, <2>1 DEF PriorCatalog
  <2>3. ~results[Len(results)].changed => results[Len(results)].sites = AllSites(catalog)
    BY <1>3, <1>5, <2>1 DEF PriorCatalog, Unchanged
  <2> QED
    BY <1>4, <1>5, <2>2, <2>3
<1>6. HitsPersist' /\ NoChangeNoNews'
  BY <1>1, <1>5, NewRow DEF NewsInv
<1>7. agent \in Catalogs /\ agent # NoAgent /\ FiniteLists(agent)
  <2>1. agent \in Catalogs
    BY <1>1 DEF TypeInv, AgentInv, HasAgent, Good
  <2>2. agent # NoAgent
    BY <2>1, StudyAssumption DEF Catalogs
  <2> QED
    BY <2>1, <2>2 DEF NewsInv
<1>8. PriorCatalog(agent)'
  <2> PICK c : c = agent
    OBVIOUS
  <2>1. StrictSites(catalog) \subseteq StrictSites(c)
    BY <1>3, StrictFlowsGrow
  <2>2. ASSUME NEW i \in 1..Len(results'), results'[i].arm = "joern", results'[i].intact
        PROVE  results'[i].taint \subseteq StrictSites(c)
    <3>1. CASE i \in 1..Len(results)
      <4>1. results'[i] = results[i]
        BY <1>2, <3>1
      <4>2. results[i].taint \subseteq StrictSites(catalog)
        BY <1>3, <2>2, <3>1, <4>1 DEF PriorCatalog
      <4> QED
        BY <2>1, <4>1, <4>2
    <3>2. CASE ~(i \in 1..Len(results))
      <4>1. i = Len(results')
        BY <1>2, <3>2
      <4> QED
        BY <1>2, <1>4, <2>1, <2>2, <4>1
    <3> QED
      BY <3>1, <3>2
  <2>3. ASSUME Unchanged("joern")'
        PROVE  results'[Len(results')].sites = AllSites(c)
    <3>1. r.intact /\ ~Grew
      BY <1>2, <2>3 DEF Unchanged
    <3>2. \A list \in Lists : ~(Cardinality(c[list]) > Cardinality(pre.catalog[list]))
      BY <1>7, <3>1 DEF Grew, Catalogs, Lists
    <3>3. catalog = c
      BY <1>3, <1>7, <3>2, NotGrown
    <3> QED
      BY <1>2, <1>4, <3>1, <3>3
  <2>4. AllSites(c)' = AllSites(c) /\ agent' = c
    BY DEF AllSites, Report
  <2>5. PriorCatalog(c)'
    BY <2>2, <2>3, <2>4 DEF PriorCatalog
  <2> QED
    BY <2>4, <2>5 DEF PriorCatalog, Unchanged, AllSites
<1>9. /\ arm' = "joern" /\ agent' = agent /\ pc' \in {"scan", "done"}
      /\ pre' = pre
  BY DEF Report
<1>10. CurrentAgent' = agent'
  BY <1>7, <1>9 DEF CurrentAgent
<1>11. PriorCatalog(CurrentAgent)'
  BY <1>8, <1>10 DEF PriorCatalog, Unchanged, AllSites
<1>12. JoernNews'
  BY <1>9, <1>11 DEF JoernNews, Scanning
<1>13. SemgrepNews'
  BY <1>9 DEF SemgrepNews
<1> QED
  BY <1>6, <1>7, <1>9, <1>12, <1>13 DEF NewsInv

LEMMA NewsInductive == NewsInv /\ TypeInv /\ QueryInv /\ [Next]_vars => NewsInv'
<1> SUFFICES ASSUME NewsInv, TypeInv, QueryInv, [Next]_vars PROVE NewsInv'
  OBVIOUS
<1> USE DEF scanning
<1>a. (arm = "joern" \/ arm = "semgrep") /\ IsSequence(results)
  BY DEF TypeInv, ResultsInv, Position
<1>b. ASSUME pc \in {"connect", "strict", "recover", "merge", "classify"} PROVE arm = "joern"
  BY <1>a, <1>b DEF NewsInv, SemgrepNews
<1>1. CASE Connect
  <2>1. /\ pc = "connect" /\ UNCHANGED <<cfg, arm, rules, agent, pre>>
        /\ (pc' = "scan" /\ UNCHANGED results) \/ (pc' = "done" /\ results' = Append(results, ErrorRow))
    BY <1>1 DEF Connect
  <2>2. CASE pc' = "scan"
    BY <1>b, <2>1, <2>2, QuietKeepsNews
  <2>3. CASE pc' = "done"
    BY <1>a, <2>1, <2>3, EndKeepsNews
  <2> QED
    BY <2>1, <2>2, <2>3
<1>2. CASE MessageRaises \/ ContextRaises \/ TriageUnavailable \/ NotAnObject
  <2>1. Raise
    BY <1>2 DEF MessageRaises, ContextRaises, TriageUnavailable, NotAnObject
  <2> QED
    BY <1>a, <2>1, EndKeepsNews DEF Raise, ReportError
<1>3. CASE SemgrepScan
  BY <1>3, SemgrepScanKeepsNews
<1>4. CASE JoernScan
  BY <1>4, JoernScanKeepsNews
<1>5. CASE MergeRecord \/ RebuildUnion \/ RecoveryPass \/ MergeUnion \/ LoadContext
  <2>1. /\ pc \in {"strict", "recover", "merge"} /\ pc' \in {"strict", "recover", "merge", "triage"}
        /\ UNCHANGED <<cfg, arm, rules, agent, pre, results>>
    BY <1>5 DEF MergeRecord, RebuildUnion, RecoveryPass, MergeUnion, LoadContext
  <2> QED
    BY <1>b, <2>1, QuietKeepsNews DEF Scanning
<1>6. CASE TriageFinding \/ TriageCallFails \/ TriageBaseline
  <2>1. pc' = pc /\ UNCHANGED <<cfg, arm, rules, agent, pre, results, findings, failed>>
    BY <1>6 DEF TriageFinding, TriageCallFails, TriageBaseline, Judged
  <2> QED
    BY <1>a, <2>1, QuietKeepsNews
<1>7. CASE TriageDone \/ QueryCallGraph
  <2>1. /\ pc \in {"triage", "refine"} /\ pc' \in {"refine", "classify"}
        /\ UNCHANGED <<cfg, arm, rules, agent, pre, results, findings, failed>>
        /\ arm = "semgrep" => pc' = "refine"
    BY <1>7 DEF TriageDone, QueryCallGraph
  <2> QED
    BY <1>a, <2>1, QuietKeepsNews DEF Scanning
<1>8. CASE RefineRules \/ RefinementCallFails \/ NothingToRefine
  <2>1. /\ pc \in {"refine", "classify"} /\ pc' = "report"
        /\ UNCHANGED <<cfg, arm, pre, failed, findings, results, agent>>
    BY <1>8 DEF RefineRules, RefinementCallFails, NothingToRefine, RefinementCall, LlmAsked
  <2> QED
    BY <2>1, RefinedKeepsNews
<1>9. CASE ClassifyHelpers
  <2>1. /\ pc = "classify" /\ pc' = "report" /\ UNCHANGED <<cfg, arm, pre, failed, findings, results>>
    BY <1>9 DEF ClassifyHelpers, RefinementCall
  <2>2. arm = "joern" /\ agent \in Catalogs
    BY <1>b, <2>1 DEF TypeInv, AgentInv, HasAgent, Good
  <2>3. FiniteLists(agent)
    BY <2>2, StudyAssumption DEF NewsInv, Catalogs
  <2>4. Below(agent, agent') /\ FiniteLists(agent')
    BY <1>9, <2>2, <2>3, ClassifyAddsNames
  <2> QED
    BY <2>1, <2>2, <2>4, RefinedKeepsNews
<1>10. CASE Report
  BY <1>a, <1>10, SemgrepReportKeepsNews, JoernReportKeepsNews
<1>11. CASE UNCHANGED vars
  BY <1>a, <1>11, QuietKeepsNews DEF vars
<1>12. CASE Hang \/ BudgetSpent
  <2>1. Stopped
    BY <1>12, HangOrCancelStops
  <2> QED
    BY <1>a, <2>1, EndKeepsNews DEF Stopped
<1> QED
  BY <1>1, <1>2, <1>3, <1>4, <1>5, <1>6, <1>7, <1>8, <1>9, <1>10, <1>11, <1>12 DEF Next

LEMMA NewsInitially == Init => NewsInv
<1> SUFFICES ASSUME Init PROVE NewsInv
  OBVIOUS
<1>1. Len(results) = 0 /\ agent = NoAgent /\ (pc = "scan" \/ pc = "connect")
      /\ (arm = "semgrep" => pc = "scan")
  BY EmptySequence DEF Init
<1>2. HitsPersist /\ NoChangeNoNews /\ (\A which : ~Unchanged(which))
  BY <1>1 DEF HitsPersist, NoChangeNoNews, Unchanged
<1>3. SemgrepNews /\ JoernNews
  BY <1>1, <1>2 DEF SemgrepNews, JoernNews, PriorRules, PriorCatalog, Scanning
<1>4. pre \in [rules : Seq(Rule), catalog : Catalogs]
  BY DEF Init, NoSnapshot, EmptyCatalog, Catalogs
<1> QED
  BY <1>1, <1>2, <1>3, <1>4 DEF NewsInv

LEMMA NewsAlways == Spec => []NewsInv
  BY NewsInitially, NewsInductive, QueriesAlways, PTL DEF Spec

\* When an iteration reports that the rules, or the catalogs, are as they were, the next
\* one finds the same calls, unless a query failed (rules_yaml_changed and
\* joern_catalog_grew): counting the lists is enough, for they only grow.
THEOREM NoNewsWithoutChange == Spec => []NoChangeNoNews
  BY NewsAlways, PTL DEF NewsInv

\* A call the strict query reached in one iteration of the Joern arm it reaches in the
\* next one, whatever was classified in between (JoernArm.expand_catalog).
THEOREM HitsAlwaysPersist == Spec => []HitsPersist
  BY NewsAlways, PTL DEF NewsInv
=============================================================================
