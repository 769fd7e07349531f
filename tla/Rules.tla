------------------------------- MODULE Rules -------------------------------
(***************************************************************************)
(* The rule set of the Semgrep arm (cwe78_study/semgrep_arm.py) and how a  *)
(* reply of the LLM changes it (refinement_agent.py, apply_refinement).    *)
(***************************************************************************)
EXTENDS SinkCalls, Naturals, Sequences

CONSTANTS
    Rule,           \* rules, as text
    NoRule,         \* a patch that holds no rule with an id
    RuleId,         \* [Rule -> id]
    NoId,
    Matches,        \* [Rule -> sequence of the sites it reports]
    Dump,           \* [Rule -> the rule as yaml.dump writes it]
    SeedRules       \* the rules_yaml of the configuration

ASSUME RulesAssumption ==
    /\ NoRule \notin Rule
    /\ \A r \in Rule : RuleId[r] # NoId
    /\ Matches \in [Rule -> Seq(Site)]
    /\ Dump \in [Rule -> Rule]
    /\ \A r \in Rule : RuleId[Dump[r]] = RuleId[r] /\ Matches[Dump[r]] = Matches[r]
    /\ SeedRules \in Seq(Rule)

\* _extract_rule_id, of what _parse_rule_patch made of the patch
PatchId(patch) == IF patch = NoRule THEN NoId ELSE RuleId[patch]

\* refine_semgrep fills in the id the LLM forgot.
Target(reply) ==
    IF reply.action = "refine" /\ reply.target = NoId THEN PatchId(reply.patch)
    ELSE reply.target

Holding(rules, id) == {i \in 1..Len(rules) : RuleId[rules[i]] = id}
FirstHolding(rules, id) ==
    CHOOSE i \in Holding(rules, id) : \A j \in Holding(rules, id) : i <= j

Dumped(rules) == [i \in 1..Len(rules) |-> Dump[rules[i]]]

\* apply_refinement: the text is written anew, the rules it does not touch included.
ApplyRefinement(rules, reply) ==
    IF reply.action = "keep" \/ reply.patch = NoRule THEN rules
    ELSE IF reply.action = "refine" /\ Holding(rules, Target(reply)) # {}
    THEN Dumped([rules EXCEPT ![FirstHolding(rules, Target(reply))] = reply.patch])
    ELSE Dumped(Append(rules, reply.patch))

\* _parse_output: one finding per rule and match.
SemgrepHits(rules) ==
    LET hits[n \in 0..Len(rules)] ==
            IF n = 0 THEN <<>> ELSE hits[n - 1] \o Matches[rules[n]]
    IN  hits[Len(rules)]
=============================================================================
