------------------------------ MODULE MCStudy ------------------------------
(***************************************************************************)
(* A small repository for Study: two calls of configured sinks, a and b, a *)
(* call w of the wrapper runcmd, which outer calls in its turn, and two    *)
(* helpers that only call one another.                                     *)
(***************************************************************************)
EXTENDS Study

CONSTANTS a, b, w, req, arg, self

Sites == {a, b, w}
Sources == {req, arg, self}

Names == {"subprocess.run", "os.system", "request.args", "input",
          "runcmd", "runcmd(cmd", "outer", "ping", "pong", "1st"}
Shorts == {"run", "system", "args", "input", "runcmd", "outer", "ping", "pong", "1st"}
MCCleaned == [n \in Names |-> CASE n = "runcmd(cmd" -> "runcmd"
                                [] n = "1st" -> NoName
                                [] OTHER -> n]
MCShortName == [n \in Names |-> CASE n = "subprocess.run" -> "run"
                                  [] n = "os.system" -> "system"
                                  [] n = "request.args" -> "args"
                                  [] n = "runcmd(cmd" -> "runcmd"
                                  [] OTHER -> n]
MCSeed == [sources |-> {"request.args"}, sinks |-> {"subprocess.run", "os.system", "1st"},
           sanitizers |-> {}]

MCCall == <<b, w, a>>
MCCallName == [s \in Sites |-> CASE s = a -> "run" [] s = b -> "system" [] s = w -> "runcmd"]
MCPrefixes == [s \in Sites |-> CASE s = a -> {"subprocess.run"} [] s = b -> {"os.system"}
                                 [] s = w -> {"runcmd"}]

Flows(s, src, v, ns) == [site |-> s, source |-> src, via |-> v, names |-> ns]
MCFlow == <<Flows(a, self, "fieldAccess", {"request.args"}),
            Flows(w, req, "fieldAccess", {"request.args"}),
            Flows(a, req, "fieldAccess", {"request.args"}),
            Flows(b, arg, "parameter", {"request.args"}),
            Flows(b, arg, "call", {"input"}),
            Flows(a, self, "identifier", {})>>

MCCallers == [n \in Shorts |-> CASE n = "run" -> {"runcmd", "ping", "pong"}
                                 [] n = "runcmd" -> {"outer"}
                                 [] OTHER -> {}]
MCCallees == [n \in Names |-> CASE n = "runcmd" -> {"run"} [] n = "ping" -> {"pong"}
                                [] n = "pong" -> {"ping"} [] OTHER -> {}]
MCBodyCalls == [n \in Names |-> IF n = "outer" THEN {"runcmd"} ELSE {}]

None == [n \in Names |-> {}]
Helpers(srcs, snks, sans, cited) ==
    [sources |-> srcs, sinks |-> snks, sanitizers |-> sans, cited |-> cited]
MCHelperReplies == {
    Helpers({}, {}, {}, None),
    Helpers({}, {"runcmd", "outer", "ping", "pong"}, {"1st"}, None),
    Helpers({"input", "1st"}, {"1st"}, {"ping"}, None),
    Helpers({}, {"runcmd(cmd", "pong"}, {}, [None EXCEPT !["runcmd(cmd"] = {"run"}])}

MCCodeSources == [s \in Sites |-> {}]
MCContextSources == [s \in Sites |-> IF s = b THEN {arg, req} ELSE {arg}]
MCSelfFlow == {<<self, a>>}
Reply(verdict, cite) == [verdict |-> verdict, cite |-> cite]
MCTriageReplies == {Reply("true_positive", req), Reply("true_positive", NoSource),
                    Reply("false_positive", req), Reply("uncertain", NoSource)}

MCFile == [s \in Sites |-> IF s = b THEN "other.py" ELSE "app.py"]
MCLine == [s \in Sites |-> CASE s = a -> 10 [] s = b -> 12 [] s = w -> 18]
MCSamePath == {<<"app.py", "app.py">>}
MCLines == {12, 14}

MCRules == {"r1", "r1 dumped", "r1x", "r2"}
MCRuleId == [r \in MCRules |-> IF r = "r2" THEN "two" ELSE "one"]
MCMatches == [r \in MCRules |->
                CASE r \in {"r1", "r1 dumped"} -> <<a>> [] r = "r1x" -> <<>> [] r = "r2" -> <<b>>]
MCDump == [r \in MCRules |-> IF r = "r1" THEN "r1 dumped" ELSE r]
MCSeedRules == <<"r1">>
Proposal(action, patch, target) == [action |-> action, patch |-> patch, target |-> target]
MCRuleReplies == {
    Proposal("keep", NoRule, NoId), Proposal("refine", NoRule, "one"),
    Proposal("refine", "r1", "one"), Proposal("refine", "r1x", NoId),
    Proposal("refine", "r2", "two"), Proposal("add_rule", "r2", NoId)}

Config(arms, iterations, triage, passes, budget) ==
    [arms |-> arms, iterations |-> iterations, triage |-> triage, passes |-> passes,
     budget |-> budget]
MCConfigs == {
    Config({"semgrep", "joern"}, 2, TRUE, {"direct_sink", "relaxed", "def_use"}, TRUE),
    Config({"joern"}, 2, TRUE, {}, FALSE),
    Config({"semgrep", "joern"}, 1, FALSE, {"direct_sink"}, TRUE)}
=============================================================================
