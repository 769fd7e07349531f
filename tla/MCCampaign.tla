---------------------------- MODULE MCCampaign ----------------------------
(***************************************************************************)
(* A small world for Campaign: five advisories of interest, two of them in *)
(* one place; a CVE that only the supplement finds, from two sources that  *)
(* name different commits; small numbers for the sample.                   *)
(***************************************************************************)
EXTENDS Campaign

CONSTANTS c1, c2, c3, c4, c5, p1, p2, p3, p4, t2

\* c4 has no CVE number; t2 is the annotated tag of p2.
Cves == {c1, c2, c3, c4, c5}
Commits == {p1, p2, p3, p4, t2}

Old(path) == [kind |-> "old", path |-> path, from |-> 0, count |-> 0, sinks |-> {}]
Hunk(from, count) == [kind |-> "hunk", path |-> NoPath, from |-> from, count |-> count, sinks |-> {}]
Removed(sinks) == [kind |-> "removed", path |-> NoPath, from |-> 0, count |-> 0, sinks |-> sinks]
Added == [kind |-> "added", path |-> NoPath, from |-> 0, count |-> 0, sinks |-> {}]
Other == [kind |-> "other", path |-> NoPath, from |-> 0, count |-> 0, sinks |-> {}]

\* A change in two places behind one in a text file; one that only adds, before one
\* that removes; a small one; none of a Python file.
MCDiff == [c \in Commits |->
    CASE c = p1 -> <<Other, Old("NEWS"), Added, Hunk(1, 2), Removed({"system"}), Added,
                     Other, Old("run.py"), Added, Hunk(4, 3), Other, Removed({"popen"}),
                     Removed({}), Added, Hunk(9, 2), Added, Other, Removed({"system"})>>
      [] c = p2 -> <<Other, Old("util.py"), Added, Hunk(2, 1), Other, Added,
                     Other, Old("run.py"), Added, Hunk(3, 1), Removed({"run"})>>
      [] c = p3 -> <<Other, Old("run.py"), Added, Hunk(3, 1), Removed({"system"}), Added>>
      [] c = p4 -> <<Other, Old("NEWS"), Added, Hunk(1, 1), Removed({"popen"})>>
      [] c = t2 -> <<>>]

Link(commit, online, tag) == [commit |-> commit, online |-> online, tag |-> tag]
MCLinks == [r \in {"direct1", "tag2", "pull3", "direct3", "direct4", "nothing"} |->
    CASE r = "direct1" -> <<Link(p1, FALSE, NoCommit)>>
      [] r = "tag2" -> <<Link(p2, TRUE, t2)>>
      [] r = "pull3" -> <<Link(p3, TRUE, NoCommit), Link(p2, FALSE, NoCommit)>>
      [] r = "direct3" -> <<Link(p3, FALSE, NoCommit)>>
      [] r = "direct4" -> <<Link(p4, FALSE, NoCommit)>>
      [] r = "nothing" -> <<>>]

MCAdvisory(cve, refs, repo, severity, cwe78, pip, signal) ==
    [cve |-> cve, refs |-> refs, repo |-> repo, severity |-> severity,
     cwe78 |-> cwe78, pip |-> pip, signal |-> signal]

MCAdvisories == <<
    MCAdvisory(c1, "direct1", "r", "high", TRUE, TRUE, FALSE),
    MCAdvisory(c5, "direct4", "r", "high", TRUE, FALSE, FALSE),
    MCAdvisory(c5, "direct4", NoRepo, "high", TRUE, TRUE, FALSE),
    MCAdvisory(c2, "tag2", "r", NoSeverity, TRUE, FALSE, TRUE),
    MCAdvisory(c1, "direct3", "r", "low", TRUE, TRUE, FALSE),
    MCAdvisory(c3, "pull3", "r", "low", TRUE, TRUE, FALSE),
    MCAdvisory(c4, "direct3", "r", "low", TRUE, TRUE, TRUE)>>
MCOsv == <<
    MCAdvisory(c3, "direct3", "r", "low", TRUE, TRUE, FALSE),
    MCAdvisory(c5, "direct3", "q", "high", FALSE, TRUE, TRUE)>>
MCNvdCandidates == <<
    MCAdvisory(c5, "direct4", "q", NoSeverity, FALSE, FALSE, TRUE),
    MCAdvisory(c2, "nothing", NoRepo, NoSeverity, FALSE, FALSE, TRUE)>>

\* Said in full, as a checkout has it, and not with the operators of the programs.
MCShipped ==
    LET Entry(i, commit, lines, sink, loc) ==
            [NewRecord(MCAdvisories[i]) EXCEPT
                !.patch = commit, !.vulnerable = TRUE, !.diff = TRUE,
                !.where = [file |-> "run.py", lines |-> lines, sink |-> sink, loc |-> loc]]
    IN  <<Entry(1, p1, <<5, 6, 10>>, "popen", 11), Entry(6, p3, <<3>>, "system", 4)>>

MCNvd == [c \in Cves |->
    CASE c = c2 -> [v31 |-> "low", v30 |-> NoSeverity, v2 |-> TRUE]
      [] c = c5 -> [v31 |-> NoSeverity, v30 |-> "high", v2 |-> FALSE]
      [] c = c3 -> [v31 |-> NoSeverity, v30 |-> NoSeverity, v2 |-> TRUE]
      [] OTHER -> [v31 |-> NoSeverity, v30 |-> NoSeverity, v2 |-> FALSE]]

MCSinkPatterns == <<"run", "popen", "system">>
MCLocLimits == <<5>>
MCTrainingSize == <<1, 1, 2, 2, 3>>

Rule(id, pattern, python) == [id |-> id, pattern |-> pattern, python |-> python]
MCSeedReplies == {<<>>, <<Rule("a", TRUE, TRUE), Rule("b", TRUE, TRUE)>>,
                  <<Rule("a", TRUE, TRUE), Rule("a", TRUE, TRUE)>>, <<Rule("a", FALSE, TRUE)>>}
MCCatalogReplies == {[sources |-> {}, sinks |-> {"run"}], [sources |-> {"args"}, sinks |-> {"run"}]}
MCSkips == {{}, {c1}}
MCOnlys == {{}, {c2}}
=============================================================================
