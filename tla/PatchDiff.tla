----------------------------- MODULE PatchDiff -----------------------------
(***************************************************************************)
(* What the dataset programs read out of the diff of a patch commit        *)
(* (collect_cwe78_dataset.py): the file and the lines taken for vulnerable,*)
(* the sink call and a lower bound for the length of the file.  A diff is  *)
(* a sequence of lines, each of one of the kinds the parser tells apart.   *)
(***************************************************************************)
EXTENDS Naturals, Sequences, FiniteSets

CONSTANTS
    Commit,
    NoCommit,
    Path,           \* files of the repositories
    NoPath,         \* the empty string, for a file name or the name of a sink
    Python,         \* the paths that end in .py
    Sink,           \* names of sink functions
    SinkPatterns,   \* the sinks of the corpus, in its order
    Diff            \* [Commit -> sequence of lines], <<>> where GitHub has no diff

\* "old" is "--- a/<path>", "added" also the "+++" after it; "other" is a line of context, or one of those around a
\* section: "diff --git", "index", "--- /dev/null".  "from" and "count" are a hunk's.
DiffLine == [kind : {"old", "hunk", "removed", "added", "other"},
             path : Path \cup {NoPath}, from : Nat, count : Nat, sinks : SUBSET Sink]

ASSUME DiffAssumption ==
    /\ NoCommit \notin Commit /\ NoPath \notin Path \cup Sink /\ Python \subseteq Path
    /\ SinkPatterns \in Seq(Sink)
    /\ Diff \in [Commit -> Seq(DiffLine)]

Positions(diff, kind) == {i \in 1..Len(diff) : diff[i].kind = kind}

-----------------------------------------------------------------------------
(* The parser: one pass over the lines. *)

Start == [file |-> NoPath, lines |-> <<>>, touched |-> FALSE, old |-> 0,
          bestFile |-> NoPath, bestLines |-> <<>>]

\* _commit_file: the first Python file with a hunk is the one.
CommitFile(s) ==
    IF s.file = NoPath \/ s.bestFile # NoPath \/ ~(s.lines # <<>> \/ s.touched) THEN s
    ELSE [s EXCEPT !.bestFile = s.file,
                   !.bestLines = IF s.lines # <<>> THEN s.lines
                                 ELSE IF s.old > 0 THEN <<s.old>> ELSE <<>>]

NextFile(s, line) ==
    [CommitFile(s) EXCEPT !.file = IF line.path \in Python THEN line.path ELSE NoPath,
                          !.lines = <<>>, !.touched = FALSE]

\* (mutant) the line number stays where it is
RemovedLineStays(s) == [s EXCEPT !.lines = Append(s.lines, s.old)]

RemovedLine(s) == [s EXCEPT !.lines = Append(s.lines, s.old), !.old = s.old + 1]

ReadLine(s, line) ==
    CASE line.kind = "old" -> NextFile(s, line)
      [] line.kind # "old" /\ s.file = NoPath -> s
      [] line.kind = "hunk" /\ s.file # NoPath ->
            [s EXCEPT !.old = line.from, !.touched = TRUE]
      [] line.kind = "removed" /\ s.file # NoPath -> RemovedLine(s)
      [] line.kind = "added" /\ s.file # NoPath -> s
      [] line.kind = "other" /\ s.file # NoPath -> [s EXCEPT !.old = s.old + 1]

\* _parse_diff_for_vuln_lines
ParseDiff(diff) ==
    LET after[i \in 0..Len(diff)] ==
            IF i = 0 THEN Start ELSE ReadLine(after[i - 1], diff[i])
    IN  CommitFile(after[Len(diff)])

\* _match_sink: the first pattern that occurs in a removed line of any file.
MatchSink(diff) ==
    LET removed == UNION {diff[i].sinks : i \in Positions(diff, "removed")}
        known == {p \in 1..Len(SinkPatterns) : SinkPatterns[p] \in removed}
    IN  IF known = {} THEN "unknown" ELSE SinkPatterns[CHOOSE p \in known : \A q \in known : p <= q]

\* _estimate_loc_from_diff
EstimateLoc(diff) ==
    LET ends == {0} \cup {diff[i].from + diff[i].count : i \in Positions(diff, "hunk")}
    IN  CHOOSE n \in ends : \A m \in ends : m <= n

Nowhere == [file |-> NoPath, lines |-> <<>>, sink |-> NoPath, loc |-> 0]

\* What phase 4 writes into a record.
Where(diff) == [file |-> ParseDiff(diff).bestFile, lines |-> ParseDiff(diff).bestLines,
                sink |-> MatchSink(diff), loc |-> EstimateLoc(diff)]

-----------------------------------------------------------------------------
(* What it is to find: the same, said of the diff as a whole. *)

\* 0 if there is none.
Latest(S) == CHOOSE i \in S \cup {0} : \A j \in S : j <= i

SectionOf(diff, i) == Latest({s \in Positions(diff, "old") : s <= i})
HunkOf(diff, i) == Latest({h \in Positions(diff, "hunk") : h < i})

\* The number that line i has in the file before the patch.
OldNumber(diff, i) ==
    LET h == HunkOf(diff, i)
    IN  diff[h].from + Cardinality({j \in (h + 1)..(i - 1) : diff[j].kind \in {"removed", "other"}})

\* The sections of Python files with a hunk.
Touched(diff) == {SectionOf(diff, h) : h \in Positions(diff, "hunk")}
                    \cap {s \in Positions(diff, "old") : diff[s].path \in Python}

RemovedIn(diff, section) == {i \in Positions(diff, "removed") : SectionOf(diff, i) = section}

\* Where the next section begins, or the diff ends.  The headers of the next section,
\* before its "---", still belong to this one.
EndOf(diff, section) ==
    LET ends == {s \in Positions(diff, "old") : section < s} \cup {Len(diff) + 1}
    IN  CHOOSE e \in ends : \A s \in ends : e <= s

\* The lines of a section that count as vulnerable: those it removes, or else the one that
\* would have followed it, unless it is number 0.
LinesOf(diff, section) ==
    IF RemovedIn(diff, section) # {} THEN {OldNumber(diff, i) : i \in RemovedIn(diff, section)}
    ELSE {OldNumber(diff, EndOf(diff, section))} \ {0}

\* Where the vulnerability of a diff is: in the first Python file that it touches.
PlaceOf(diff) ==
    IF Touched(diff) = {} THEN [file |-> NoPath, lines |-> {}]
    ELSE LET first == CHOOSE s \in Touched(diff) : \A t \in Touched(diff) : s <= t
         IN  [file |-> diff[first].path, lines |-> LinesOf(diff, first)]

\* What the format of a unified diff promises of the lines removed from a file: each is in
\* a hunk, and they are in the order of the file.
ASSUME FormatAssumption ==
    \A c \in Commit : \A i \in Positions(Diff[c], "removed") :
        /\ SectionOf(Diff[c], i) <= HunkOf(Diff[c], i)
        /\ \A j \in Positions(Diff[c], "removed") :
                j < i /\ SectionOf(Diff[c], j) = SectionOf(Diff[c], i)
                    => OldNumber(Diff[c], j) < OldNumber(Diff[c], i)

Places == [c \in Commit |-> PlaceOf(Diff[c])]

\* A location is that of a commit: its file, and its lines, each once.
Locates(where, commit) ==
    /\ where.file = Places[commit].file
    /\ {where.lines[n] : n \in 1..Len(where.lines)} = Places[commit].lines
    /\ Len(where.lines) = Cardinality(Places[commit].lines)
=============================================================================
