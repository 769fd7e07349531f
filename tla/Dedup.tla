------------------------------- MODULE Dedup -------------------------------
(***************************************************************************)
(* How the Joern arm merges the records of its queries into findings       *)
(* (_parse_taint_results of cwe78_study/joern_arm.py): a loop over the     *)
(* records that keeps one finding per sink call, whichever of the four     *)
(* queries reported the call and however often.  One action is one turn of *)
(* the loop.                                                               *)
(*                                                                         *)
(* A site stands for a key (file, line, API, normalised code); two records *)
(* have the same site exactly when their keys agree.                       *)
(***************************************************************************)
EXTENDS SinkCalls, Naturals, Sequences, FiniteSets

CONSTANT SourcesCap  \* _DEDUP_SOURCES_CAP

ASSUME DedupAssumption == SourcesCap \in Nat \ {0}

\* _RECOVERY_PRIORITY
Priority == [taint |-> 4, relaxed |-> 3, def_use |-> 2, direct_sink |-> 1]

\* _normalize_recovery_kind: a record without a known kind counts as taint.
NormalizeKind(kind) == IF kind \in Kind THEN kind ELSE "taint"

Record == [site : Site, kind : Kind \cup {"legacy"}, source : Source \cup {NoSource}]
Merged == [kind : Kind, source : Source \cup {NoSource}, seen : SUBSET Kind,
           count : Nat, sources : Seq(Source)]

VARIABLES
    raw,            \* the records to merge
    next,           \* position of the next record
    byKey,          \* by_key: [sites met so far -> finding]
    order           \* ordered_keys

dedupVars == <<raw, next, byKey, order>>

Item == raw[next]
ItemKind == NormalizeKind(Item.kind)
Finished == next > Len(raw)

InSeq(x, s) == \E i \in 1..Len(s) : s[i] = x

\* A source joins the list once, while there is room for it.
AddSource(sources, src) ==
    IF src # NoSource /\ ~InSeq(src, sources) /\ Len(sources) < SourcesCap
    THEN Append(sources, src) ELSE sources

\* _make_finding
MakeFinding(record, kind) == [
    kind |-> kind, source |-> record.source, seen |-> {kind}, count |-> 1,
    sources |-> IF record.source = NoSource THEN <<>> ELSE <<record.source>>]

NoFindings == [s \in {} |-> {}]

DedupInit == raw = <<>> /\ next = 1 /\ byKey = NoFindings /\ order = <<>>

\* _parse_taint_results is called with the records rs.
Parse(rs) ==
    /\ Finished
    /\ raw' = rs /\ next' = 1
    /\ byKey' = NoFindings /\ order' = <<>>

\* The first record of its key.
FirstHit ==
    /\ ~Finished /\ Item.site \notin DOMAIN byKey
    /\ byKey' = [s \in DOMAIN byKey \cup {Item.site} |->
                    IF s = Item.site THEN MakeFinding(Item, ItemKind) ELSE byKey[s]]
    /\ order' = Append(order, Item.site)
    /\ next' = next + 1 /\ UNCHANGED raw

\* (mutant) a merged finding is listed again
MergeItemAgain(base) ==
    /\ byKey' = [byKey EXCEPT ![Item.site] = base]
    /\ order' = Append(order, Item.site)
    /\ next' = next + 1 /\ UNCHANGED raw

\* Item is merged into the finding of its key, which keeps or takes over what
\* base is: the finding there is, or one made from Item.
MergeItem(base) ==
    /\ byKey' = [byKey EXCEPT ![Item.site] =
                    [base EXCEPT !.seen = byKey[Item.site].seen \cup {ItemKind},
                                 !.count = byKey[Item.site].count + 1,
                                 !.sources = AddSource(byKey[Item.site].sources, Item.source)]]
    /\ next' = next + 1 /\ UNCHANGED <<raw, order>>

\* (mutant) a record replaces one of the same kind too
StrongerOrEqual == Priority[ItemKind] >= Priority[byKey[Item.site].kind]

Stronger == Priority[ItemKind] > Priority[byKey[Item.site].kind]

\* (mutant) a stronger record brings only its own source
StrongerHitForgets ==
    /\ ~Finished /\ Item.site \in DOMAIN byKey /\ Stronger
    /\ byKey' = [byKey EXCEPT ![Item.site] =
                    [MakeFinding(Item, ItemKind) EXCEPT !.count = byKey[Item.site].count + 1]]
    /\ next' = next + 1 /\ UNCHANGED <<raw, order>>

StrongerHit ==
    /\ ~Finished /\ Item.site \in DOMAIN byKey /\ Stronger
    /\ MergeItem(MakeFinding(Item, ItemKind))

WeakerHit ==
    /\ ~Finished /\ Item.site \in DOMAIN byKey /\ ~Stronger
    /\ MergeItem(byKey[Item.site])

MergeNext == FirstHit \/ StrongerHit \/ WeakerHit

DedupNext == MergeNext \/ (raw' \in Seq(Record) /\ Parse(raw'))

DedupSpec == DedupInit /\ [][DedupNext]_dedupVars

-----------------------------------------------------------------------------
(* What the loop promises, stated over the records it has been through. *)

Seen == 1..(next - 1)
RecordsOf(s) == {i \in Seen : raw[i].site = s}
KindOf(i) == NormalizeKind(raw[i].kind)
SourcesOf(s) == {raw[i].source : i \in RecordsOf(s)} \ {NoSource}

\* Every sink call some record reports has its finding, each once, listed in the
\* order of first report: no query's candidate is lost in the merge.
EverySiteOnce ==
    /\ DOMAIN byKey = {raw[i].site : i \in Seen}
    /\ DOMAIN byKey = {order[i] : i \in 1..Len(order)}
    /\ \A i, j \in 1..Len(order) : i < j =>
        \E m \in RecordsOf(order[i]) : \A n \in RecordsOf(order[j]) : m < n

\* The finding carries the kind and the source of the first among its strongest
\* records, in whatever order the four queries delivered them.
StrongestRecordWins ==
    \A s \in DOMAIN byKey : \E i \in RecordsOf(s) :
        /\ byKey[s].kind = KindOf(i) /\ byKey[s].source = raw[i].source
        /\ \A j \in RecordsOf(s) :
            /\ Priority[KindOf(j)] <= Priority[KindOf(i)]
            /\ j < i => Priority[KindOf(j)] < Priority[KindOf(i)]

\* What a finding says of the records merged into it is exact: each counted once,
\* each kind named, no source twice, and none missing unless the list is full.
MergeIsExact ==
    \A s \in DOMAIN byKey :
        LET m == byKey[s] IN
        /\ m.count = Cardinality(RecordsOf(s))
        /\ m.seen = {KindOf(i) : i \in RecordsOf(s)}
        /\ Len(m.sources) <= SourcesCap
        /\ \A i, j \in 1..Len(m.sources) : m.sources[i] = m.sources[j] => i = j
        /\ \A i \in 1..Len(m.sources) : m.sources[i] \in SourcesOf(s)
        /\ Len(m.sources) < SourcesCap => \A x \in SourcesOf(s) : InSeq(x, m.sources)
=============================================================================
