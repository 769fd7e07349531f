---------------------------- MODULE DedupProofs ----------------------------
(***************************************************************************)
(* The merge of records into findings is exact, for any records in any     *)
(* order and any bound on the sources that are kept.                       *)
(*                                                                         *)
(* The three promises of Dedup speak of the records the loop has been      *)
(* through, so with the types they are inductive as they stand: a turn of  *)
(* the loop adds one position to Seen, and changes the finding of one key. *)
(***************************************************************************)
EXTENDS Dedup, FiniteSetTheorems, SequenceTheorems, TLAPS

DedupTypeOK ==
    /\ raw \in Seq(Record) /\ next \in 1..(Len(raw) + 1)
    /\ order \in Seq(Site)
    /\ byKey \in [DOMAIN byKey -> Merged] /\ DOMAIN byKey \subseteq Site

\* The list of sources that a finding keeps of the sources found.
ListsSources(sources, found) ==
    /\ sources \in Seq(Source)
    /\ Len(sources) <= SourcesCap
    /\ \A i, j \in 1..Len(sources) : sources[i] = sources[j] => i = j
    /\ \A i \in 1..Len(sources) : sources[i] \in found
    /\ Len(sources) < SourcesCap => \A x \in found : InSeq(x, sources)

-----------------------------------------------------------------------------
(* The list of sources. *)

\* Adding a source keeps the list exact for the sources found so far and this one.
LEMMA AddSourceLists ==
    ASSUME NEW sources, NEW found, ListsSources(sources, found),
           NEW src \in Source \cup {NoSource}
    PROVE  ListsSources(AddSource(sources, src), found \cup ({src} \ {NoSource}))
<1> USE DedupAssumption, SinkCallsAssumption
<1>1. CASE src # NoSource /\ ~InSeq(src, sources) /\ Len(sources) < SourcesCap
  <2> DEFINE longer == Append(sources, src)
  <2>1. AddSource(sources, src) = longer  BY <1>1 DEF AddSource
  <2>2. /\ longer \in Seq(Source) /\ Len(longer) = Len(sources) + 1
        /\ \A i \in 1..Len(sources) : longer[i] = sources[i]
        /\ longer[Len(sources) + 1] = src
    BY <1>1, AppendProperties DEF ListsSources
  <2>3. Len(longer) <= SourcesCap  BY <1>1, <2>2 DEF ListsSources
  <2>4. \A i, j \in 1..Len(longer) : longer[i] = longer[j] => i = j
    BY <1>1, <2>2 DEF ListsSources, InSeq
  <2>5. \A i \in 1..Len(longer) : longer[i] \in found \cup ({src} \ {NoSource})
    BY <1>1, <2>2 DEF ListsSources
  <2>6. \A x \in found \cup {src} : InSeq(x, longer)
    BY <1>1, <2>2 DEF ListsSources, InSeq
  <2> QED  BY <2>1, <2>2, <2>3, <2>4, <2>5, <2>6 DEF ListsSources
<1>2. CASE ~(src # NoSource /\ ~InSeq(src, sources) /\ Len(sources) < SourcesCap)
  BY <1>2 DEF AddSource, ListsSources
<1> QED  BY <1>1, <1>2

\* A new finding lists the source of its record.
LEMMA MakeFindingLists ==
    ASSUME NEW record \in Record, NEW kind \in Kind
    PROVE  /\ MakeFinding(record, kind) \in Merged
           /\ ListsSources(MakeFinding(record, kind).sources, {record.source} \ {NoSource})
<1> USE DedupAssumption, SinkCallsAssumption
<1>1. CASE record.source = NoSource
  BY <1>1 DEF MakeFinding, Merged, Record, ListsSources, InSeq
<1>2. CASE record.source # NoSource
  BY <1>2 DEF MakeFinding, Merged, Record, ListsSources, InSeq
<1> QED  BY <1>1, <1>2

LEMMA NormalizedKind ==
    ASSUME NEW kind  PROVE  NormalizeKind(kind) \in Kind
BY DEF NormalizeKind, Kind

-----------------------------------------------------------------------------
(* A turn of the loop. *)

\* One more record is among those the loop has been through.
LEMMA OneMoreRecord ==
    ASSUME DedupTypeOK, ~Finished, raw' = raw, next' = next + 1
    PROVE  /\ Item \in Record /\ next \in 1..Len(raw) /\ next \notin Seen
           /\ Seen' = Seen \cup {next}
           /\ \A i \in Seen : raw[i] \in Record
           /\ \A i : KindOf(i)' = KindOf(i)
           /\ \A s : RecordsOf(s)' = RecordsOf(s) \cup (IF s = Item.site THEN {next} ELSE {})
           /\ \A s : SourcesOf(s)' =
                SourcesOf(s) \cup (IF s = Item.site THEN {Item.source} \ {NoSource} ELSE {})
<1>1. next \in 1..Len(raw)  BY DEF DedupTypeOK, Finished
<1>2. Item \in Record /\ \A i \in Seen : raw[i] \in Record
  BY <1>1 DEF DedupTypeOK, Item, Seen
<1>3. Seen' = Seen \cup {next} /\ next \notin Seen  BY <1>1 DEF Seen
<1>4. \A s : RecordsOf(s)' = RecordsOf(s) \cup (IF s = Item.site THEN {next} ELSE {})
  BY <1>3 DEF RecordsOf, Item
<1>5. \A s : SourcesOf(s)' =
        SourcesOf(s) \cup (IF s = Item.site THEN {Item.source} \ {NoSource} ELSE {})
  BY <1>4 DEF SourcesOf, Item
<1> QED  BY <1>1, <1>2, <1>3, <1>4, <1>5 DEF KindOf

LEMMA FiniteRecords ==
    ASSUME DedupTypeOK, NEW s
    PROVE  IsFiniteSet(RecordsOf(s)) /\ Cardinality(RecordsOf(s)) \in Nat
<1>1. IsFiniteSet(Seen)  BY FS_Interval DEF Seen, DedupTypeOK
<1> QED  BY <1>1, FS_Subset, FS_CardinalityType DEF RecordsOf
DedupInv == DedupTypeOK /\ EverySiteOnce /\ StrongestRecordWins /\ MergeIsExact

\* What the promises say of one finding m with the records rs and the sources found.
Exact(m, rs, found) ==
    /\ m.count = Cardinality(rs)
    /\ m.seen = {KindOf(i) : i \in rs}
    /\ ListsSources(m.sources, found)
Strongest(m, rs) ==
    \E i \in rs :
        /\ m.kind = KindOf(i) /\ m.source = raw[i].source
        /\ \A j \in rs :
            /\ Priority[KindOf(j)] <= Priority[KindOf(i)]
            /\ j < i => Priority[KindOf(j)] < Priority[KindOf(i)]

LEMMA PromisesByFinding ==
    ASSUME DedupTypeOK
    PROVE  /\ StrongestRecordWins <=> \A s \in DOMAIN byKey : Strongest(byKey[s], RecordsOf(s))
           /\ MergeIsExact <=> \A s \in DOMAIN byKey : Exact(byKey[s], RecordsOf(s), SourcesOf(s))
<1>1. \A s \in DOMAIN byKey : byKey[s].sources \in Seq(Source)  BY DEF DedupTypeOK, Merged
<1> QED
  BY <1>1 DEF StrongestRecordWins, Strongest, MergeIsExact, Exact, ListsSources

LEMMA Priorities == \A kind \in Kind : Priority[kind] \in 1..4
BY DEF Kind, Priority

\* The kinds of the records that are in.
LEMMA KindsOfRecords == \A i : KindOf(i) \in Kind
BY NormalizedKind DEF KindOf

\* A key that is met for the first time.
LEMMA FirstHitKeepsInv ==
    ASSUME DedupInv, FirstHit
    PROVE  DedupInv'
<1> PICK s0 : s0 = Item.site  OBVIOUS
<1>1. ~Finished /\ raw' = raw /\ next' = next + 1 /\ s0 \notin DOMAIN byKey
  BY DEF FirstHit
<1>2. DedupTypeOK  BY DEF DedupInv
<1>3. /\ Item \in Record /\ next \in 1..Len(raw) /\ next \notin Seen
      /\ Seen' = Seen \cup {next}
      /\ \A i \in Seen : raw[i] \in Record
      /\ \A i : KindOf(i)' = KindOf(i)
      /\ \A s : RecordsOf(s)' = RecordsOf(s) \cup (IF s = s0 THEN {next} ELSE {})
      /\ \A s : SourcesOf(s)' = SourcesOf(s) \cup (IF s = s0 THEN {Item.source} \ {NoSource} ELSE {})
  BY <1>1, <1>2, OneMoreRecord
<1>4. DOMAIN byKey = {raw[i].site : i \in Seen} /\ DOMAIN byKey = {order[i] : i \in 1..Len(order)}
  BY DEF DedupInv, EverySiteOnce
<1>5. RecordsOf(s0) = {} /\ SourcesOf(s0) = {}  BY <1>1, <1>4 DEF RecordsOf, SourcesOf
<1>6. RecordsOf(s0)' = {next} /\ SourcesOf(s0)' = {Item.source} \ {NoSource}  BY <1>3, <1>5
<1>7. s0 \in Site /\ ItemKind \in Kind /\ ItemKind = KindOf(next)
  BY <1>3, NormalizedKind DEF Record, ItemKind, KindOf, Item
<1> DEFINE m0 == MakeFinding(Item, ItemKind)
<1>8. m0 \in Merged /\ ListsSources(m0.sources, {Item.source} \ {NoSource})
  BY <1>3, <1>7, MakeFindingLists
<1>9. /\ DOMAIN byKey' = DOMAIN byKey \cup {s0}
      /\ byKey' = [s \in DOMAIN byKey' |-> IF s = s0 THEN m0 ELSE byKey[s]]
      /\ byKey'[s0] = m0
      /\ \A s \in DOMAIN byKey : s # s0 /\ byKey'[s] = byKey[s]
  BY <1>1 DEF FirstHit
<1>10. /\ order' \in Seq(Site) /\ Len(order') = Len(order) + 1
       /\ \A i \in 1..Len(order) : order'[i] = order[i]
       /\ order'[Len(order) + 1] = s0
  BY <1>2, <1>7, AppendProperties DEF FirstHit, DedupTypeOK
<1>11. DedupTypeOK'
  <2>1. \A s \in DOMAIN byKey' : byKey'[s] \in Merged  BY <1>2, <1>8, <1>9 DEF DedupTypeOK
  <2>2. byKey' \in [DOMAIN byKey' -> Merged]
    BY <1>9, <2>1
  <2> QED  BY <1>1, <1>2, <1>3, <1>7, <1>9, <1>10, <2>2 DEF DedupTypeOK
<1>12. EverySiteOnce'
  <2>1. DOMAIN byKey' = {raw'[i].site : i \in Seen'}
    <3>1. {raw'[i].site : i \in Seen'} = {raw[i].site : i \in Seen} \cup {raw[next].site}
      BY <1>1, <1>3
    <3> QED  BY <1>4, <1>9, <3>1 DEF Item
  <2>2. DOMAIN byKey' = {order'[i] : i \in 1..Len(order')}
    <3>1. 1..Len(order') = 1..Len(order) \cup {Len(order) + 1}  BY <1>2, <1>10 DEF DedupTypeOK
    <3> QED  BY <1>4, <1>9, <1>10, <3>1
  <2>3. ASSUME NEW i \in 1..Len(order'), NEW j \in 1..Len(order'), i < j,
               NEW x, NEW y, x = order'[i], y = order'[j]
        PROVE  \E m \in RecordsOf(x)' : \A n \in RecordsOf(y)' : m < n
    <3>0. Len(order) \in Nat  BY <1>2 DEF DedupTypeOK
    <3>1. i \in 1..Len(order) /\ x = order[i] /\ x \in DOMAIN byKey /\ x # s0
      <4>1. i \in 1..Len(order)  BY <1>10, <2>3, <3>0
      <4>2. x = order[i]  BY <1>10, <2>3, <4>1
      <4>3. x \in DOMAIN byKey  BY <1>4, <4>1, <4>2
      <4> QED  BY <1>1, <4>1, <4>2, <4>3
    <3>2. RecordsOf(x)' = RecordsOf(x)  BY <1>3, <3>1
    <3>3. CASE j = Len(order) + 1
      <4>1. PICK m \in Seen : raw[m].site = x  BY <1>4, <3>1
      <4>2. m \in RecordsOf(x) /\ m < next
        BY <1>2, <4>1 DEF RecordsOf, Seen, DedupTypeOK
      <4> QED  BY <1>6, <1>10, <2>3, <3>2, <3>3, <4>2
    <3>4. CASE j # Len(order) + 1
      <4>1. j \in 1..Len(order) /\ y = order[j] /\ y # s0
        <5>1. j \in 1..Len(order)  BY <1>10, <2>3, <3>0, <3>4
        <5>2. y = order[j]  BY <1>10, <2>3, <5>1
        <5>3. y \in DOMAIN byKey  BY <1>4, <5>1, <5>2
        <5> QED  BY <1>1, <5>1, <5>2, <5>3
      <4>2. RecordsOf(y)' = RecordsOf(y)  BY <1>3, <4>1
      <4>3. \E m \in RecordsOf(order[i]) : \A n \in RecordsOf(order[j]) : m < n
        BY <2>3, <3>1, <4>1 DEF DedupInv, EverySiteOnce
      <4> QED  BY <3>1, <3>2, <4>1, <4>2, <4>3
    <3> QED  BY <3>3, <3>4
  <2>4. \A i, j \in 1..Len(order') : i < j =>
            \E m \in RecordsOf(order[i])' : \A n \in RecordsOf(order[j])' : m < n
    BY <2>3 DEF RecordsOf
  <2> QED  BY <2>1, <2>2, <2>4 DEF EverySiteOnce
<1>13. ASSUME NEW s \in DOMAIN byKey'
       PROVE  Strongest(byKey[s], RecordsOf(s))' /\ Exact(byKey[s], RecordsOf(s), SourcesOf(s))'
  <2>1. CASE s = s0
    <3>1. Cardinality({next}) = 1  BY FS_Singleton
    <3>2. /\ m0.kind = ItemKind /\ m0.source = Item.source /\ m0.count = 1 /\ m0.seen = {ItemKind}
      BY DEF MakeFinding
    <3>3. \A i \in {next} : KindOf(i)' = ItemKind /\ raw'[i].source = Item.source
      BY <1>1, <1>3, <1>7 DEF Item
    <3>4. Strongest(byKey[s], RecordsOf(s))'
      BY <1>3, <1>6, <1>7, <1>9, <2>1, <3>2, <3>3, Priorities DEF Strongest
    <3>5. Exact(byKey[s], RecordsOf(s), SourcesOf(s))'
      <4>1. (m0.count = Cardinality(RecordsOf(s)'))  BY <1>6, <2>1, <3>1, <3>2
      <4>2. m0.seen = {KindOf(i)' : i \in RecordsOf(s)'}  BY <1>6, <2>1, <3>2, <3>3
      <4>3. ListsSources(m0.sources, SourcesOf(s)')  BY <1>6, <1>8, <2>1
      <4>4. byKey'[s] = m0  BY <1>9, <2>1
      <4> HIDE DEF m0
      <4> QED  BY <4>1, <4>2, <4>3, <4>4 DEF Exact, ListsSources, InSeq
    <3> QED  BY <3>4, <3>5
  <2>2. CASE s # s0
    <3>1. /\ s \in DOMAIN byKey /\ byKey'[s] = byKey[s]
          /\ RecordsOf(s)' = RecordsOf(s) /\ SourcesOf(s)' = SourcesOf(s)
      BY <1>3, <1>9, <2>2
    <3>2. Strongest(byKey[s], RecordsOf(s)) /\ Exact(byKey[s], RecordsOf(s), SourcesOf(s))
      BY <1>2, <3>1, PromisesByFinding DEF DedupInv
    <3> QED  BY <1>1, <1>3, <3>1, <3>2 DEF Strongest, Exact, ListsSources, InSeq
  <2> QED  BY <2>1, <2>2
<1>14. \A s \in DOMAIN byKey' : byKey'[s].sources \in Seq(Source)
  BY <1>11 DEF DedupTypeOK, Merged
<1>15. StrongestRecordWins'  BY <1>13 DEF StrongestRecordWins, Strongest
<1>16. MergeIsExact'  BY <1>13, <1>14 DEF MergeIsExact, Exact, ListsSources
<1> QED  BY <1>11, <1>12, <1>15, <1>16 DEF DedupInv

\* One more record of a key that is known.
LEMMA MergeItemKeepsInv ==
    ASSUME DedupInv, ~Finished, Item.site \in DOMAIN byKey, NEW base \in Merged, MergeItem(base),
           \/ Stronger /\ base.kind = ItemKind /\ base.source = Item.source
           \/ ~Stronger /\ base = byKey[Item.site]
    PROVE  DedupInv'
<1> PICK s0 : s0 = Item.site  OBVIOUS
<1> PICK m1 : m1 = [base EXCEPT !.seen = byKey[s0].seen \cup {ItemKind},
                                !.count = byKey[s0].count + 1,
                                !.sources = AddSource(byKey[s0].sources, Item.source)]
  OBVIOUS
<1>1. raw' = raw /\ next' = next + 1 /\ order' = order /\ byKey' = [byKey EXCEPT ![s0] = m1]
  BY DEF MergeItem
<1>2. DedupTypeOK  BY DEF DedupInv
<1>3. /\ Item \in Record /\ next \in 1..Len(raw) /\ next \notin Seen
      /\ Seen' = Seen \cup {next}
      /\ \A i \in Seen : raw[i] \in Record
      /\ \A i : KindOf(i)' = KindOf(i)
      /\ \A s : RecordsOf(s)' = RecordsOf(s) \cup (IF s = s0 THEN {next} ELSE {})
      /\ \A s : SourcesOf(s)' = SourcesOf(s) \cup (IF s = s0 THEN {Item.source} \ {NoSource} ELSE {})
  BY <1>1, <1>2, OneMoreRecord
<1>4. DOMAIN byKey = {raw[i].site : i \in Seen} /\ DOMAIN byKey = {order[i] : i \in 1..Len(order)}
  BY DEF DedupInv, EverySiteOnce
<1>5. RecordsOf(s0)' = RecordsOf(s0) \cup {next} /\ next \notin RecordsOf(s0)
      /\ SourcesOf(s0)' = SourcesOf(s0) \cup ({Item.source} \ {NoSource})
  BY <1>3 DEF RecordsOf
<1>6. ItemKind \in Kind /\ ItemKind = KindOf(next) /\ Item.source \in Source \cup {NoSource}
  BY <1>3, NormalizedKind DEF Record, ItemKind, KindOf, Item
<1>7. byKey[s0] \in Merged  BY <1>2 DEF DedupTypeOK
<1>8. Strongest(byKey[s0], RecordsOf(s0)) /\ Exact(byKey[s0], RecordsOf(s0), SourcesOf(s0))
  BY <1>2, PromisesByFinding DEF DedupInv
<1>9. ListsSources(AddSource(byKey[s0].sources, Item.source), SourcesOf(s0) \cup ({Item.source} \ {NoSource}))
  BY <1>6, <1>8, AddSourceLists DEF Exact
<1>10. /\ m1 \in Merged
       /\ m1.kind = base.kind /\ m1.source = base.source
       /\ m1.count = byKey[s0].count + 1 /\ m1.seen = byKey[s0].seen \cup {ItemKind}
       /\ m1.sources = AddSource(byKey[s0].sources, Item.source)
  <2> DEFINE m2 == [kind |-> base.kind, source |-> base.source,
                    seen |-> byKey[s0].seen \cup {ItemKind}, count |-> byKey[s0].count + 1,
                    sources |-> AddSource(byKey[s0].sources, Item.source)]
  <2>1. m1 = m2  BY DEF Merged
  <2>2. m2 \in Merged  BY <1>6, <1>7, <1>9 DEF Merged, ListsSources
  <2> QED  BY <2>1, <2>2
<1>11. /\ DOMAIN byKey' = DOMAIN byKey /\ byKey'[s0] = m1
       /\ \A s \in DOMAIN byKey : s # s0 => byKey'[s] = byKey[s]
  BY <1>1
<1>12. DedupTypeOK'
  <2>1. byKey' \in [DOMAIN byKey' -> Merged]  BY <1>1, <1>2, <1>10, <1>11 DEF DedupTypeOK
  <2> QED  BY <1>1, <1>2, <1>3, <1>11, <2>1 DEF DedupTypeOK
<1>13. EverySiteOnce'
  <2>1. DOMAIN byKey' = {raw'[i].site : i \in Seen'}
    <3>1. {raw'[i].site : i \in Seen'} = {raw[i].site : i \in Seen} \cup {raw[next].site}
      BY <1>1, <1>3
    <3> QED  BY <1>4, <1>11, <3>1 DEF Item
  <2>2. ASSUME NEW i \in 1..Len(order'), NEW j \in 1..Len(order'), i < j,
               NEW x, NEW y, x = order'[i], y = order'[j]
        PROVE  \E m \in RecordsOf(x)' : \A n \in RecordsOf(y)' : m < n
    <3>1. PICK m \in RecordsOf(x) : \A n \in RecordsOf(y) : m < n
      <4>1. i \in 1..Len(order) /\ j \in 1..Len(order) /\ x = order[i] /\ y = order[j]
        BY <1>1, <2>2
      <4>2. \E m \in RecordsOf(order[i]) : \A n \in RecordsOf(order[j]) : m < n
        BY <2>2, <4>1 DEF DedupInv, EverySiteOnce
      <4> QED  BY <4>1, <4>2
    <3>2. m < next  BY <1>2, <3>1 DEF RecordsOf, Seen, DedupTypeOK
    <3> QED  BY <1>3, <3>1, <3>2
  <2>3. \A i, j \in 1..Len(order') : i < j =>
            \E m \in RecordsOf(order[i])' : \A n \in RecordsOf(order[j])' : m < n
    BY <2>2 DEF RecordsOf
  <2>4. DOMAIN byKey' = {order'[i] : i \in 1..Len(order')}
    <3>1. order' = order  BY <1>1
    <3> QED  BY <1>4, <1>11, <3>1
  <2> QED  BY <2>1, <2>3, <2>4 DEF EverySiteOnce
<1>14. Exact(m1, RecordsOf(s0)', SourcesOf(s0)')
  <2>1. Cardinality(RecordsOf(s0)') = Cardinality(RecordsOf(s0)) + 1
    BY <1>2, <1>5, FiniteRecords, FS_AddElement
  <2>2. m1.seen = {KindOf(i) : i \in RecordsOf(s0)'}
    BY <1>5, <1>6, <1>8, <1>10 DEF Exact
  <2> QED  BY <1>5, <1>8, <1>9, <1>10, <2>1, <2>2 DEF Exact
<1>15. Strongest(m1, RecordsOf(s0)')
  <2>1. \A i \in RecordsOf(s0)' : KindOf(i) \in Kind /\ Priority[KindOf(i)] \in 1..4
    BY KindsOfRecords, Priorities
  <2>2. PICK i \in RecordsOf(s0) :
            /\ byKey[s0].kind = KindOf(i) /\ byKey[s0].source = raw[i].source
            /\ \A j \in RecordsOf(s0) :
                /\ Priority[KindOf(j)] <= Priority[KindOf(i)]
                /\ j < i => Priority[KindOf(j)] < Priority[KindOf(i)]
    BY <1>8 DEF Strongest
  <2>3. \A j \in RecordsOf(s0) : j < next  BY <1>2, <1>3 DEF RecordsOf, Seen, DedupTypeOK
  <2>4. next \in Nat /\ RecordsOf(s0) \subseteq Nat  BY <1>2 DEF RecordsOf, Seen, DedupTypeOK
  <2>5. CASE Stronger
    <3>1. Priority[KindOf(next)] > Priority[KindOf(i)]
      BY <1>6, <2>2, <2>5 DEF Stronger
    <3>2. m1.kind = KindOf(next) /\ m1.source = raw[next].source
      BY <1>6, <1>10, <2>5 DEF Item
    <3>3. \A j \in RecordsOf(s0) : Priority[KindOf(j)] < Priority[KindOf(next)]
      BY <1>5, <2>1, <2>2, <3>1
    <3> QED  BY <1>5, <2>1, <2>4, <3>2, <3>3 DEF Strongest
  <2>6. CASE ~Stronger
    <3>1. Priority[KindOf(next)] <= Priority[KindOf(i)]
      BY <1>5, <1>6, <2>1, <2>2, <2>6 DEF Stronger
    <3>2. m1.kind = KindOf(i) /\ m1.source = raw[i].source  BY <1>10, <2>2, <2>6
    <3>3. ~(next < i)  BY <2>2, <2>3, <2>4
    <3> QED  BY <1>5, <2>2, <3>1, <3>2, <3>3 DEF Strongest
  <2> QED  BY <2>5, <2>6
<1>16. ASSUME NEW s \in DOMAIN byKey'
       PROVE  Strongest(byKey[s], RecordsOf(s))' /\ Exact(byKey[s], RecordsOf(s), SourcesOf(s))'
  <2>1. CASE s = s0
    <3>1. byKey'[s] = m1  BY <1>11, <2>1
    <3>2. Strongest(byKey[s], RecordsOf(s))'
      <4>1. raw' = raw /\ \A i : KindOf(i)' = KindOf(i)  BY <1>1, <1>3
      <4>2. PICK i \in RecordsOf(s0)' :
                /\ m1.kind = KindOf(i) /\ m1.source = raw[i].source
                /\ \A j \in RecordsOf(s0)' :
                    /\ Priority[KindOf(j)] <= Priority[KindOf(i)]
                    /\ j < i => Priority[KindOf(j)] < Priority[KindOf(i)]
        BY <1>15 DEF Strongest
      <4>3. RecordsOf(s)' = RecordsOf(s0)'  BY <2>1
      <4> QED  BY <3>1, <4>1, <4>2, <4>3 DEF Strongest
    <3>3. Exact(byKey[s], RecordsOf(s), SourcesOf(s))'
      <4>1. raw' = raw /\ \A i : KindOf(i)' = KindOf(i)  BY <1>1, <1>3
      <4>2. Exact(m1, RecordsOf(s)', SourcesOf(s)')  BY <1>14, <2>1
      <4> QED  BY <3>1, <4>1, <4>2 DEF Exact
    <3> QED  BY <3>2, <3>3
  <2>2. CASE s # s0
    <3>1. /\ s \in DOMAIN byKey /\ byKey'[s] = byKey[s]
          /\ RecordsOf(s)' = RecordsOf(s) /\ SourcesOf(s)' = SourcesOf(s)
      BY <1>3, <1>11, <2>2
    <3>2. Strongest(byKey[s], RecordsOf(s)) /\ Exact(byKey[s], RecordsOf(s), SourcesOf(s))
      BY <1>2, <3>1, PromisesByFinding DEF DedupInv
    <3>3. raw' = raw /\ \A i : KindOf(i)' = KindOf(i)  BY <1>1, <1>3
    <3> QED  BY <3>1, <3>2, <3>3 DEF Strongest, Exact, ListsSources, InSeq
  <2> QED  BY <2>1, <2>2
<1>17. \A s \in DOMAIN byKey' : byKey'[s].sources \in Seq(Source)
  BY <1>12 DEF DedupTypeOK, Merged
<1>18. StrongestRecordWins'  BY <1>16 DEF StrongestRecordWins, Strongest
<1>19. MergeIsExact'  BY <1>16, <1>17 DEF MergeIsExact, Exact, ListsSources
<1> QED  BY <1>12, <1>13, <1>18, <1>19 DEF DedupInv

-----------------------------------------------------------------------------
(* The loop. *)

\* Every turn of the loop, and the start of another one, keeps the invariant.
LEMMA DedupStepKeepsInv ==
    ASSUME DedupInv, [DedupNext]_dedupVars
    PROVE  DedupInv'
<1>1. DedupTypeOK  BY DEF DedupInv
<1>2. CASE FirstHit  BY <1>2, FirstHitKeepsInv
<1>3. CASE StrongerHit
  <2>1. PICK base : base = MakeFinding(Item, ItemKind)  OBVIOUS
  <2>2. Item \in Record  BY <1>1, <1>3 DEF StrongerHit, Finished, Item, DedupTypeOK
  <2>3. base \in Merged /\ base.kind = ItemKind /\ base.source = Item.source
    BY <2>1, <2>2, NormalizedKind, MakeFindingLists DEF ItemKind, MakeFinding
  <2> QED  BY <1>3, <2>1, <2>3, MergeItemKeepsInv DEF StrongerHit
<1>4. CASE WeakerHit
  <2>1. PICK base : base = byKey[Item.site]  OBVIOUS
  <2>2. base \in Merged  BY <1>1, <1>4, <2>1 DEF WeakerHit, DedupTypeOK
  <2> QED  BY <1>4, <2>1, <2>2, MergeItemKeepsInv DEF WeakerHit
<1>5. CASE raw' \in Seq(Record) /\ Parse(raw')
  BY <1>5, LenProperties DEF Parse, DedupInv, DedupTypeOK, EverySiteOnce, StrongestRecordWins, MergeIsExact,
            NoFindings, Seen
<1>6. CASE UNCHANGED dedupVars
  <2>1. raw' = raw /\ next' = next /\ byKey' = byKey /\ order' = order  BY <1>6 DEF dedupVars
  <2>2. DedupTypeOK'  BY <1>1, <2>1 DEF DedupTypeOK
  <2>3. /\ Seen' = Seen
        /\ \A s : RecordsOf(s)' = RecordsOf(s) /\ SourcesOf(s)' = SourcesOf(s)
        /\ \A i : KindOf(i)' = KindOf(i)
    BY <2>1 DEF Seen, RecordsOf, SourcesOf, KindOf
  <2>4. EverySiteOnce'
    <3>1. {raw'[i].site : i \in Seen'} = {raw[i].site : i \in Seen}  BY <2>1, <2>3
    <3>2. {order'[i] : i \in 1..Len(order')} = {order[i] : i \in 1..Len(order)}  BY <2>1
    <3>3. ASSUME NEW i \in 1..Len(order'), NEW j \in 1..Len(order'), i < j,
                 NEW x, NEW y, x = order'[i], y = order'[j]
          PROVE  \E m \in RecordsOf(x)' : \A n \in RecordsOf(y)' : m < n
      <4>1. i \in 1..Len(order) /\ j \in 1..Len(order) /\ x = order[i] /\ y = order[j]
        BY <2>1, <3>3
      <4>2. \E m \in RecordsOf(order[i]) : \A n \in RecordsOf(order[j]) : m < n
        BY <3>3, <4>1 DEF DedupInv, EverySiteOnce
      <4> QED  BY <2>3, <4>1, <4>2
    <3>4. \A i, j \in 1..Len(order') : i < j =>
            \E m \in RecordsOf(order[i])' : \A n \in RecordsOf(order[j])' : m < n
      BY <3>3 DEF RecordsOf
    <3>5. DOMAIN byKey = {raw[i].site : i \in Seen} /\ DOMAIN byKey = {order[i] : i \in 1..Len(order)}
      BY DEF DedupInv, EverySiteOnce
    <3> QED  BY <2>1, <3>1, <3>2, <3>4, <3>5 DEF EverySiteOnce
  <2>5. ASSUME NEW s \in DOMAIN byKey'
        PROVE  Strongest(byKey[s], RecordsOf(s))' /\ Exact(byKey[s], RecordsOf(s), SourcesOf(s))'
    <3>1. Strongest(byKey[s], RecordsOf(s)) /\ Exact(byKey[s], RecordsOf(s), SourcesOf(s))
      BY <1>1, <2>1, PromisesByFinding DEF DedupInv
    <3> QED  BY <2>1, <2>3, <3>1 DEF Strongest, Exact, ListsSources, InSeq
  <2>6. \A s \in DOMAIN byKey' : byKey'[s].sources \in Seq(Source)
    BY <2>2 DEF DedupTypeOK, Merged
  <2>7. StrongestRecordWins'  BY <2>5 DEF StrongestRecordWins, Strongest
  <2>8. MergeIsExact'  BY <2>5, <2>6 DEF MergeIsExact, Exact, ListsSources
  <2> QED  BY <2>2, <2>4, <2>7, <2>8 DEF DedupInv
<1> QED  BY <1>2, <1>3, <1>4, <1>5, <1>6 DEF DedupNext, MergeNext

\* The merge keeps its types and its promises, for whatever records it is given.
LEMMA MergeInvariant == DedupSpec => []DedupInv
<1>1. DedupInit => DedupInv
  BY DEF DedupInit, DedupInv, DedupTypeOK, EverySiteOnce, StrongestRecordWins, MergeIsExact,
         NoFindings, Seen
<1>2. DedupInv /\ [DedupNext]_dedupVars => DedupInv'  BY DedupStepKeepsInv
<1> QED  BY <1>1, <1>2, PTL DEF DedupSpec

\* _parse_taint_results drops no sink call and lists none twice, however often and by
\* whichever of the four queries it is reported.
THEOREM MergeListsEverySite == DedupSpec => []EverySiteOnce
<1>1. DedupInv => EverySiteOnce  BY DEF DedupInv
<1> QED  BY <1>1, MergeInvariant, PTL

\* What _parse_taint_results presents of a sink call is its strongest record, and the
\* first of those, in whatever order the queries deliver them.
THEOREM MergePrefersStrongest == DedupSpec => []StrongestRecordWins
<1>1. DedupInv => StrongestRecordWins  BY DEF DedupInv
<1> QED  BY <1>1, MergeInvariant, PTL

\* The counts, kinds and sources that _parse_taint_results notes of the records it
\* merged are exact, up to the cap on the sources.
THEOREM MergeLosesNothing == DedupSpec => []MergeIsExact
<1>1. DedupInv => MergeIsExact  BY DEF DedupInv
<1> QED  BY <1>1, MergeInvariant, PTL
=============================================================================
