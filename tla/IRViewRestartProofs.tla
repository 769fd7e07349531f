------------------------ MODULE IRViewRestartProofs ------------------------
(***************************************************************************)
(* What the in-memory code graph still promises while reloads and cleanups *)
(* overlap any other requests, for any number of handlers, any units,      *)
(* kinds and relations.                                                    *)
(*                                                                         *)
(* IInv of IRViewProofs is used as it stands.  RInv says what a coroutine  *)
(* may rely on that was not overtaken: it comes back from an await to the  *)
(* nodes it had looked up, of the CPG it had asked; and what any coroutine *)
(* may rely on: during a reload all that is added is late, and a sync that *)
(* precedes a clear leaves behind only what others have changed since.     *)
(* TInv follows the iteration of get_all_relations_by_kind while others    *)
(* add units and edges.                                                    *)
(***************************************************************************)
EXTENDS IRViewProofs, IRViewOverlap

-----------------------------------------------------------------------------
(* The inductive invariant.                                                   *)

\* Only a sync comes before a clear, only a clear before a reload.
ShapeOK(s) ==
    \A i \in 1..Len(s) :
        /\ s[i].op = "clear" => i = 1 \/ (i = 2 /\ s[1].op = "sync")
        /\ s[i].op = "reload" => i = 1 \/ (i = 2 /\ s[1].op = "clear")

Shapes == \A t \in Task : ShapeOK(script[t])

\* A reload of the backend overtakes every other request.
Overtakes ==
    \A t, u \in Task :
        u # t /\ Reloading(script[t]) /\ script[u] # <<>> => u \in overtaken

EdgeOf(op, c, v) == IF op = "in" THEN <<v, c>> ELSE <<c, v>>

\* The phases in which a coroutine looks nodes up.
LooksUp(p) == p.op \notin {"sync", "clear", "reload"}

\* While the neighbours of f.cur are being linked: those that are no longer to
\* be linked are, and nobody takes away a node that was looked up.
Linking(p, f) ==
    f.pc = "link" =>
        /\ Present(f.cur)
        /\ f.pos \in 2..4 => Present(f.tgt)
        /\ p.op \in {"out", "in"} => f.cur = p.arg
        /\ \A v \in Neighbours(f.cur, p.op) :
              v \in f.left \/ (f.pos # 0 /\ v = f.tgt) \/ EdgeOf(p.op, f.cur, v) \in edges

\* The unit it waits for, or adds, is one of the current CPG.
FromCurrent(f) ==
    f.wait \in {"unit", "location", "kind"} \/ f.pc = "adding" => f.from = cpg

\* Of any coroutine in phase p with locals f ...
Fits(p, f) ==
    /\ f.wait = "reload" => p.op = "reload"
    /\ f.wait = "unit" => LooksUp(p)

\* ... and of one that was not overtaken.
Timely(p, f) == FromCurrent(f) /\ Linking(p, f)

\* Whatever the view holds was put there by overtaken coroutines.
AllLate == \A u \in Unit : version[u] # 0 => <<"unit", u, version[u]>> \in late

\* The facts of w are in the backend, unless others added to them or reloaded it.
StoredBut(d, w) == facts[w] <= tags[w] \/ w \in d

\* A sync with locals f before a clear: so are those of the nodes it has visited,
\* except for the f.n facts of f.cur that are still to be stored.
Syncing(f, d) ==
    IF f.pc = "start" THEN f.i = 1 ELSE
        /\ f.wait = "store" => f.from = cpg \/ Unit \subseteq d
        /\ \A w \in Unit :
              \/ StoredBut(d, w)
              \/ /\ f.pc = "store" /\ w = f.cur
                 /\ facts[w] <= tags[w] + f.n + (IF f.wait = "store" THEN 1 ELSE 0)
              \/ \E j \in f.i..Len(nodes) : nodes[j] = w

Local(t) ==
    script[t] # <<>> =>
        /\ Fits(script[t][1], frame[t])
        /\ t \notin overtaken => Timely(script[t][1], frame[t])
        /\ Op(t) = "reload" => AllLate
        /\ Op(t) = "clear" /\ Arg(t) = "synced" => \A w \in Unit : StoredBut(dirty[t], w)
        /\ Op(t) = "sync" /\ Clears(script[t]) => Syncing(frame[t], dirty[t])

ViewOK == ViewIsCurrent /\ EdgesHaveUnits /\ RelationsComplete

RInv == Shapes /\ Overtakes /\ ViewOK /\ \A t \in Task : Local(t)

-----------------------------------------------------------------------------
(* Scripts. *)

LEMMA TailParts ==
  ASSUME NEW s \in Seq(Phases), s # <<>>
  PROVE  /\ Len(Tail(s)) = Len(s) - 1 /\ Len(s) \in Nat \ {0}
         /\ \A i \in 1..Len(Tail(s)) : Tail(s)[i] = s[i + 1] /\ i + 1 \in 1..Len(s)
  <1>1. /\ Tail(s) \in Seq(Phases) /\ Len(Tail(s)) = Len(s) - 1
        /\ \A i \in 1..Len(Tail(s)) : Tail(s)[i] = s[i + 1]
    BY HeadTailProperties
  <1>2. Len(s) \in Nat \ {0}
    BY EmptySeq, LenProperties
  <1> QED BY <1>1, <1>2

LEMMA TailKeeps ==
  ASSUME NEW s \in Seq(Phases), s # <<>>
  PROVE  /\ Clears(Tail(s)) => Clears(s)
         /\ ShapeOK(s) => ShapeOK(Tail(s))
         /\ ShapeOK(s) /\ Tail(s) # <<>> /\ Tail(s)[1].op = "clear" => s[1].op = "sync"
         /\ ShapeOK(s) /\ Tail(s) # <<>> /\ Tail(s)[1].op = "reload" => s[1].op = "clear"
  <1>1. /\ Len(Tail(s)) = Len(s) - 1 /\ Len(s) \in Nat \ {0}
        /\ \A i \in 1..Len(Tail(s)) : Tail(s)[i] = s[i + 1] /\ i + 1 \in 1..Len(s)
    BY TailParts
  <1>2. Clears(Tail(s)) => Clears(s)
    BY <1>1 DEF Clears
  <1>3. ShapeOK(s) => ShapeOK(Tail(s))
    <2> SUFFICES ASSUME ShapeOK(s), NEW i \in 1..Len(Tail(s))
                 PROVE  /\ Tail(s)[i].op = "clear" => i = 1
                        /\ Tail(s)[i].op = "reload" => i = 1
      BY DEF ShapeOK
    <2> QED BY <1>1 DEF ShapeOK
  <1>4. Tail(s) # <<>> => 1 \in 1..Len(Tail(s))
    <2>1. Len(s) # 1 <=> Tail(s) # <<>>
      BY TailOK
    <2> QED BY <1>1, <2>1
  <1>5. Tail(s) # <<>> => Tail(s)[1] = s[2] /\ 2 \in 1..Len(s)
    BY <1>1, <1>4
  <1> QED BY <1>2, <1>3, <1>5 DEF ShapeOK

LEMMA FirstPhase ==
  ASSUME NEW s \in Seq(Phases), s # <<>>
  PROVE  s[1].op = "clear" => Clears(s)
  <1>1. 1 \in 1..Len(s)
    BY TailParts
  <1> QED BY <1>1 DEF Clears

LEMMA IdleScript == ShapeOK(<<>>)
  <1>1. Len(<<>>) = 0
    BY EmptySeq
  <1> QED BY <1>1 DEF ShapeOK

-----------------------------------------------------------------------------
(* What a step does to the view and the backend.                              *)

\* Nodes are appended only, and edges added only.
Ordered ==
    /\ Len(nodes) <= Len(nodes')
    /\ \A j \in 1..Len(nodes) : nodes'[j] = nodes[j]
    /\ edges \subseteq edges'

\* No unit leaves the view, no edge either, and the backend keeps its CPG.
Grows == PresentKept /\ edges \subseteq edges' /\ cpg' = cpg

\* t goes on with locals f, or awaits the backend with them.
Goes(t, f) == Await(t, f) \/ Continue(t, f)

LEMMA SameOrdered ==
  ASSUME IInv, nodes' = nodes, edges' = edges
  PROVE  Ordered
  <1>1. Len(nodes) \in Nat
    BY LenProperties DEF IInv, GraphOK
  <1> QED BY <1>1 DEF Ordered

LEMMA AppendOrdered ==
  ASSUME NEW s \in Seq(Unit), NEW u \in Unit, NEW r, r \in {s, Append(s, u)}
  PROVE  /\ r \in Seq(Unit) /\ Len(s) <= Len(r)
         /\ \A j \in 1..Len(s) : r[j] = s[j]
  <1>1. /\ Append(s, u) \in Seq(Unit) /\ Len(s) \in Nat
        /\ Len(Append(s, u)) = Len(s) + 1
        /\ \A j \in 1..Len(s) : Append(s, u)[j] = s[j]
    BY AppendProperties, LenProperties
  <1>2. CASE r = s
    BY <1>1, <1>2
  <1>3. CASE r = Append(s, u)
    BY <1>1, <1>3
  <1> QED BY <1>2, <1>3

LEMMA AddUnitOrdered ==
  ASSUME IInv, NEW u \in Unit, NEW v, AddUnit(u, v)
  PROVE  Ordered
  <1>1. nodes' \in {nodes, Append(nodes, u)} /\ edges' = edges /\ nodes \in Seq(Unit)
    BY DEF AddUnit, IInv, GraphOK
  <1> QED BY <1>1, AppendOrdered DEF Ordered

LEMMA AddEdgeOrdered ==
  ASSUME IInv, NEW s \in Unit, NEW d \in Unit, AddEdge(s, d)
  PROVE  Ordered
  <1> DEFINE with(seq, u) ==
               IF \E i \in 1..Len(seq) : seq[i] = u THEN seq ELSE Append(seq, u)
  <1>1. nodes' = with(with(nodes, s), d) /\ edges' = edges \cup {<<s, d>>}
    BY DEF AddEdge
  <1>2. PICK one : one = with(nodes, s)
    OBVIOUS
  <1>3. PICK two : two = with(one, d)
    OBVIOUS
  <1>4. /\ nodes \in Seq(Unit) /\ one \in {nodes, Append(nodes, s)}
        /\ two \in {one, Append(one, d)} /\ nodes' = two
    BY <1>1, <1>2, <1>3 DEF IInv, GraphOK
  <1> HIDE DEF with
  <1>5. one \in Seq(Unit) /\ Len(nodes) <= Len(one) /\ \A j \in 1..Len(nodes) : one[j] = nodes[j]
    BY <1>4, AppendOrdered
  <1>6. two \in Seq(Unit) /\ Len(one) <= Len(two) /\ \A j \in 1..Len(one) : two[j] = one[j]
    BY <1>4, <1>5, AppendOrdered
  <1>7. Len(nodes) \in Nat /\ Len(one) \in Nat /\ Len(two) \in Nat
    BY <1>4, <1>5, <1>6, LenProperties
  <1>8. Len(nodes) <= Len(two) /\ \A j \in 1..Len(nodes) : two[j] = nodes[j]
    BY <1>5, <1>6, <1>7
  <1> QED BY <1>1, <1>4, <1>8 DEF Ordered

LEMMA ObtainOrdered ==
  ASSUME IInv, NEW t, NEW u, NEW f, Obtain(t, u, f)
  PROVE  Ordered /\ UNCHANGED relationKindLoaded
  BY SameOrdered DEF Obtain, Fetch, graph, loaded

\* But for a clear the graph only grows.
LEMMA StepOrdered ==
  ASSUME IInv, NEW t \in Task, HandleRequest(t) \/ Step(t) \/ Arrival(t), ~Clear(t)
  PROVE  Ordered /\ (GetAllRelationsByKind(t) \/ UNCHANGED relationKindLoaded)
  <1>1. UNCHANGED <<graph, loaded>> => Ordered /\ UNCHANGED relationKindLoaded
    BY SameOrdered DEF graph, loaded
  <1>2. CASE HandleRequest(t) \/ FetchUnit(t) \/ GetAllUnitsByKind(t) \/ SyncBackend(t)
    BY <1>1, <1>2 DEF HandleRequest, FetchUnit, GetAllUnitsByKind, SyncBackend
  <1>3. CASE Reload(t) \/ AnswerArrives(t) \/ TagStored(t) \/ Reloaded(t) \/ BackendFails(t)
    BY <1>1, <1>3 DEF Reload, AnswerArrives, TagStored, Reloaded, BackendFails
  <1>4. CASE GetAllRelationsByKind(t)
    BY <1>4, SameOrdered DEF GetAllRelationsByKind, graph
  <1>5. CASE GetUnit(t) \/ GetRelatedUnits(t)
    BY <1>1, <1>5, ObtainOrdered DEF GetUnit, GetRelatedUnits
  <1>6. CASE AddUnitFact(t)
    BY <1>1, <1>6, ObtainOrdered, SameOrdered DEF AddUnitFact, AppendFact, loaded
  <1>7. CASE LoadFacts(t)
    BY <1>1, <1>7, ObtainOrdered, SameOrdered DEF LoadFacts, AppendFact, loaded
  <1>8. CASE Link(t)
    <2>1. CASE UNCHANGED graph /\ (UNCHANGED loaded \/ UNCHANGED relationKindLoaded)
      BY <2>1, SameOrdered DEF graph, loaded
    <2>2. CASE Obtain(t, LookedUp(t), [frame[t] EXCEPT !.pos = @ + 1])
      BY <2>2, ObtainOrdered
    <2>3. CASE frame[t].pos = 4 /\ AddEdge(Source(t), Target(t)) /\ UNCHANGED loaded
      <3>1. /\ running = t /\ frame[t].pc = "link"
        BY <1>8 DEF Link, At
      <3>2. frame[t].cur \in Unit /\ frame[t].tgt \in Unit
        BY <2>3, <3>1, RunningTask, NeighboursAreUnits DEF IInv, LocalsOK
      <3>3. Source(t) \in Unit /\ Target(t) \in Unit
        BY <3>2 DEF Source, Target
      <3> QED BY <2>3, <3>3, AddEdgeOrdered DEF loaded
    <2> QED BY <1>8, <2>1, <2>2, <2>3 DEF Link
  <1>9. CASE UnitArrives(t)
    <2>1. running = NoTask /\ frame[t].wait = "unit" /\ UNCHANGED relationKindLoaded
      BY <1>9 DEF UnitArrives, Answered
    <2>2. frame[t].need \in Unit
      BY <2>1, AnsweredTask DEF IInv, LocalsOK
    <2> QED BY <1>9, <2>1, <2>2, AddUnitOrdered, SameOrdered DEF UnitArrives, graph
  <1>10. CASE LocationArrives(t)
    <2>1. running = NoTask /\ frame[t].wait = "location"
      BY <1>10 DEF LocationArrives, Answered
    <2>2. Arg(t) \in Unit
      BY <2>1, AnsweredTask, PhaseArg DEF IInv, LocalsOK, Arg
    <2> QED BY <1>10, <2>2, AddUnitOrdered, SameOrdered DEF LocationArrives, graph, loaded
  <1>11. CASE AddUnitsOfKind(t)
    <2>1. running = t
      BY <1>11 DEF AddUnitsOfKind, At
    <2>2. frame[t].left \subseteq Unit
      BY <2>1, RunningTask DEF IInv, Frames
    <2> QED BY <1>11, <2>2, AddUnitOrdered, SameOrdered DEF AddUnitsOfKind, graph
  <1> QED BY <1>2, <1>3, <1>4, <1>5, <1>6, <1>7, <1>8, <1>9, <1>10, <1>11 DEF Step, Arrival

LEMMA HasUnit ==
  ASSUME GraphOK
  PROVE  \A u \in Unit : version[u] # 0 <=> Present(u)
  BY DEF GraphOK, IndexMatchesGraph, Present

LEMMA ObtainPresent ==
  ASSUME IInv, NEW t, NEW u, NEW f, Obtain(t, u, f)
  PROVE  PresentKept
  BY SameGraph DEF Obtain, Fetch, IInv

\* ... and no unit leaves it.
LEMMA StepPresent ==
  ASSUME IInv, NEW t \in Task, HandleRequest(t) \/ Step(t) \/ Arrival(t), ~Clear(t)
  PROVE  PresentKept
  <1>1. UNCHANGED graph => PresentKept
    BY SameGraph DEF IInv
  <1>2. CASE HandleRequest(t) \/ FetchUnit(t) \/ GetAllUnitsByKind(t) \/ SyncBackend(t)
    BY <1>1, <1>2 DEF HandleRequest, FetchUnit, GetAllUnitsByKind, SyncBackend
  <1>3. CASE Reload(t) \/ AnswerArrives(t) \/ TagStored(t) \/ Reloaded(t) \/ BackendFails(t)
    BY <1>1, <1>3 DEF Reload, AnswerArrives, TagStored, Reloaded, BackendFails
  <1>4. CASE GetAllRelationsByKind(t)
    BY <1>1, <1>4 DEF GetAllRelationsByKind
  <1>5. CASE GetUnit(t) \/ GetRelatedUnits(t)
    BY <1>1, <1>5, ObtainPresent DEF GetUnit, GetRelatedUnits
  <1>6. ASSUME NEW u, AppendFact(u) PROVE PresentKept
    BY <1>6 DEF AppendFact, PresentKept, Present, InGraph
  <1>7. CASE AddUnitFact(t)
    BY <1>1, <1>6, <1>7, ObtainPresent DEF AddUnitFact
  <1>8. CASE LoadFacts(t)
    BY <1>1, <1>6, <1>8, ObtainPresent DEF LoadFacts
  <1>9. CASE Link(t)
    <2>1. ASSUME frame[t].pos = 4, AddEdge(Source(t), Target(t))
          PROVE  PresentKept
      <3>1. running = t /\ frame[t].pc = "link" /\ Op(t) \in {"out", "in", "relations"}
        BY <1>9 DEF Link, At
      <3>2. /\ frame[t].cur \in Unit
            /\ frame[t].tgt \in Neighbours(frame[t].cur, Op(t))
        BY <2>1, <3>1, RunningTask DEF IInv, LocalsOK, Op
      <3>3. <<Source(t), Target(t)>> \in Related
        BY <3>1, <3>2 DEF Source, Target, Neighbours
      <3> QED BY <2>1, <3>3, AddEdgeGraph DEF IInv
    <2> QED BY <1>1, <1>9, <2>1, ObtainPresent DEF Link
  <1>10. CASE UnitArrives(t)
    <2>1. running = NoTask /\ frame[t].wait = "unit"
      BY <1>10 DEF UnitArrives, Answered
    <2>2. frame[t].need \in Unit /\ frame[t].from \in Nat \ {0}
      BY <2>1, AnsweredTask DEF IInv, LocalsOK, Frames
    <2> QED BY <1>1, <1>10, <2>2, AddUnitGraph DEF UnitArrives, IInv
  <1>11. CASE LocationArrives(t)
    <2>1. running = NoTask /\ frame[t].wait = "location"
      BY <1>11 DEF LocationArrives, Answered
    <2>2. Arg(t) \in Unit /\ frame[t].from \in Nat \ {0}
      BY <2>1, AnsweredTask, PhaseArg DEF IInv, LocalsOK, Frames, Arg
    <2> QED BY <1>1, <1>11, <2>2, AddUnitGraph DEF LocationArrives, IInv
  <1>12. CASE AddUnitsOfKind(t)
    <2>1. running = t /\ frame[t].pc = "adding"
      BY <1>12 DEF AddUnitsOfKind, At
    <2>2. frame[t].left \subseteq Unit /\ frame[t].from \in Nat \ {0}
      BY <2>1, RunningTask DEF IInv, LocalsOK, Frames
    <2> QED BY <1>1, <1>12, <2>2, AddUnitGraph DEF AddUnitsOfKind, IInv
  <1> QED BY <1>2, <1>3, <1>4, <1>5, <1>7, <1>8, <1>9, <1>10, <1>11, <1>12 DEF Step, Arrival

LEMMA ObtainMoves ==
  ASSUME NEW t, NEW u, NEW f, Obtain(t, u, f)
  PROVE  Raise(t) \/ \E g : Goes(t, g)
  BY DEF Obtain, Fetch, Goes

LEMMA StepMoves ==
  ASSUME NEW t \in Task, Step(t) \/ Arrival(t)
  PROVE  Return(t) \/ Raise(t) \/ \E f : Goes(t, f)
  <1>1. CASE FetchUnit(t) \/ GetAllUnitsByKind(t) \/ AddUnitsOfKind(t) \/ Clear(t) \/ Reload(t)
    BY <1>1 DEF FetchUnit, GetAllUnitsByKind, AddUnitsOfKind, Clear, Reload, Goes
  <1>2. CASE GetUnit(t) \/ AddUnitFact(t)
    BY <1>2, ObtainMoves DEF GetUnit, AddUnitFact
  <1>3. CASE GetRelatedUnits(t) \/ GetAllRelationsByKind(t)
    BY <1>3, ObtainMoves DEF GetRelatedUnits, GetAllRelationsByKind, Collect,
       StartIteration, Goes
  <1>4. CASE Link(t)
    BY <1>4, ObtainMoves DEF Link, Collect, Goes
  <1>5. CASE LoadFacts(t)
    BY <1>5, ObtainMoves DEF LoadFacts, Goes
  <1>6. CASE SyncBackend(t)
    BY <1>6 DEF SyncBackend, StartIteration, Goes
  <1>7. CASE Arrival(t)
    BY <1>7 DEF Arrival, UnitArrives, LocationArrives, AnswerArrives, TagStored, Reloaded,
       BackendFails, Goes
  <1> QED BY <1>1, <1>2, <1>3, <1>4, <1>5, <1>6, <1>7 DEF Step

LEMMA MovesAlone ==
  ASSUME IInv, NEW t \in Task, Return(t) \/ Raise(t) \/ \E f : Goes(t, f)
  PROVE  /\ script[t] # <<>> => script'[t] \in {script[t], Tail(script[t]), <<>>}
         /\ \A u \in Task \ {t} : script'[u] = script[u] /\ frame'[u] = frame[u]
  BY DEF Return, Raise, Goes, Await, Continue, IInv, LoopOK

LEMMA GoesFrame ==
  ASSUME IInv, NEW t \in Task, NEW f, Goes(t, f)
  PROVE  /\ script' = script /\ frame'[t] = f
         /\ \A u \in Task : u # t => frame'[u] = frame[u]
  BY DEF Goes, Await, Continue, IInv, LoopOK

\* A set_unit_tag that reaches the CPG it was meant for adds one tag.
LEMMA TagsGrow ==
  ASSUME IInv, NEW t \in Task, TagStored(t)
  PROVE  /\ \A w \in Unit : tags[w] <= tags'[w]
         /\ frame[t].from = cpg /\ frame[t].cur \in Unit =>
               tags'[frame[t].cur] = tags[frame[t].cur] + 1
  <1>1. tags \in [Unit -> Nat]
    BY DEF IInv, CountersOK
  <1>2. CASE frame[t].from = cpg
    <2>1. tags' = [tags EXCEPT ![frame[t].cur] = tags[frame[t].cur] + 1]
      BY <1>2 DEF TagStored
    <2> QED BY <1>1, <2>1
  <1>3. CASE frame[t].from # cpg
    <2>1. tags' = tags
      BY <1>3 DEF TagStored
    <2> QED BY <1>1, <1>3, <2>1
  <1> QED BY <1>2, <1>3

\* Only the answer to a reload replaces the CPG.
LEMMA StepBackend ==
  ASSUME IInv, NEW t \in Task, HandleRequest(t) \/ Step(t) \/ Arrival(t), ~Reloaded(t)
  PROVE  cpg' = cpg /\ \A w \in Unit : tags[w] <= tags'[w]
  <1>1. ASSUME UNCHANGED backend PROVE cpg' = cpg /\ \A w \in Unit : tags[w] <= tags'[w]
    BY <1>1 DEF backend, IInv, CountersOK
  <1>2. CASE TagStored(t)
    BY <1>2, TagsGrow DEF TagStored
  <1>3. CASE HandleRequest(t) \/ FetchUnit(t) \/ GetAllUnitsByKind(t) \/ SyncBackend(t)
    BY <1>1, <1>3 DEF HandleRequest, FetchUnit, GetAllUnitsByKind, SyncBackend
  <1>4. CASE Reload(t) \/ Clear(t) \/ AnswerArrives(t) \/ BackendFails(t) \/ UnitArrives(t)
    BY <1>1, <1>4 DEF Reload, Clear, AnswerArrives, BackendFails, UnitArrives
  <1>5. CASE GetAllRelationsByKind(t) \/ GetUnit(t) \/ GetRelatedUnits(t) \/ AddUnitFact(t)
    BY <1>1, <1>5 DEF GetAllRelationsByKind, GetUnit, GetRelatedUnits, AddUnitFact
  <1>6. CASE LoadFacts(t) \/ Link(t) \/ LocationArrives(t) \/ AddUnitsOfKind(t)
    BY <1>1, <1>6 DEF LoadFacts, Link, LocationArrives, AddUnitsOfKind
  <1> QED BY <1>2, <1>3, <1>4, <1>5, <1>6 DEF Step, Arrival

\* What the other coroutines see of a step of t.
Effect(t) ==
    /\ IInv'
    /\ \A u \in Task \ {t} : script'[u] = script[u] /\ frame'[u] = frame[u]
    /\ Clear(t) \/ (Ordered /\ PresentKept)
    /\ Reloaded(t) \/ (cpg' = cpg /\ \A w \in Unit : tags[w] <= tags'[w])
    /\ script[t] = <<>> => UNCHANGED <<graph, loaded, backend>>

LEMMA StepEffect ==
  ASSUME IInv, NEW t \in Task, HandleRequest(t) \/ Step(t) \/ Arrival(t)
  PROVE  Effect(t)
  <1>1. IInv'
    BY NextIInv DEF Next
  <1>2. \A u \in Task \ {t} : script'[u] = script[u] /\ frame'[u] = frame[u]
    <2>1. CASE HandleRequest(t)
      BY <2>1 DEF HandleRequest, IInv, LoopOK
    <2>2. CASE Step(t) \/ Arrival(t)
      BY <2>2, StepMoves, MovesAlone
    <2> QED BY <2>1, <2>2
  <1>3. Clear(t) \/ (Ordered /\ PresentKept)
    BY StepOrdered, StepPresent
  <1>4. Reloaded(t) \/ (cpg' = cpg /\ \A w \in Unit : tags[w] <= tags'[w])
    BY StepBackend
  <1>5. ASSUME script[t] = <<>> PROVE UNCHANGED <<graph, loaded, backend>>
    <2>1. running # t /\ frame[t].wait = "none"
      BY <1>5 DEF IInv, LoopOK, Fresh
    <2>2. ~Arrival(t)
      BY <2>1 DEF Arrival, UnitArrives, LocationArrives, AnswerArrives, TagStored, Reloaded,
         BackendFails, Answered
    <2>3. ~Step(t)
      BY <2>1 DEF Step, GetUnit, FetchUnit, GetAllUnitsByKind, AddUnitsOfKind, GetRelatedUnits,
         GetAllRelationsByKind, Link, AddUnitFact, LoadFacts, SyncBackend, Clear, Reload, At
    <2> QED BY <2>2, <2>3 DEF HandleRequest
  <1> QED BY <1>1, <1>2, <1>3, <1>4, <1>5 DEF Effect

-----------------------------------------------------------------------------
(* What the history records of a step.                                        *)

LEMMA EntriesAre ==
  ASSUME IInv
  PROVE  /\ \A u \in Unit : \A v :
              <<"unit", u, v>> \in Entries <=> version[u] # 0 /\ v = version[u]
         /\ \A s, d : <<"edge", s, d>> \in Entries <=> <<s, d>> \in edges
         /\ \A u \in Unit : \A dir :
              <<"loaded", u, dir>> \in Entries <=> <<u, dir>> \in loadedRelations
         /\ <<"loaded", NoUnit, "out">> \in Entries <=> relationKindLoaded
  <1>1. edges \subseteq Unit \X Unit /\ loadedRelations \subseteq Unit \X {"out", "in"}
    BY DEF IInv, GraphOK, LoadedOK
  <1>2. ASSUME NEW u \in Unit, NEW v
        PROVE  <<"unit", u, v>> \in Entries <=> version[u] # 0 /\ v = version[u]
    BY DEF Entries
  <1>3. ASSUME NEW s, NEW d
        PROVE  <<"edge", s, d>> \in Entries <=> <<s, d>> \in edges
    <2>1. <<"edge", s, d>> \in Entries <=>
             \E e \in edges : <<"edge", s, d>> = <<"edge", e[1], e[2]>>
      BY DEF Entries
    <2>2. \A e \in edges : e = <<e[1], e[2]>>
      BY <1>1
    <2>3. ASSUME NEW e \in edges, <<"edge", s, d>> = <<"edge", e[1], e[2]>>
          PROVE  <<s, d>> \in edges
      <3>1. s = e[1] /\ d = e[2]
        BY <2>3
      <3> QED BY <2>2, <3>1
    <2> QED BY <2>1, <2>3
  <1>4. ASSUME NEW u \in Unit, NEW dir
        PROVE  <<"loaded", u, dir>> \in Entries <=> <<u, dir>> \in loadedRelations
    <2>1. <<"loaded", u, dir>> \in Entries <=>
             \E m \in loadedRelations : <<"loaded", u, dir>> = <<"loaded", m[1], m[2]>>
      BY UnitAssumption DEF Entries
    <2>2. \A m \in loadedRelations : m = <<m[1], m[2]>>
      BY <1>1
    <2>3. ASSUME NEW m \in loadedRelations, <<"loaded", u, dir>> = <<"loaded", m[1], m[2]>>
          PROVE  <<u, dir>> \in loadedRelations
      <3>1. u = m[1] /\ dir = m[2]
        BY <2>3
      <3> QED BY <2>2, <3>1
    <2> QED BY <2>1, <2>3
  <1>5. <<"loaded", NoUnit, "out">> \in Entries <=> relationKindLoaded
    BY <1>1, UnitAssumption DEF Entries
  <1> QED BY <1>2, <1>3, <1>4, <1>5

LEMMA EntriesAreNext ==
  ASSUME IInv'
  PROVE  /\ \A u \in Unit : \A v :
              <<"unit", u, v>> \in Entries' <=> version'[u] # 0 /\ v = version'[u]
         /\ \A s, d : <<"edge", s, d>> \in Entries' <=> <<s, d>> \in edges'
         /\ \A u \in Unit : \A dir :
              <<"loaded", u, dir>> \in Entries' <=> <<u, dir>> \in loadedRelations'
         /\ <<"loaded", NoUnit, "out">> \in Entries' <=> relationKindLoaded'
  <1>1. edges' \subseteq Unit \X Unit /\ loadedRelations' \subseteq Unit \X {"out", "in"}
    BY DEF IInv, GraphOK, LoadedOK
  <1>2. ASSUME NEW u \in Unit, NEW v
        PROVE  <<"unit", u, v>> \in Entries' <=> version'[u] # 0 /\ v = version'[u]
    BY DEF Entries
  <1>3. ASSUME NEW s, NEW d
        PROVE  <<"edge", s, d>> \in Entries' <=> <<s, d>> \in edges'
    <2>1. <<"edge", s, d>> \in Entries' <=>
             \E e \in edges' : <<"edge", s, d>> = <<"edge", e[1], e[2]>>
      BY DEF Entries
    <2>2. \A e \in edges' : e = <<e[1], e[2]>>
      BY <1>1
    <2>3. ASSUME NEW e \in edges', <<"edge", s, d>> = <<"edge", e[1], e[2]>>
          PROVE  <<s, d>> \in edges'
      <3>1. s = e[1] /\ d = e[2]
        BY <2>3
      <3> QED BY <2>2, <3>1
    <2> QED BY <2>1, <2>3
  <1>4. ASSUME NEW u \in Unit, NEW dir
        PROVE  <<"loaded", u, dir>> \in Entries' <=> <<u, dir>> \in loadedRelations'
    <2>1. <<"loaded", u, dir>> \in Entries' <=>
             \E m \in loadedRelations' : <<"loaded", u, dir>> = <<"loaded", m[1], m[2]>>
      BY UnitAssumption DEF Entries
    <2>2. \A m \in loadedRelations' : m = <<m[1], m[2]>>
      BY <1>1
    <2>3. ASSUME NEW m \in loadedRelations', <<"loaded", u, dir>> = <<"loaded", m[1], m[2]>>
          PROVE  <<u, dir>> \in loadedRelations'
      <3>1. u = m[1] /\ dir = m[2]
        BY <2>3
      <3> QED BY <2>2, <3>1
    <2> QED BY <2>1, <2>3
  <1>5. <<"loaded", NoUnit, "out">> \in Entries' <=> relationKindLoaded'
    BY <1>1, UnitAssumption DEF Entries
  <1> QED BY <1>2, <1>3, <1>4, <1>5

\* An entry stays late as long as it is there, and is late if an overtaken step made it.
LEMMA StillLate ==
  ASSUME NEW t, Watch(t), NEW x \in Entries', x \in late \/ (t \in overtaken /\ x \notin Entries)
  PROVE  x \in late'
  BY DEF Watch, ComeLate

\* A coroutine that goes on in its phase without being overtaken never was, and its
\* step sees neither a clear nor a new CPG made by others.
LEMMA NotOvertaken ==
  ASSUME IInv, RInv, NEW t \in Task, Watch(t), NEW u \in Task,
         script'[u] = script[u], script[u] # <<>>, u \notin overtaken'
  PROVE  /\ u \notin overtaken
         /\ u # t => ~Clear(t) /\ ~Reloaded(t)
  <1>1. Overtake(t)
    BY DEF Watch
  <1>2. /\ u \notin overtaken
        /\ ~(u # t /\ At(t, "clear", "start"))
    BY <1>1 DEF Overtake
  <1>3. ASSUME u # t, Reloaded(t) PROVE FALSE
    <2>1. running = NoTask /\ frame[t].wait = "reload"
      BY <1>3 DEF Reloaded, Answered
    <2>2. script[t] # <<>>
      BY <2>1, AnsweredTask DEF IInv, MaySettle
    <2>3. Reloading(script[t])
      BY <2>1, <2>2 DEF RInv, Local, Fits, Op, Reloading
    <2> QED BY <1>2, <1>3, <2>3 DEF RInv, Overtakes
  <1> QED BY <1>2, <1>3 DEF Clear

LEMMA DirtyGrows ==
  ASSUME NEW t, Watch(t), NEW u \in Task, Clears(script'[u])
  PROVE  /\ dirty[u] \subseteq dirty'[u]
         /\ \A w \in Unit : facts'[w] > facts[w] => w \in dirty'[u]
         /\ cpg' # cpg => Unit \subseteq dirty'[u]
  BY DEF Watch, GetDirty

-----------------------------------------------------------------------------
(* What each change makes of the view.                                        *)

LEMMA ViewStays ==
  ASSUME IInv, IInv', ViewOK, NEW t, Watch(t), UNCHANGED <<graph, cpg, loadedRelations>>
  PROVE  Grows /\ ViewOK'
  <1>1. PresentKept
    BY SameGraph DEF IInv
  <1>2. UNCHANGED <<version, edges, cpg, loadedRelations>>
    BY DEF graph
  <1>3. ViewIsCurrent'
    BY <1>2, StillLate, EntriesAreNext DEF ViewOK, ViewIsCurrent
  <1>4. EdgesHaveUnits'
    <2> SUFFICES ASSUME NEW e \in edges, <<"edge", e[1], e[2]>> \in late
                 PROVE  <<"edge", e[1], e[2]>> \in late'
      BY <1>2 DEF ViewOK, EdgesHaveUnits
    <2>1. e = <<e[1], e[2]>>
      BY DEF IInv, GraphOK
    <2> QED BY <1>2, <2>1, StillLate, EntriesAreNext
  <1>5. RelationsComplete'
    <2> SUFFICES ASSUME NEW u \in Unit, NEW dir \in {"out", "in"},
                        <<u, dir>> \in loadedRelations, <<"loaded", u, dir>> \in late
                 PROVE  <<"loaded", u, dir>> \in late'
      BY <1>2 DEF ViewOK, RelationsComplete, Neighbours
    <2> QED BY <1>2, StillLate, EntriesAreNext
  <1> QED BY <1>1, <1>2, <1>3, <1>4, <1>5 DEF Grows, ViewOK

\* The marks stay true, or late, while edges are only added.
LEMMA MarksStay ==
  ASSUME IInv', RelationsComplete, NEW t, Watch(t), edges \subseteq edges',
         UNCHANGED loadedRelations
  PROVE  RelationsComplete'
  <1> SUFFICES ASSUME NEW u \in Unit, NEW dir \in {"out", "in"}, <<u, dir>> \in loadedRelations,
                      <<"loaded", u, dir>> \notin late',
                      NEW v \in Neighbours(u, dir)
               PROVE  (IF dir = "out" THEN <<u, v>> ELSE <<v, u>>) \in edges
    BY DEF RelationsComplete, Neighbours
  <1>1. <<"loaded", u, dir>> \notin late
    BY StillLate, EntriesAreNext
  <1> QED BY <1>1 DEF RelationsComplete

LEMMA ViewAddsUnit ==
  ASSUME IInv, IInv', ViewOK, NEW t, Watch(t), NEW u \in Unit, NEW v \in Nat \ {0},
         t \notin overtaken => v = cpg, AddUnit(u, v), UNCHANGED <<backend, loadedRelations>>
  PROVE  Grows /\ ViewOK'
  <1>1. PresentKept
    BY AddUnitGraph DEF IInv
  <1>2. version' = [version EXCEPT ![u] = v] /\ edges' = edges /\ cpg' = cpg
    BY DEF AddUnit, backend
  <1>3. /\ \A w \in Unit : version'[w] = IF w = u THEN v ELSE version[w]
        /\ edges \subseteq Unit \X Unit
    BY <1>2 DEF IInv, GraphOK
  <1>4. ViewIsCurrent'
    <2> SUFFICES ASSUME NEW w \in Unit, version'[w] \notin {0, cpg}
                 PROVE  <<"unit", w, version'[w]>> \in late'
      BY <1>2 DEF ViewIsCurrent
    <2>1. <<"unit", w, version'[w]>> \in Entries'
      BY EntriesAreNext
    <2>2. CASE version'[w] = version[w]
      BY <2>1, <2>2, StillLate DEF ViewOK, ViewIsCurrent
    <2>3. CASE version'[w] # version[w]
      <3>1. t \in overtaken
        BY <1>3, <2>3
      <3>2. <<"unit", w, version'[w]>> \notin Entries
        BY <2>3, EntriesAre
      <3> QED BY <2>1, <3>1, <3>2, StillLate
    <2> QED BY <2>2, <2>3
  <1>5. EdgesHaveUnits'
    <2> SUFFICES ASSUME NEW e \in edges, <<"edge", e[1], e[2]>> \notin late'
                 PROVE  version'[e[1]] # 0 /\ version'[e[2]] # 0
      BY <1>2 DEF EdgesHaveUnits
    <2>1. e[1] \in Unit /\ e[2] \in Unit /\ e = <<e[1], e[2]>>
      BY <1>3
    <2>2. <<"edge", e[1], e[2]>> \notin late
      BY <1>2, <2>1, StillLate, EntriesAreNext
    <2> QED BY <1>3, <2>1, <2>2 DEF ViewOK, EdgesHaveUnits
  <1>6. RelationsComplete'
    BY <1>2, MarksStay DEF ViewOK
  <1> QED BY <1>1, <1>2, <1>4, <1>5, <1>6 DEF Grows, ViewOK

LEMMA ViewAddsEdge ==
  ASSUME IInv, IInv', ViewOK, NEW t, Watch(t), NEW s, NEW d, <<s, d>> \in Related,
         t \notin overtaken => Present(s) /\ Present(d),
         AddEdge(s, d), UNCHANGED <<backend, loadedRelations>>
  PROVE  Grows /\ ViewOK' /\ edges' = edges \cup {<<s, d>>}
  <1>1. PresentKept
    BY AddEdgeGraph DEF IInv
  <1>2. /\ edges' = edges \cup {<<s, d>>} /\ UNCHANGED <<version, cpg>>
        /\ edges \subseteq Unit \X Unit
    BY DEF AddEdge, backend, IInv, GraphOK
  <1>3. ViewIsCurrent'
    BY <1>2, StillLate, EntriesAreNext DEF ViewOK, ViewIsCurrent
  <1>4. EdgesHaveUnits'
    <2> SUFFICES ASSUME NEW e \in edges', <<"edge", e[1], e[2]>> \notin late'
                 PROVE  version[e[1]] # 0 /\ version[e[2]] # 0
      BY <1>2 DEF EdgesHaveUnits
    <2>1. CASE e \in edges
      <3>1. e = <<e[1], e[2]>>
        BY <1>2, <2>1
      <3>2. <<"edge", e[1], e[2]>> \notin late
        BY <3>1, StillLate, EntriesAreNext
      <3> QED BY <2>1, <3>2 DEF ViewOK, EdgesHaveUnits
    <2>2. CASE e = <<s, d>> /\ e \notin edges
      <3>1. <<"edge", s, d>> \in Entries' /\ <<"edge", s, d>> \notin Entries
        BY <1>2, <2>2, EntriesAre, EntriesAreNext
      <3>2. t \notin overtaken
        BY <2>2, <3>1, StillLate
      <3> QED BY <2>2, <3>2 DEF Present
    <2> QED BY <1>2, <2>1, <2>2
  <1>5. RelationsComplete'
    BY <1>2, MarksStay DEF ViewOK
  <1> QED BY <1>1, <1>2, <1>3, <1>4, <1>5 DEF Grows, ViewOK

LEMMA ViewAddsFact ==
  ASSUME IInv, IInv', ViewOK, NEW t, Watch(t), NEW u \in Unit, AppendFact(u),
         UNCHANGED <<backend, loadedRelations>>
  PROVE  Grows /\ ViewOK'
  <1>1. PresentKept
    BY AppendFactGraph DEF IInv
  <1>2. UNCHANGED <<version, edges, cpg>> /\ edges \subseteq Unit \X Unit
    BY DEF AppendFact, backend, IInv, GraphOK
  <1>3. ViewIsCurrent'
    BY <1>2, StillLate, EntriesAreNext DEF ViewOK, ViewIsCurrent
  <1>4. EdgesHaveUnits'
    <2> SUFFICES ASSUME NEW e \in edges, <<"edge", e[1], e[2]>> \in late
                 PROVE  <<"edge", e[1], e[2]>> \in late'
      BY <1>2 DEF ViewOK, EdgesHaveUnits
    <2>1. e = <<e[1], e[2]>>
      BY <1>2
    <2> QED BY <1>2, <2>1, StillLate, EntriesAreNext
  <1>5. RelationsComplete'
    BY <1>2, MarksStay DEF ViewOK
  <1> QED BY <1>1, <1>2, <1>3, <1>4, <1>5 DEF Grows, ViewOK

-----------------------------------------------------------------------------
(* The other coroutines, and the one that steps. *)

\* A node stays looked up, and an edge linked, while the graph grows.
LEMMA LinkingKept ==
  ASSUME PresentKept, edges \subseteq edges', NEW p, NEW f, LocalsOK(p, f), Linking(p, f)
  PROVE  Linking(p, f)'
  <1> SUFFICES ASSUME f.pc = "link"
               PROVE  Linking(p, f)'
    BY DEF Linking
  <1>1. /\ f.cur \in Unit
        /\ f.pos # 0 => f.tgt \in Unit
    BY NeighboursAreUnits DEF LocalsOK
  <1>2. /\ Present(f.cur)
        /\ f.pos \in 2..4 => Present(f.tgt)
        /\ p.op \in {"out", "in"} => f.cur = p.arg
        /\ \A v \in Neighbours(f.cur, p.op) :
              v \in f.left \/ (f.pos # 0 /\ v = f.tgt) \/ EdgeOf(p.op, f.cur, v) \in edges
    BY DEF Linking
  <1>3. \A c \in Unit : Present(c) => Present(c)'
    BY DEF PresentKept
  <1>4. PICK c : c = f.cur
    OBVIOUS
  <1>5. PICK d : d = f.tgt
    OBVIOUS
  <1>6. Present(c)' /\ (f.pos \in 2..4 => Present(d)')
    BY <1>1, <1>2, <1>3, <1>4, <1>5
  <1>7. Present(f.cur)' /\ (f.pos \in 2..4 => Present(f.tgt)')
    BY <1>4, <1>5, <1>6 DEF Present, InGraph
  <1> QED BY <1>2, <1>7 DEF Linking, EdgeOf, Neighbours

LEMMA IteratedFurther ==
  ASSUME IInv, IInv', Ordered, NEW f, f.i \in Nat \ {0}, NEW w,
         \E j \in f.i..Len(nodes) : nodes[j] = w
  PROVE  \E j \in f.i..Len(nodes') : nodes'[j] = w
  <1>1. Len(nodes) \in Nat /\ Len(nodes') \in Nat
    BY LenProperties DEF IInv, GraphOK
  <1> QED BY <1>1 DEF Ordered

\* What a sync leaves to be done at most shrinks by what others do to the view.
LEMMA SyncingKept ==
  ASSUME IInv, NEW t \in Task, Effect(t), Watch(t), NEW u \in Task, Clears(script'[u]),
         NEW f \in Frames, Syncing(f, dirty[u])
  PROVE  Syncing(f, dirty[u])'
  <1>1. CASE f.pc = "start"
    BY <1>1 DEF Syncing
  <1>2. CASE f.pc # "start"
    <2>1. PICK d : d = dirty'[u]
      OBVIOUS
    <2>2. /\ dirty[u] \subseteq d
          /\ \A w \in Unit : facts'[w] > facts[w] => w \in d
          /\ cpg' # cpg => Unit \subseteq d
      BY <2>1, DirtyGrows
    <2>3. /\ facts \in [Unit -> Nat] /\ facts' \in [Unit -> Nat]
          /\ tags \in [Unit -> Nat] /\ tags' \in [Unit -> Nat]
          /\ cpg \in Nat /\ cpg' \in Nat
      BY DEF Effect, IInv, GraphOK, CountersOK
    <2>4. cpg' = cpg => \A w \in Unit : tags[w] <= tags'[w]
      BY <2>3 DEF Effect, Reloaded
    <2>5. f.wait = "store" => f.from = cpg' \/ Unit \subseteq d
      BY <1>2, <2>2 DEF Syncing
    <2>6. ASSUME NEW w \in Unit, w \notin d
          PROVE  \/ facts'[w] <= tags'[w]
                 \/ /\ f.pc = "store" /\ w = f.cur
                    /\ facts'[w] <= tags'[w] + f.n + (IF f.wait = "store" THEN 1 ELSE 0)
                 \/ \E j \in f.i..Len(nodes') : nodes'[j] = w
      <3>1. /\ facts'[w] <= facts[w] /\ tags[w] <= tags'[w] /\ w \notin dirty[u]
            /\ facts[w] \in Nat /\ facts'[w] \in Nat /\ tags[w] \in Nat /\ tags'[w] \in Nat
        BY <2>2, <2>3, <2>4, <2>6
      <3>2. CASE facts[w] <= tags[w]
        BY <3>1, <3>2
      <3>3. CASE /\ f.pc = "store" /\ w = f.cur
                 /\ facts[w] <= tags[w] + f.n + (IF f.wait = "store" THEN 1 ELSE 0)
        <4>1. f.n \in Nat
          BY DEF Frames
        <4> QED BY <3>1, <3>3, <4>1
      <3>4. CASE \E j \in f.i..Len(nodes) : nodes[j] = w
        <4>1. CASE Clear(t)
          BY <3>1, <4>1 DEF Clear, ClearGraph
        <4>2. CASE Ordered
          BY <3>4, <4>2, IteratedFurther DEF Frames, Effect
        <4> QED BY <4>1, <4>2 DEF Effect
      <3> QED BY <1>2, <3>1, <3>2, <3>3, <3>4 DEF Syncing, StoredBut
    <2> QED BY <1>2, <2>1, <2>5, <2>6 DEF Syncing, StoredBut
  <1> QED BY <1>1, <1>2

\* During a reload only overtaken coroutines add units.
LEMMA AllLateKept ==
  ASSUME IInv, RInv, NEW t \in Task, Effect(t), Watch(t), AllLate,
         t \in overtaken \/ UNCHANGED version
  PROVE  AllLate'
  <1> SUFFICES ASSUME NEW u \in Unit, version'[u] # 0
               PROVE  <<"unit", u, version'[u]>> \in late'
    BY DEF AllLate
  <1>1. <<"unit", u, version'[u]>> \in Entries'
    BY EntriesAreNext DEF Effect
  <1>2. CASE version'[u] = version[u]
    BY <1>1, <1>2, StillLate DEF AllLate
  <1>3. CASE version'[u] # version[u]
    BY <1>1, <1>3, EntriesAre, StillLate
  <1> QED BY <1>2, <1>3

LEMMA StoredKept ==
  ASSUME IInv, NEW t \in Task, Effect(t), Watch(t), NEW u \in Task, Clears(script'[u]),
         NEW w \in Unit, StoredBut(dirty[u], w)
  PROVE  StoredBut(dirty[u], w)'
  <1>1. PICK d : d = dirty'[u]
    OBVIOUS
  <1>2. /\ dirty[u] \subseteq d
        /\ facts'[w] > facts[w] => w \in d
        /\ cpg' # cpg => w \in d
    BY <1>1, DirtyGrows
  <1>3. /\ facts[w] \in Nat /\ facts'[w] \in Nat /\ tags[w] \in Nat /\ tags'[w] \in Nat
        /\ cpg \in Nat
    BY DEF Effect, IInv, GraphOK, CountersOK
  <1>4. cpg' = cpg => tags[w] <= tags'[w]
    BY <1>3 DEF Effect, Reloaded
  <1>5. w \in d \/ facts'[w] <= tags'[w]
    BY <1>2, <1>3, <1>4 DEF StoredBut
  <1> QED BY <1>1, <1>5 DEF StoredBut

LEMMA OthersKeep ==
  ASSUME IInv, RInv, NEW t \in Task, Effect(t), Watch(t), NEW u \in Task, u # t
  PROVE  Local(u)'
  <1> SUFFICES ASSUME script[u] # <<>>
               PROVE  Local(u)'
    BY DEF Local, Effect
  <1> PICK p : p = script[u][1]
    OBVIOUS
  <1> PICK f \in Frames : f = frame[u]
    BY DEF IInv, LoopOK
  <1>1. script'[u] = script[u] /\ frame'[u] = frame[u]
    BY DEF Effect
  <1>2. /\ Fits(p, f)
        /\ u \notin overtaken => Timely(p, f)
        /\ p.op = "reload" => AllLate
        /\ p.op = "clear" /\ p.arg = "synced" => \A w \in Unit : StoredBut(dirty[u], w)
        /\ p.op = "sync" /\ Clears(script[u]) => Syncing(f, dirty[u])
    BY DEF RInv, Local, Op, Arg
  <1>3. LocalsOK(p, f) /\ script[u] \in Seq(Phases)
    BY DEF IInv, LoopOK
  <1>4. ASSUME u \notin overtaken' PROVE Timely(p, f)'
    <2>1. u \notin overtaken /\ ~Clear(t) /\ ~Reloaded(t)
      BY <1>1, <1>4, NotOvertaken
    <2>2. PresentKept /\ edges \subseteq edges' /\ cpg' = cpg
      BY <2>1 DEF Effect, Ordered
    <2>3. Linking(p, f)'
      BY <1>2, <1>3, <2>1, <2>2, LinkingKept DEF Timely
    <2> QED BY <1>2, <2>1, <2>2, <2>3 DEF Timely, FromCurrent
  <1>5. ASSUME p.op = "reload" PROVE AllLate'
    <2>1. Reloading(script[u])
      BY <1>5 DEF Reloading
    <2>2. script[t] # <<>> => t \in overtaken
      BY <2>1 DEF RInv, Overtakes
    <2>3. script[t] = <<>> => UNCHANGED version
      BY DEF Effect, graph
    <2> QED BY <1>2, <1>5, <2>2, <2>3, AllLateKept
  <1>6. ASSUME p.op = "clear", p.arg = "synced", NEW w \in Unit
        PROVE  StoredBut(dirty[u], w)'
    <2>1. Clears(script'[u])
      BY <1>1, <1>3, <1>6, FirstPhase
    <2> QED BY <1>2, <1>6, <2>1, StoredKept
  <1>7. ASSUME p.op = "sync", Clears(script[u]) PROVE Syncing(f, dirty[u])'
    BY <1>1, <1>2, <1>7, SyncingKept
  <1> QED BY <1>1, <1>2, <1>4, <1>5, <1>6, <1>7
          DEF Local, Op, Arg, Fits, LooksUp, Timely, FromCurrent, Linking, Syncing, StoredBut,
              Clears, Neighbours, EdgeOf, Present, InGraph

\* A step of t, of which only t's own part is still to be shown.
LEMMA StepKeeps ==
  ASSUME IInv, RInv, NEW t \in Task, Effect(t), Watch(t), MaySettle(t),
         script'[t] \in {script[t], Tail(script[t]), <<>>}, ViewOK', Local(t)'
  PROVE  RInv'
  <1>1. script[t] \in Seq(Phases) /\ script[t] # <<>>
    BY DEF IInv, LoopOK, MaySettle
  <1>2. ShapeOK(script'[t])
    BY <1>1, TailKeeps, IdleScript DEF RInv, Shapes
  <1>3. Shapes'
    <2>1. ASSUME NEW u \in Task PROVE ShapeOK(script'[u])
      BY <1>2 DEF RInv, Shapes, Effect
    <2> QED BY <2>1 DEF Shapes, ShapeOK
  <1>4. Overtakes'
    BY DEF Watch, Overtake, Overtakes, Reloading
  <1>5. \A u \in Task : Local(u)'
    BY OthersKeep
  <1> QED BY <1>3, <1>4, <1>5 DEF RInv

LEMMA RaiseKeeps ==
  ASSUME IInv, RInv, NEW t \in Task, Effect(t), Watch(t), MaySettle(t), Raise(t), ViewOK'
  PROVE  RInv'
  <1>1. script'[t] = <<>>
    BY DEF Raise, IInv, LoopOK
  <1>2. Local(t)'
    BY <1>1 DEF Local
  <1> QED BY <1>1, <1>2, StepKeeps

\* What the next phase finds: a clear comes after a sync, a reload after a clear.
LEMMA ReturnKeeps ==
  ASSUME IInv, RInv, NEW t \in Task, Effect(t), Watch(t), MaySettle(t), Return(t), ViewOK',
         Op(t) = "sync" /\ script'[t] # <<>> /\ script'[t][1].op = "clear" =>
            \A w \in Unit : StoredBut(dirty[t], w)',
         Op(t) = "clear" => AllLate'
  PROVE  RInv'
  <1>1. script[t] \in Seq(Phases) /\ script[t] # <<>> /\ ShapeOK(script[t])
    BY DEF IInv, LoopOK, MaySettle, RInv, Shapes
  <1>2. script'[t] = Tail(script[t]) /\ frame'[t] = Fresh
    BY DEF Return, IInv, LoopOK
  <1>3. Fresh.pc = "start" /\ Fresh.wait = "none" /\ Fresh.i = 1
    BY DEF Fresh
  <1>4. Local(t)'
    <2> SUFFICES ASSUME script'[t] # <<>>
                 PROVE  /\ script'[t][1].op = "reload" => AllLate'
                        /\ script'[t][1].op = "clear" =>
                              \A w \in Unit : StoredBut(dirty[t], w)'
      BY <1>2, <1>3 DEF Local, Fits, Timely, FromCurrent, Linking, Syncing, StoredBut, Op
    <2>1. Tail(script[t]) \in Seq(Phases)
      BY <1>1, TailOK
    <2>2. /\ script'[t][1].op = "clear" => Op(t) = "sync"
          /\ script'[t][1].op = "reload" => Op(t) = "clear"
      BY <1>1, <1>2, TailKeeps DEF Op
    <2> QED BY <2>2
  <1> QED BY <1>2, <1>4, StepKeeps

LEMMA GoesOnKeeps ==
  ASSUME IInv, RInv, NEW t \in Task, Effect(t), Watch(t), MaySettle(t),
         NEW f, Goes(t, f), Grows, ViewOK', LooksUp(script[t][1]), f.wait # "reload",
         f.pc = "link" => f.cur \in Unit /\ (f.pos # 0 => f.tgt \in Unit),
         t \notin overtaken => FromCurrent(f) /\ Linking(script[t][1], f)
  PROVE  RInv'
  <1>1. script'[t] = script[t] /\ frame'[t] = f /\ script[t] # <<>>
    BY GoesFrame DEF MaySettle
  <1> PICK p : p = script[t][1]
    OBVIOUS
  <1>2. ASSUME t \notin overtaken' PROVE Linking(p, f)' /\ FromCurrent(f)'
    <2>1. t \notin overtaken
      BY <1>1, <1>2, NotOvertaken
    <2>2. FromCurrent(f)'
      BY <2>1 DEF FromCurrent, Grows
    <2>3. CASE f.pc = "link"
      <3>1. PICK c, d : c = f.cur /\ d = f.tgt
        OBVIOUS
      <3>2. /\ Present(c)' /\ (f.pos \in 2..4 => Present(d)')
        BY <2>1, <2>3, <3>1 DEF Linking, Grows, PresentKept
      <3>3. Present(f.cur)' /\ (f.pos \in 2..4 => Present(f.tgt)')
        BY <3>1, <3>2 DEF Present, InGraph
      <3> QED BY <2>1, <2>2, <3>3 DEF Linking, EdgeOf, Neighbours, Grows
    <2>4. CASE f.pc # "link"
      BY <2>2, <2>4 DEF Linking
    <2> QED BY <2>3, <2>4
  <1>3. Local(t)'
    BY <1>1, <1>2 DEF Local, Fits, Timely, FromCurrent, Linking, LooksUp, Op, Neighbours, EdgeOf,
       Present, InGraph
  <1> QED BY <1>1, <1>3, StepKeeps

LEMMA LinkUnits ==
  ASSUME NEW p, NEW f, LocalsOK(p, f), f.pc = "link"
  PROVE  f.cur \in Unit /\ (f.pos # 0 => f.tgt \in Unit)
  BY NeighboursAreUnits DEF LocalsOK

LEMMA QuietKeeps ==
  ASSUME IInv, RInv, NEW t \in Task, Effect(t), Watch(t), MaySettle(t),
         UNCHANGED <<graph, loaded, backend>>,
         Raise(t) \/ (Return(t) /\ LooksUp(script[t][1]))
  PROVE  RInv'
  <1>1. ViewOK'
    BY ViewStays DEF RInv, loaded, backend, Effect
  <1> QED BY <1>1, RaiseKeeps, ReturnKeeps DEF LooksUp, Op

LEMMA ObtainKeeps ==
  ASSUME IInv, RInv, NEW t \in Task, Effect(t), Watch(t), running = t, NEW u \in Unit,
         NEW f \in Frames,
         LooksUp(script[t][1]), frame[t].pc # "adding", f.pc # "adding", f.wait = "none",
         LocalsOK(script[t][1], f),
         t \notin overtaken /\ Present(u) => Linking(script[t][1], f),
         Obtain(t, u, f), UNCHANGED backend
  PROVE  RInv'
  <1>1. /\ MaySettle(t) /\ frame[t] \in Frames /\ LocalsOK(script[t][1], frame[t])
        /\ script[t] # <<>>
    BY RunningTask DEF IInv, MaySettle
  <1>2. t \notin overtaken => Linking(script[t][1], frame[t])
    BY <1>1 DEF RInv, Local, Timely
  <1>3. UNCHANGED <<graph, loaded>> => Grows /\ ViewOK'
    BY ViewStays DEF RInv, loaded, backend, Effect
  <1>4. CASE Present(u) /\ Continue(t, f) /\ UNCHANGED <<graph, loaded>>
    BY <1>1, <1>3, <1>4, LinkUnits, GoesOnKeeps DEF Goes, FromCurrent
  <1>5. CASE MustFetch(u) /\ Fetch(t, u)
    <2> DEFINE g == [frame[t] EXCEPT !.wait = "unit", !.need = u, !.from = cpg]
    <2>1. /\ g.wait = "unit" /\ g.from = cpg /\ g.pc = frame[t].pc /\ g.cur = frame[t].cur
          /\ g.left = frame[t].left /\ g.pos = frame[t].pos /\ g.tgt = frame[t].tgt
      BY <1>1 DEF Frames
    <2>2. Goes(t, g) /\ UNCHANGED <<graph, loaded>>
      BY <1>5 DEF Fetch, Goes
    <2> HIDE DEF g
    <2>3. t \notin overtaken => FromCurrent(g) /\ Linking(script[t][1], g)
      BY <1>2, <2>1 DEF Linking, FromCurrent
    <2>4. g.pc = "link" => g.cur \in Unit /\ (g.pos # 0 => g.tgt \in Unit)
      BY <1>1, <2>1, LinkUnits
    <2> QED BY <1>1, <1>3, <2>1, <2>2, <2>3, <2>4, GoesOnKeeps
  <1>6. CASE Unobtainable(u) /\ Raise(t) /\ UNCHANGED <<graph, loaded>>
    BY <1>1, <1>6, QuietKeeps
  <1> QED BY <1>4, <1>5, <1>6 DEF Obtain

LEMMA FreshLinks == Fresh.pc # "adding" /\ Fresh.wait = "none" /\ \A p : Linking(p, Fresh)
  BY DEF Fresh, Linking

-----------------------------------------------------------------------------
(* One lemma per action. *)

LEMMA GetUnitKeeps ==
  ASSUME IInv, RInv, NEW t \in Task, Effect(t), Watch(t), GetUnit(t)
  PROVE  RInv'
  <1>1. /\ running = t /\ Op(t) = "unit" /\ frame[t].pc = "start" /\ UNCHANGED backend
    BY DEF GetUnit, At
  <1>2. MaySettle(t) /\ Arg(t) \in Unit /\ LooksUp(script[t][1])
    BY <1>1, RunningTask, PhaseArg DEF IInv, Op, Arg, LooksUp
  <1>3. CASE Return(t) /\ UNCHANGED <<graph, loaded>>
    BY <1>1, <1>2, <1>3, QuietKeeps
  <1>4. CASE Obtain(t, Arg(t), Fresh)
    BY <1>1, <1>2, <1>4, FreshOK, FreshLinks, ObtainKeeps
  <1> QED BY <1>3, <1>4 DEF GetUnit

LEMMA UnitArrivesKeeps ==
  ASSUME IInv, RInv, NEW t \in Task, Effect(t), Watch(t), UnitArrives(t)
  PROVE  RInv'
  <1> PICK u : u = frame[t].need
    OBVIOUS
  <1> DEFINE f == [frame[t] EXCEPT !.wait = "none", !.need = NoUnit]
  <1>1. /\ running = NoTask /\ frame[t].wait = "unit" /\ Continue(t, f)
        /\ IF u \in Real THEN AddUnit(u, frame[t].from) ELSE UNCHANGED graph
        /\ UNCHANGED <<loadedRelations, backend>>
    BY DEF UnitArrives, Answered
  <1>2. /\ MaySettle(t) /\ frame[t] \in Frames /\ LocalsOK(script[t][1], frame[t])
        /\ script[t] # <<>>
    BY <1>1, AnsweredTask DEF IInv, MaySettle
  <1>3. /\ Fits(script[t][1], frame[t])
        /\ t \notin overtaken => Timely(script[t][1], frame[t])
    BY <1>2 DEF RInv, Local
  <1>4. /\ u \in Unit /\ frame[t].from \in Nat \ {0} /\ LooksUp(script[t][1])
        /\ t \notin overtaken => frame[t].from = cpg
    BY <1>1, <1>2, <1>3 DEF LocalsOK, Fits, Timely, FromCurrent, Frames
  <1>5. Grows /\ ViewOK'
    BY <1>1, <1>4, ViewAddsUnit, ViewStays DEF RInv, backend, Effect
  <1>6. /\ f.wait = "none" /\ f.pc = frame[t].pc /\ f.cur = frame[t].cur
        /\ f.left = frame[t].left /\ f.pos = frame[t].pos /\ f.tgt = frame[t].tgt
    BY <1>2 DEF Frames
  <1> HIDE DEF f
  <1>7. /\ t \notin overtaken => FromCurrent(f) /\ Linking(script[t][1], f)
        /\ f.pc = "link" => f.cur \in Unit /\ (f.pos # 0 => f.tgt \in Unit)
    BY <1>1, <1>2, <1>3, <1>6, LinkUnits DEF Timely, FromCurrent, Linking, LocalsOK
  <1> QED BY <1>1, <1>2, <1>4, <1>5, <1>6, <1>7, GoesOnKeeps DEF Goes

LEMMA FetchUnitKeeps ==
  ASSUME IInv, RInv, NEW t \in Task, Effect(t), Watch(t), FetchUnit(t)
  PROVE  RInv'
  <1> DEFINE f == [frame[t] EXCEPT !.wait = "location", !.from = cpg]
  <1>1. /\ running = t /\ Op(t) = "location" /\ frame[t].pc = "start" /\ Await(t, f)
        /\ UNCHANGED <<graph, loaded, backend>>
    BY DEF FetchUnit, At
  <1>2. MaySettle(t) /\ frame[t] \in Frames /\ LooksUp(script[t][1])
    BY <1>1, RunningTask DEF IInv, Op, LooksUp
  <1>3. f.wait = "location" /\ f.from = cpg /\ f.pc = "start"
    BY <1>1, <1>2 DEF Frames
  <1>4. Grows /\ ViewOK'
    BY <1>1, ViewStays DEF RInv, loaded, backend, Effect
  <1> HIDE DEF f
  <1> QED BY <1>1, <1>2, <1>3, <1>4, GoesOnKeeps DEF Goes, FromCurrent, Linking

LEMMA LocationArrivesKeeps ==
  ASSUME IInv, RInv, NEW t \in Task, Effect(t), Watch(t), LocationArrives(t)
  PROVE  RInv'
  <1>1. /\ running = NoTask /\ frame[t].wait = "location"
        /\ IF InGraph(Arg(t)) THEN UNCHANGED graph ELSE AddUnit(Arg(t), frame[t].from)
        /\ Return(t) /\ UNCHANGED <<loaded, backend>>
    BY DEF LocationArrives, Answered
  <1>2. /\ MaySettle(t) /\ LocalsOK(script[t][1], frame[t]) /\ script[t][1] \in Phases
        /\ script[t] # <<>>
    BY <1>1, AnsweredTask DEF IInv, MaySettle
  <1>3. Arg(t) \in Unit /\ Op(t) = "location"
    BY <1>1, <1>2, PhaseArg DEF LocalsOK, Arg, Op
  <1>4. /\ t \notin overtaken => frame[t].from = cpg
        /\ frame[t].from \in Nat \ {0}
    BY <1>1, <1>2, AnsweredTask DEF RInv, Local, Timely, FromCurrent, LocalsOK, Frames, IInv
  <1>5. Grows /\ ViewOK'
    BY <1>1, <1>3, <1>4, ViewAddsUnit, ViewStays DEF RInv, loaded, backend, Effect
  <1> QED BY <1>1, <1>2, <1>3, <1>5, ReturnKeeps

LEMMA GetAllUnitsByKindKeeps ==
  ASSUME IInv, RInv, NEW t \in Task, Effect(t), Watch(t), GetAllUnitsByKind(t)
  PROVE  RInv'
  <1> DEFINE f == [frame[t] EXCEPT !.pc = "adding", !.wait = "kind", !.from = cpg,
                                   !.left = {u \in Real : kindOf[u] = Arg(t)}]
  <1>1. /\ running = t /\ Op(t) = "kind" /\ (Return(t) \/ Await(t, f))
        /\ UNCHANGED <<graph, loaded, backend>>
    BY DEF GetAllUnitsByKind, At
  <1>2. MaySettle(t) /\ frame[t] \in Frames /\ LooksUp(script[t][1])
    BY <1>1, RunningTask DEF IInv, Op, LooksUp
  <1>3. CASE Return(t)
    BY <1>1, <1>2, <1>3, QuietKeeps
  <1>4. CASE Await(t, f)
    <2>1. f.pc = "adding" /\ f.wait = "kind" /\ FromCurrent(f)
      BY <1>2 DEF Frames, FromCurrent
    <2>2. Grows /\ ViewOK'
      BY <1>1, ViewStays DEF RInv, loaded, backend, Effect
    <2> HIDE DEF f
    <2> QED BY <1>2, <1>4, <2>1, <2>2, GoesOnKeeps DEF Goes, Linking
  <1> QED BY <1>1, <1>3, <1>4

LEMMA AddUnitsOfKindKeeps ==
  ASSUME IInv, RInv, NEW t \in Task, Effect(t), Watch(t), AddUnitsOfKind(t)
  PROVE  RInv'
  <1>1. /\ running = t /\ Op(t) = "kind" /\ frame[t].pc = "adding"
        /\ UNCHANGED <<loadedRelations, backend>>
    BY DEF AddUnitsOfKind, At
  <1>2. /\ MaySettle(t) /\ frame[t] \in Frames /\ frame[t].wait = "none"
        /\ LooksUp(script[t][1]) /\ script[t] # <<>>
    BY <1>1, RunningTask DEF IInv, Op, LooksUp, MaySettle
  <1>3. /\ t \notin overtaken => frame[t].from = cpg
        /\ frame[t].from \in Nat \ {0}
    BY <1>1, <1>2, RunningTask DEF RInv, Local, Timely, FromCurrent, LocalsOK, Frames, IInv
  <1>4. ASSUME NEW u \in frame[t].left, AddUnit(u, frame[t].from),
               Continue(t, [frame[t] EXCEPT !.left = @ \ {u}])
        PROVE  RInv'
    <2> DEFINE f == [frame[t] EXCEPT !.left = @ \ {u}]
    <2>1. u \in Unit
      BY <1>2 DEF Frames
    <2>2. Grows /\ ViewOK'
      BY <1>1, <1>3, <1>4, <2>1, ViewAddsUnit DEF RInv, Effect
    <2>3. f.wait = "none" /\ f.pc = "adding" /\ f.from = frame[t].from
      BY <1>1, <1>2, <1>3 DEF Frames
    <2>4. Continue(t, f)
      BY <1>4
    <2> HIDE DEF f
    <2> QED BY <1>2, <1>3, <2>2, <2>3, <2>4, GoesOnKeeps DEF Goes, FromCurrent, Linking
  <1>5. CASE Return(t) /\ UNCHANGED graph
    <2>1. Grows /\ ViewOK'
      BY <1>1, <1>5, ViewStays DEF RInv, backend, Effect
    <2> QED BY <1>1, <1>2, <1>5, <2>1, ReturnKeeps
  <1> QED BY <1>4, <1>5 DEF AddUnitsOfKind

\* A step that changes neither the view nor the place of its coroutine.
LEMMA PhaseKeeps ==
  ASSUME IInv, RInv, NEW t \in Task, Effect(t), Watch(t), UNCHANGED <<graph, cpg>>,
         script[t] # <<>>, script'[t] = script[t], frame[t] \in Frames, NEW f, frame'[t] = f,
         f.wait = "none", frame[t].wait # "store", f.pc = frame[t].pc, f.left = frame[t].left,
         f.from = frame[t].from, f.cur = frame[t].cur, f.tgt = frame[t].tgt,
         f.pos = frame[t].pos, f.i = frame[t].i, f.n = frame[t].n
  PROVE  Local(t)'
  <1> PICK p : p = script[t][1]
    OBVIOUS
  <1> PICK g \in Frames : g = frame[t]
    OBVIOUS
  <1>1. /\ Fits(p, g)
        /\ t \notin overtaken => Timely(p, g)
        /\ p.op = "reload" => AllLate
        /\ p.op = "clear" /\ p.arg = "synced" => \A w \in Unit : StoredBut(dirty[t], w)
        /\ p.op = "sync" /\ Clears(script[t]) => Syncing(g, dirty[t])
    BY DEF RInv, Local, Op, Arg
  <1>2. UNCHANGED <<nodes, version, edges, cpg>>
    BY DEF graph
  <1>3. ASSUME t \notin overtaken' PROVE Timely(p, f)'
    <2>1. Timely(p, g)
      BY <1>1, <1>3, NotOvertaken
    <2> QED BY <1>2, <2>1
            DEF Timely, FromCurrent, Linking, Neighbours, EdgeOf, Present, InGraph
  <1>4. p.op = "reload" => AllLate'
    BY <1>1, <1>2, AllLateKept
  <1>5. ASSUME p.op = "clear", p.arg = "synced", NEW w \in Unit
        PROVE  StoredBut(dirty[t], w)'
    <2>1. script[t] \in Seq(Phases)
      BY DEF IInv, LoopOK
    <2> QED BY <1>1, <1>5, <2>1, FirstPhase, StoredKept
  <1>6. ASSUME p.op = "sync", Clears(script[t]) PROVE Syncing(f, dirty[t])'
    <2>1. Syncing(g, dirty[t])'
      BY <1>1, <1>6, SyncingKept
    <2> QED BY <2>1 DEF Syncing, StoredBut
  <1> QED BY <1>1, <1>3, <1>4, <1>5, <1>6
          DEF Local, Op, Arg, Fits, LooksUp, Timely, FromCurrent, Linking, Syncing, StoredBut,
              Clears, Neighbours, EdgeOf, Present, InGraph

LEMMA AnswerArrivesKeeps ==
  ASSUME IInv, RInv, NEW t \in Task, Effect(t), Watch(t), AnswerArrives(t)
  PROVE  RInv'
  <1> DEFINE f == [frame[t] EXCEPT !.wait = "none"]
  <1>1. /\ running = NoTask /\ frame[t].wait \in {"kind", "relations", "tags"}
        /\ Continue(t, f) /\ UNCHANGED <<graph, loaded, backend>>
    BY DEF AnswerArrives, Answered
  <1>2. /\ MaySettle(t) /\ frame[t] \in Frames /\ script[t] # <<>>
    BY <1>1, AnsweredTask DEF IInv, MaySettle
  <1>3. Goes(t, f)
    BY <1>1 DEF Goes
  <1>4. /\ f.wait = "none" /\ f.pc = frame[t].pc /\ f.left = frame[t].left
        /\ f.from = frame[t].from /\ f.cur = frame[t].cur /\ f.tgt = frame[t].tgt
        /\ f.pos = frame[t].pos /\ f.i = frame[t].i /\ f.n = frame[t].n
    BY <1>2 DEF Frames
  <1> HIDE DEF f
  <1>5. script'[t] = script[t] /\ frame'[t] = f
    BY <1>3, GoesFrame
  <1>6. ViewOK'
    BY <1>1, ViewStays DEF RInv, loaded, backend, Effect
  <1>7. Local(t)'
    BY <1>1, <1>2, <1>4, <1>5, PhaseKeeps DEF backend
  <1> QED BY <1>2, <1>5, <1>6, <1>7, StepKeeps

LEMMA CollectKeeps ==
  ASSUME IInv, RInv, NEW t \in Task, Effect(t), Watch(t), running = t, Collect(t),
         LooksUp(script[t][1]), ViewOK'
  PROVE  RInv'
  <1>1. MaySettle(t)
    BY RunningTask DEF IInv
  <1> QED BY <1>1, ReturnKeeps, RaiseKeeps DEF Collect, LooksUp, Op

LEMMA GetRelatedUnitsKeeps ==
  ASSUME IInv, RInv, NEW t \in Task, Effect(t), Watch(t), GetRelatedUnits(t)
  PROVE  RInv'
  <1>1. PICK dir \in {"out", "in"} :
            /\ At(t, dir, "start")
            /\ \/ /\ Present(Arg(t))
                  /\ IF relationKindLoaded \/ <<Arg(t), dir>> \in loadedRelations
                     THEN Collect(t)
                     ELSE Await(t, [frame[t] EXCEPT !.pc = "link", !.wait = "relations",
                                                    !.cur = Arg(t),
                                                    !.left = Neighbours(Arg(t), dir)])
                  /\ UNCHANGED <<graph, loaded>>
               \/ ~Present(Arg(t)) /\ Obtain(t, Arg(t), Fresh)
    BY DEF GetRelatedUnits
  <1>2. /\ running = t /\ Op(t) = dir /\ frame[t].pc = "start" /\ UNCHANGED backend
    BY <1>1 DEF At, GetRelatedUnits
  <1>3. /\ MaySettle(t) /\ Arg(t) \in Unit /\ frame[t] \in Frames
        /\ frame[t].pos = 0 /\ LooksUp(script[t][1])
    BY <1>2, RunningTask, PhaseArg DEF IInv, Op, Arg, LocalsOK, LooksUp
  <1>4. UNCHANGED <<graph, loaded>> => Grows /\ ViewOK'
    BY <1>2, ViewStays DEF RInv, loaded, backend, Effect
  <1>5. CASE Collect(t) /\ UNCHANGED <<graph, loaded>>
    BY <1>2, <1>3, <1>4, <1>5, CollectKeeps
  <1>6. ASSUME Await(t, [frame[t] EXCEPT !.pc = "link", !.wait = "relations",
                                         !.cur = Arg(t),
                                         !.left = Neighbours(Arg(t), dir)]),
               Present(Arg(t)), UNCHANGED <<graph, loaded>>
        PROVE  RInv'
    <2> DEFINE f == [frame[t] EXCEPT !.pc = "link", !.wait = "relations",
                                     !.cur = Arg(t), !.left = Neighbours(Arg(t), dir)]
    <2>1. /\ f.pc = "link" /\ f.wait = "relations" /\ f.cur = Arg(t)
          /\ f.pos = 0 /\ f.left = Neighbours(Arg(t), dir)
      BY <1>3 DEF Frames
    <2>2. Await(t, f)
      BY <1>6
    <2> HIDE DEF f
    <2>3. Linking(script[t][1], f)
      BY <1>2, <1>6, <2>1 DEF Linking, Arg, Op
    <2> QED BY <1>3, <1>4, <1>6, <2>1, <2>2, <2>3, GoesOnKeeps DEF Goes, FromCurrent
  <1>7. CASE Obtain(t, Arg(t), Fresh)
    BY <1>2, <1>3, <1>7, FreshOK, FreshLinks, ObtainKeeps
  <1> QED BY <1>1, <1>5, <1>6, <1>7

LEMMA GetAllRelationsByKindKeeps ==
  ASSUME IInv, RInv, NEW t \in Task, Effect(t), Watch(t), GetAllRelationsByKind(t)
  PROVE  RInv'
  <1>1. /\ running = t /\ Op(t) = "relations"
        /\ UNCHANGED <<graph, loadedUnits, loadedKinds, loadedRelations, backend>>
    BY DEF GetAllRelationsByKind, At
  <1>2. /\ MaySettle(t) /\ frame[t] \in Frames /\ LooksUp(script[t][1])
        /\ LocalsOK(script[t][1], frame[t]) /\ frame[t].wait = "none"
    BY <1>1, RunningTask DEF IInv, Op, LooksUp
  <1>3. Grows /\ ViewOK'
    BY <1>1, ViewStays DEF RInv, backend, Effect
  <1>4. CASE Collect(t)
    BY <1>1, <1>2, <1>3, <1>4, CollectKeeps
  <1>5. CASE StartIteration(t)
    <2> DEFINE f == [frame[t] EXCEPT !.pc = "iter", !.size = Len(nodes)]
    <2>1. f.pc = "iter" /\ f.wait = "none"
      BY <1>2 DEF Frames
    <2>2. Continue(t, f)
      BY <1>5 DEF StartIteration
    <2> HIDE DEF f
    <2> QED BY <1>2, <1>3, <2>1, <2>2, GoesOnKeeps DEF Goes, FromCurrent, Linking
  <1>6. CASE Raise(t)
    BY <1>2, <1>3, <1>6, RaiseKeeps
  <1>7. ASSUME frame[t].pc = "iter", HasNext(t),
               Await(t, [frame[t] EXCEPT !.pc = "link", !.wait = "relations",
                                         !.cur = NextNode(t), !.i = @ + 1,
                                         !.left = Neighbours(NextNode(t), "out")])
        PROVE  RInv'
    <2>1. PICK u \in Unit : u = NextNode(t)
      BY <1>1, <1>7, IteratedNode DEF HasNext, NextNode
    <2> DEFINE f == [frame[t] EXCEPT !.pc = "link", !.wait = "relations", !.cur = u,
                                     !.i = @ + 1, !.left = Neighbours(u, "out")]
    <2>2. /\ f.pc = "link" /\ f.wait = "relations" /\ f.cur = u
          /\ f.pos = 0 /\ f.left = Neighbours(u, "out")
      BY <1>2, <1>7 DEF Frames, LocalsOK
    <2>3. Await(t, f)
      BY <1>7, <2>1
    <2> HIDE DEF f
    <2>4. Present(u)
      BY <1>7, <2>1, HasUnit DEF HasNext, IInv
    <2>5. Linking(script[t][1], f)
      BY <1>1, <2>2, <2>4 DEF Linking, Op, Neighbours
    <2> QED BY <1>2, <1>3, <2>1, <2>2, <2>3, <2>5, GoesOnKeeps DEF Goes, FromCurrent
  <1> QED BY <1>4, <1>5, <1>6, <1>7 DEF GetAllRelationsByKind, At

\* Once no neighbour is left to be linked, all of them are.
LEMMA LinkedAll ==
  ASSUME IInv, RInv, NEW t \in Task, Effect(t), Watch(t), running = t, frame[t].pc = "link",
         Op(t) \in {"out", "in"}, frame[t].pos = 0, frame[t].left = {}, Arg(t) \in Unit,
         loadedRelations' = loadedRelations \cup {<<Arg(t), Op(t)>>},
         UNCHANGED <<graph, backend>>
  PROVE  ViewOK'
  <1>1. t \notin overtaken => Linking(script[t][1], frame[t])
    BY RunningTask DEF RInv, Local, Timely, IInv, MaySettle
  <1>2. UNCHANGED <<version, edges, cpg>> /\ edges \subseteq Unit \X Unit /\ IInv'
    BY DEF graph, backend, IInv, GraphOK, Effect
  <1>3. t \notin overtaken =>
           \A v \in Neighbours(Arg(t), Op(t)) : EdgeOf(Op(t), Arg(t), v) \in edges
    BY <1>1 DEF Linking, Op, Arg
  <1>4. ASSUME NEW u \in Unit, NEW dir \in {"out", "in"}, <<u, dir>> \in loadedRelations',
               <<"loaded", u, dir>> \notin late', NEW v \in Neighbours(u, dir)
        PROVE  (IF dir = "out" THEN <<u, v>> ELSE <<v, u>>) \in edges
    <2>1. <<"loaded", u, dir>> \in Entries'
      BY <1>2, <1>4, EntriesAreNext
    <2>2. <<"loaded", u, dir>> \notin late /\ (t \in overtaken => <<u, dir>> \in loadedRelations)
      BY <1>4, <2>1, EntriesAre, StillLate
    <2>3. CASE <<u, dir>> \in loadedRelations
      BY <1>4, <2>2, <2>3 DEF RInv, ViewOK, RelationsComplete
    <2>4. CASE <<u, dir>> \notin loadedRelations
      <3>1. u = Arg(t) /\ dir = Op(t) /\ t \notin overtaken
        BY <1>4, <2>2, <2>4
      <3>2. EdgeOf(dir, u, v) \in edges
        BY <1>3, <1>4, <3>1
      <3> QED BY <3>2 DEF EdgeOf
    <2> QED BY <2>3, <2>4
  <1>5. RelationsComplete'
    BY <1>2, <1>4 DEF RelationsComplete, Neighbours
  <1>6. ViewIsCurrent'
    BY <1>2, StillLate, EntriesAreNext DEF RInv, ViewOK, ViewIsCurrent
  <1>7. EdgesHaveUnits'
    <2> SUFFICES ASSUME NEW e \in edges, <<"edge", e[1], e[2]>> \in late
                 PROVE  <<"edge", e[1], e[2]>> \in late'
      BY <1>2 DEF RInv, ViewOK, EdgesHaveUnits
    <2>1. e = <<e[1], e[2]>>
      BY <1>2
    <2> QED BY <1>2, <2>1, StillLate, EntriesAreNext
  <1> QED BY <1>5, <1>6, <1>7 DEF ViewOK

LEMMA LinkKeeps ==
  ASSUME IInv, RInv, NEW t \in Task, Effect(t), Watch(t), Link(t)
  PROVE  RInv'
  <1>1. /\ running = t /\ Op(t) \in {"out", "in", "relations"} /\ frame[t].pc = "link"
        /\ UNCHANGED backend
    BY DEF Link, At
  <1>2. /\ MaySettle(t) /\ frame[t] \in Frames /\ frame[t].wait = "none"
        /\ LocalsOK(script[t][1], frame[t]) /\ LooksUp(script[t][1]) /\ script[t] # <<>>
    BY <1>1, RunningTask DEF IInv, Op, LooksUp, MaySettle
  <1>3. /\ frame[t].cur \in Unit
        /\ frame[t].left \subseteq Neighbours(frame[t].cur, Op(t))
        /\ frame[t].pos # 0 => frame[t].tgt \in Neighbours(frame[t].cur, Op(t))
    BY <1>1, <1>2 DEF LocalsOK, Op
  <1>4. t \notin overtaken =>
        /\ Present(frame[t].cur)
        /\ frame[t].pos \in 2..4 => Present(frame[t].tgt)
        /\ Op(t) \in {"out", "in"} => frame[t].cur = Arg(t)
        /\ \A v \in Neighbours(frame[t].cur, Op(t)) :
              \/ v \in frame[t].left \/ (frame[t].pos # 0 /\ v = frame[t].tgt)
              \/ EdgeOf(Op(t), frame[t].cur, v) \in edges
    BY <1>1, <1>2 DEF RInv, Local, Timely, Linking, Op, Arg
  <1>5. UNCHANGED <<graph, loaded>> => Grows /\ ViewOK'
    BY <1>1, ViewStays DEF RInv, loaded, backend, Effect
  <1>6. ASSUME frame[t].pos = 0, NEW u \in frame[t].left,
               Continue(t, [frame[t] EXCEPT !.tgt = u, !.left = @ \ {u}, !.pos = 1]),
               UNCHANGED <<graph, loaded>>
        PROVE  RInv'
    <2> DEFINE f == [frame[t] EXCEPT !.tgt = u, !.left = @ \ {u}, !.pos = 1]
    <2>1. /\ f.wait = "none" /\ f.pc = "link" /\ f.cur = frame[t].cur
          /\ f.left = frame[t].left \ {u} /\ f.tgt = u /\ f.pos = 1
      BY <1>1, <1>2 DEF Frames
    <2>2. Continue(t, f)
      BY <1>6
    <2> HIDE DEF f
    <2>3. t \notin overtaken => Linking(script[t][1], f)
      BY <1>4, <1>6, <2>1 DEF Linking, Op, Arg
    <2>4. f.tgt \in Unit
      BY <1>3, <1>6, <2>1, NeighboursAreUnits
    <2> QED BY <1>2, <1>3, <1>5, <1>6, <2>1, <2>2, <2>3, <2>4, GoesOnKeeps
            DEF Goes, FromCurrent
  <1>7. ASSUME frame[t].pos \in 1..3,
               Obtain(t, LookedUp(t), [frame[t] EXCEPT !.pos = @ + 1])
        PROVE  RInv'
    <2> DEFINE f == [frame[t] EXCEPT !.pos = frame[t].pos + 1]
    <2>1. frame[t].tgt \in Unit
      BY <1>3, <1>7, NeighboursAreUnits
    <2>2. /\ LookedUp(t) \in Unit
          /\ frame[t].pos = 1 => LookedUp(t) = frame[t].tgt
      BY <1>3, <1>7, <2>1 DEF LookedUp, Source, Target
    <2>3. /\ f \in Frames /\ f.wait = "none" /\ f.pc = "link" /\ f.cur = frame[t].cur
          /\ f.left = frame[t].left /\ f.tgt = frame[t].tgt /\ f.pos = frame[t].pos + 1
      BY <1>1, <1>2, <1>7 DEF Frames
    <2>4. Obtain(t, LookedUp(t), f)
      BY <1>7
    <2> HIDE DEF f
    <2>5. LocalsOK(script[t][1], f)
      BY <1>1, <1>3, <1>7, <2>3 DEF LocalsOK, Op
    <2>6. t \notin overtaken /\ Present(LookedUp(t)) => Linking(script[t][1], f)
      BY <1>4, <1>7, <2>2, <2>3 DEF Linking, Op, Arg
    <2> QED BY <1>1, <1>2, <2>2, <2>3, <2>4, <2>5, <2>6, ObtainKeeps
  <1>8. ASSUME frame[t].pos = 4, AddEdge(Source(t), Target(t)),
               Continue(t, [frame[t] EXCEPT !.pos = 0]), UNCHANGED loaded
        PROVE  RInv'
    <2> DEFINE f == [frame[t] EXCEPT !.pos = 0]
    <2>1. <<Source(t), Target(t)>> \in Related
      BY <1>1, <1>3, <1>8 DEF Source, Target, Neighbours
    <2>2. t \notin overtaken => Present(Source(t)) /\ Present(Target(t))
      BY <1>4, <1>8 DEF Source, Target
    <2>3. Grows /\ ViewOK' /\ edges' = edges \cup {<<Source(t), Target(t)>>}
      BY <1>1, <1>8, <2>1, <2>2, ViewAddsEdge DEF RInv, loaded, Effect
    <2>4. /\ f.wait = "none" /\ f.pc = "link" /\ f.cur = frame[t].cur
          /\ f.left = frame[t].left /\ f.pos = 0
      BY <1>1, <1>2 DEF Frames
    <2>5. Goes(t, f)
      BY <1>8 DEF Goes
    <2> HIDE DEF f
    <2>6. /\ script'[t] = script[t] /\ frame'[t] = f
      BY <2>5, GoesFrame
    <2>7. <<Source(t), Target(t)>> = EdgeOf(Op(t), frame[t].cur, frame[t].tgt)
      BY DEF Source, Target, EdgeOf
    <2>8. ASSUME t \notin overtaken' PROVE Linking(script[t][1], frame[t])'
      <3>1. PICK c, op : c = frame[t].cur /\ op = Op(t)
        BY <1>3
      <3>2. t \notin overtaken
        BY <1>2, <2>6, <2>8, NotOvertaken
      <3>3. /\ script'[t][1].op = op /\ script'[t][1].arg = Arg(t)
            /\ frame'[t].cur = c /\ frame'[t].left = f.left /\ frame'[t].pos = 0
        BY <2>4, <2>6, <3>1 DEF Op, Arg
      <3>4. Present(c)' /\ (op \in {"out", "in"} => c = Arg(t))
        BY <1>3, <1>4, <2>3, <3>1, <3>2 DEF Grows, PresentKept
      <3>5. \A v \in Neighbours(c, op) : v \in f.left \/ EdgeOf(op, c, v) \in edges'
        BY <1>4, <2>3, <2>4, <2>7, <3>1, <3>2
      <3> QED BY <3>3, <3>4, <3>5 DEF Linking, Present, InGraph, Neighbours, EdgeOf
    <2>9. Local(t)'
      BY <1>2, <2>4, <2>6, <2>8 DEF Local, Fits, Timely, FromCurrent, LooksUp, Op
    <2> QED BY <1>2, <2>3, <2>6, <2>9, StepKeeps
  <1>9. ASSUME Continue(t, [frame[t] EXCEPT !.pc = "iter"]), UNCHANGED <<graph, loaded>>
        PROVE  RInv'
    <2> DEFINE f == [frame[t] EXCEPT !.pc = "iter"]
    <2>1. f.wait = "none" /\ f.pc = "iter"
      BY <1>2 DEF Frames
    <2>2. Continue(t, f)
      BY <1>9
    <2> HIDE DEF f
    <2> QED BY <1>2, <1>5, <1>9, <2>1, <2>2, GoesOnKeeps DEF Goes, FromCurrent, Linking
  <1>10. ASSUME frame[t].pos = 0, frame[t].left = {}, Op(t) # "relations",
                loadedRelations' = loadedRelations \cup {<<Arg(t), Op(t)>>},
                Collect(t), UNCHANGED graph
         PROVE  RInv'
    <2>1. Arg(t) \in Unit
      BY <1>1, <1>10, RunningTask, PhaseArg DEF IInv, Op, Arg
    <2> QED BY <1>1, <1>2, <1>10, <2>1, LinkedAll, CollectKeeps
  <1> QED BY <1>6, <1>7, <1>8, <1>9, <1>10 DEF Link

LEMMA AddUnitFactKeeps ==
  ASSUME IInv, RInv, NEW t \in Task, Effect(t), Watch(t), AddUnitFact(t)
  PROVE  RInv'
  <1>1. /\ running = t /\ Op(t) = "fact" /\ frame[t].pc = "start" /\ UNCHANGED backend
    BY DEF AddUnitFact, At
  <1>2. MaySettle(t) /\ Arg(t) \in Unit /\ LooksUp(script[t][1])
    BY <1>1, RunningTask, PhaseArg DEF IInv, Op, Arg, LooksUp
  <1>3. CASE Present(Arg(t)) /\ AppendFact(Arg(t)) /\ Return(t) /\ UNCHANGED loaded
    <2>1. Grows /\ ViewOK'
      BY <1>1, <1>2, <1>3, ViewAddsFact DEF RInv, loaded, Effect
    <2> QED BY <1>1, <1>2, <1>3, <2>1, ReturnKeeps
  <1>4. CASE Obtain(t, Arg(t), Fresh)
    BY <1>1, <1>2, <1>4, FreshOK, FreshLinks, ObtainKeeps
  <1> QED BY <1>3, <1>4 DEF AddUnitFact

LEMMA LoadFactsKeeps ==
  ASSUME IInv, RInv, NEW t \in Task, Effect(t), Watch(t), LoadFacts(t)
  PROVE  RInv'
  <1>1. running = t /\ Op(t) = "load_facts" /\ UNCHANGED backend
    BY DEF LoadFacts, At
  <1>2. /\ MaySettle(t) /\ frame[t] \in Frames /\ frame[t].wait = "none"
        /\ LocalsOK(script[t][1], frame[t]) /\ LooksUp(script[t][1])
    BY <1>1, RunningTask DEF IInv, Op, LooksUp
  <1>3. UNCHANGED <<graph, loaded>> => Grows /\ ViewOK'
    BY <1>1, ViewStays DEF RInv, loaded, backend, Effect
  <1>4. CASE (Raise(t) \/ Return(t)) /\ UNCHANGED <<graph, loaded>>
    BY <1>1, <1>2, <1>4, QuietKeeps
  \* The locals that the loop goes on with carry no obligation.
  <1>5. ASSUME NEW f, f.pc \in {"iter", "append"}, f.wait \in {"none", "tags"},
               Goes(t, f), Grows, ViewOK'
        PROVE  RInv'
    BY <1>2, <1>5, GoesOnKeeps DEF FromCurrent, Linking
  <1>6. ASSUME Continue(t, [frame[t] EXCEPT !.pc = "iter",
                                            !.left = {u \in Unit : InGraph(u)}]),
               UNCHANGED <<graph, loaded>>
        PROVE  RInv'
    <2> DEFINE f == [frame[t] EXCEPT !.pc = "iter", !.left = {u \in Unit : InGraph(u)}]
    <2>1. f.pc = "iter" /\ f.wait = "none" /\ Goes(t, f)
      BY <1>2, <1>6 DEF Frames, Goes
    <2> HIDE DEF f
    <2> QED BY <1>3, <1>5, <1>6, <2>1
  <1>7. ASSUME NEW u \in frame[t].left, UNCHANGED <<graph, loaded>>,
               Await(t, [frame[t] EXCEPT !.pc = "append", !.wait = "tags", !.cur = u,
                                         !.n = tags[u], !.left = @ \ {u}])
        PROVE  RInv'
    <2> DEFINE f == [frame[t] EXCEPT !.pc = "append", !.wait = "tags", !.cur = u,
                                     !.n = tags[u], !.left = @ \ {u}]
    <2>1. f.pc = "append" /\ f.wait = "tags" /\ Goes(t, f)
      BY <1>2, <1>7 DEF Frames, Goes
    <2> HIDE DEF f
    <2> QED BY <1>3, <1>5, <1>7, <2>1
  <1>8. ASSUME Continue(t, [frame[t] EXCEPT !.pc = "iter"]), UNCHANGED <<graph, loaded>>
        PROVE  RInv'
    <2> DEFINE f == [frame[t] EXCEPT !.pc = "iter"]
    <2>1. f.pc = "iter" /\ f.wait = "none" /\ Goes(t, f)
      BY <1>2, <1>8 DEF Frames, Goes
    <2> HIDE DEF f
    <2> QED BY <1>3, <1>5, <1>8, <2>1
  <1>9. ASSUME frame[t].pc = "append", Present(frame[t].cur), AppendFact(frame[t].cur),
               Continue(t, [frame[t] EXCEPT !.n = @ - 1]), UNCHANGED loaded
        PROVE  RInv'
    <2> DEFINE f == [frame[t] EXCEPT !.n = @ - 1]
    <2>1. f.pc = "append" /\ f.wait = "none" /\ Goes(t, f)
      BY <1>2, <1>9 DEF Frames, Goes
    <2>2. frame[t].cur \in Unit
      BY <1>2, <1>9 DEF LocalsOK
    <2>3. Grows /\ ViewOK'
      BY <1>1, <1>9, <2>2, ViewAddsFact DEF RInv, loaded, Effect
    <2> HIDE DEF f
    <2> QED BY <1>5, <2>1, <2>3
  <1>10. ASSUME frame[t].pc = "append", Obtain(t, frame[t].cur, frame[t])
         PROVE  RInv'
    <2>1. frame[t].cur \in Unit
      BY <1>2, <1>10 DEF LocalsOK
    <2>2. Linking(script[t][1], frame[t])
      BY <1>10 DEF Linking
    <2> QED BY <1>1, <1>2, <1>10, <2>1, <2>2, ObtainKeeps
  <1> QED BY <1>4, <1>6, <1>7, <1>8, <1>9, <1>10 DEF LoadFacts, At

LEMMA SyncGoesOn ==
  ASSUME IInv, RInv, NEW t \in Task, Effect(t), Watch(t), MaySettle(t), Op(t) = "sync",
         NEW f, Goes(t, f), UNCHANGED <<graph, loaded, backend>>,
         f.pc \in {"iter", "store"}, f.wait \in {"none", "store"},
         Clears(script[t]) => Syncing(f, dirty[t])
  PROVE  RInv'
  <1>1. ViewOK'
    BY ViewStays DEF RInv, loaded, backend, Effect
  <1>2. script'[t] = script[t] /\ frame'[t] = f
    BY GoesFrame
  <1>3. ASSUME Clears(script[t]) PROVE Syncing(f, dirty[t])'
    <2>1. PICK d : d = dirty'[t]
      OBVIOUS
    <2>2. dirty[t] \subseteq d
      BY <1>2, <1>3, <2>1, DirtyGrows
    <2>3. UNCHANGED <<nodes, facts, cpg, tags>>
      BY DEF graph, backend
    <2> QED BY <1>3, <2>1, <2>2, <2>3 DEF Syncing, StoredBut
  <1>4. Local(t)'
    BY <1>2, <1>3
       DEF Local, Fits, Timely, FromCurrent, Linking, Op, Clears, Syncing, StoredBut
  <1> QED BY <1>1, <1>2, <1>4, StepKeeps

\* The last node was visited: all facts are in the backend.
LEMMA SyncedAll ==
  ASSUME RInv, NEW t \in Task, At(t, "sync", "iter"), Clears(script[t]), IInv,
         frame[t].i > Len(nodes), NEW w \in Unit
  PROVE  StoredBut(dirty[t], w)
  <1>1. Syncing(frame[t], dirty[t]) /\ frame[t].pc = "iter"
    BY DEF At, RInv, Local
  <1>2. frame[t].i \in Nat /\ Len(nodes) \in Nat
    BY LenProperties DEF IInv, LoopOK, Frames, GraphOK
  <1> QED BY <1>1, <1>2 DEF Syncing

LEMMA SyncBackendKeeps ==
  ASSUME IInv, RInv, FactsOnUnits, NEW t \in Task, Effect(t), Watch(t), SyncBackend(t)
  PROVE  RInv'
  <1>1. /\ running = t /\ Op(t) = "sync" /\ UNCHANGED <<graph, loaded, backend>>
        /\ script[t] # <<>>
    BY DEF SyncBackend, At
  <1>2. /\ MaySettle(t) /\ frame[t] \in Frames /\ frame[t].wait = "none"
        /\ LocalsOK(script[t][1], frame[t])
        /\ facts \in [Unit -> Nat] /\ tags \in [Unit -> Nat] /\ nodes \in Seq(Unit)
    BY <1>1, RunningTask DEF IInv, GraphOK, CountersOK
  <1>3. /\ Clears(script[t]) => Syncing(frame[t], dirty[t])
        /\ frame[t].i \in Nat \ {0} /\ frame[t].n \in Nat /\ Len(nodes) \in Nat
    BY <1>1, <1>2, LenProperties DEF RInv, Local, Frames
  <1>4. ViewOK'
    BY <1>1, ViewStays DEF RInv, loaded, backend, Effect
  <1>5. ASSUME frame[t].pc = "start", StartIteration(t)
        PROVE  RInv'
    <2> DEFINE f == [frame[t] EXCEPT !.pc = "iter", !.size = Len(nodes)]
    <2>1. /\ f.pc = "iter" /\ f.wait = "none" /\ f.i = frame[t].i
          /\ Goes(t, f)
      BY <1>2, <1>5 DEF Frames, StartIteration, Goes
    <2> HIDE DEF f
    <2>2. ASSUME Clears(script[t]) PROVE Syncing(f, dirty[t])
      <3>1. f.i = 1
        BY <1>3, <1>5, <2>1, <2>2 DEF Syncing
      <3>2. ASSUME NEW w \in Unit
            PROVE  facts[w] <= tags[w] \/ \E j \in 1..Len(nodes) : nodes[j] = w
        <4>1. CASE facts[w] = 0
          BY <1>2, <4>1
        <4>2. CASE facts[w] # 0
          BY <4>2 DEF FactsOnUnits, Present, InGraph
        <4> QED BY <4>1, <4>2
      <3> QED BY <2>1, <3>1, <3>2 DEF Syncing, StoredBut
    <2> QED BY <1>1, <1>2, <2>1, <2>2, SyncGoesOn
  <1>6. ASSUME frame[t].pc = "iter", HasNext(t),
               Continue(t, [frame[t] EXCEPT !.pc = "store", !.cur = NextNode(t),
                                            !.n = facts[NextNode(t)], !.i = @ + 1])
        PROVE  RInv'
    <2>1. PICK u \in Unit : u = nodes[frame[t].i]
      BY <1>1, <1>6, IteratedNode DEF HasNext
    <2> DEFINE f == [frame[t] EXCEPT !.pc = "store", !.cur = u, !.n = facts[u], !.i = @ + 1]
    <2>2. /\ f.pc = "store" /\ f.wait = "none"
          /\ f.i = frame[t].i + 1 /\ f.cur = u /\ f.n = facts[u]
      BY <1>2 DEF Frames
    <2>3. Goes(t, f)
      BY <1>6, <2>1 DEF NextNode, Goes
    <2> HIDE DEF f
    <2>4. ASSUME Clears(script[t]) PROVE Syncing(f, dirty[t])
      <3>1. ASSUME NEW w \in Unit, w # u
            PROVE  StoredBut(dirty[t], w) \/ \E j \in f.i..Len(nodes) : nodes[j] = w
        <4>1. \/ StoredBut(dirty[t], w)
              \/ \E j \in frame[t].i..Len(nodes) : nodes[j] = w
          BY <1>3, <1>6, <2>4 DEF Syncing
        <4> QED BY <1>3, <2>1, <2>2, <3>1, <4>1
      <3>2. facts[u] <= tags[u] + f.n + 0
        BY <1>2, <2>2
      <3> QED BY <2>2, <3>1, <3>2 DEF Syncing
    <2> QED BY <1>1, <1>2, <2>2, <2>3, <2>4, SyncGoesOn
  <1>7. CASE Raise(t)
    BY <1>1, <1>2, <1>7, QuietKeeps
  <1>8. CASE At(t, "sync", "iter") /\ NoNodeLeft(t) /\ Return(t)
    <2>1. Clears(script[t]) => \A w \in Unit : StoredBut(dirty[t], w)
      BY <1>8, SyncedAll DEF NoNodeLeft
    <2>2. ASSUME script'[t] # <<>>, script'[t][1].op = "clear"
          PROVE  \A w \in Unit : StoredBut(dirty[t], w)'
      <3>1. script[t] \in Seq(Phases) /\ script'[t] = Tail(script[t])
        BY <1>8 DEF Return, IInv, LoopOK
      <3>2. Clears(script'[t]) /\ Clears(script[t])
        BY <1>1, <2>2, <3>1, TailOK, TailKeeps, FirstPhase
      <3> QED BY <2>1, <3>2, StoredKept
    <2> QED BY <1>1, <1>2, <1>4, <1>8, <2>2, ReturnKeeps
  <1>9. ASSUME frame[t].pc = "store", frame[t].n = 0,
               Continue(t, [frame[t] EXCEPT !.pc = "iter"])
        PROVE  RInv'
    <2> DEFINE f == [frame[t] EXCEPT !.pc = "iter"]
    <2>1. f.pc = "iter" /\ f.wait = "none" /\ f.i = frame[t].i /\ Goes(t, f)
      BY <1>2, <1>9 DEF Frames, Goes
    <2> HIDE DEF f
    <2>2. ASSUME Clears(script[t]), NEW w \in Unit
          PROVE  StoredBut(dirty[t], w) \/ \E j \in f.i..Len(nodes) : nodes[j] = w
      BY <1>2, <1>3, <1>9, <2>1, <2>2 DEF Syncing, StoredBut
    <2>3. Clears(script[t]) => Syncing(f, dirty[t])
      BY <2>1, <2>2 DEF Syncing
    <2> QED BY <1>1, <1>2, <2>1, <2>3, SyncGoesOn
  <1>10. ASSUME frame[t].pc = "store", frame[t].n # 0,
                Await(t, [frame[t] EXCEPT !.wait = "store", !.n = @ - 1, !.from = cpg])
         PROVE  RInv'
    <2> DEFINE f == [frame[t] EXCEPT !.wait = "store", !.n = @ - 1, !.from = cpg]
    <2>1. /\ f.pc = "store" /\ f.wait = "store" /\ f.from = cpg
          /\ f.i = frame[t].i /\ f.cur = frame[t].cur /\ f.n = frame[t].n - 1
          /\ Goes(t, f)
      BY <1>2, <1>10 DEF Frames, Goes
    <2> HIDE DEF f
    <2>2. ASSUME Clears(script[t]), NEW w \in Unit
          PROVE  \/ StoredBut(dirty[t], w)
                 \/ w = f.cur /\ facts[w] <= tags[w] + f.n + 1
                 \/ \E j \in f.i..Len(nodes) : nodes[j] = w
      BY <1>2, <1>3, <1>10, <2>1, <2>2 DEF Syncing
    <2>3. Clears(script[t]) => Syncing(f, dirty[t])
      BY <2>1, <2>2 DEF Syncing
    <2> QED BY <1>1, <1>2, <2>1, <2>3, SyncGoesOn
  <1> QED BY <1>5, <1>6, <1>7, <1>8, <1>9, <1>10 DEF SyncBackend, At

LEMMA TagStoredKeeps ==
  ASSUME IInv, RInv, NEW t \in Task, Effect(t), Watch(t), TagStored(t)
  PROVE  RInv'
  <1> PICK f : f = [frame[t] EXCEPT !.wait = "none"]
    OBVIOUS
  <1>1. /\ running = NoTask /\ frame[t].wait = "store" /\ Continue(t, f)
        /\ UNCHANGED <<graph, loaded, cpg>>
    BY DEF TagStored, Answered
  <1>2. /\ MaySettle(t) /\ frame[t] \in Frames /\ LocalsOK(script[t][1], frame[t])
        /\ script[t] # <<>> /\ frame[t].n \in Nat /\ frame[t].i \in Nat
    BY <1>1, AnsweredTask DEF IInv, MaySettle, Frames
  <1>3. /\ f.wait = "none" /\ f.pc = frame[t].pc /\ f.left = frame[t].left
        /\ f.from = frame[t].from /\ f.cur = frame[t].cur /\ f.tgt = frame[t].tgt
        /\ f.pos = frame[t].pos /\ f.i = frame[t].i /\ f.n = frame[t].n
    BY <1>2 DEF Frames
  <1>4. Goes(t, f)
    BY <1>1 DEF Goes
  <1>5. script'[t] = script[t] /\ frame'[t] = f
    BY <1>4, GoesFrame
  <1>6. ViewOK' /\ UNCHANGED <<nodes, version, facts, edges, cpg>>
    BY <1>1, ViewStays DEF RInv, loaded, Effect, graph
  <1> PICK p : p = script[t][1]
    OBVIOUS
  <1> PICK g \in Frames : g = frame[t]
    BY <1>2
  <1>7. /\ Fits(p, g)
        /\ t \notin overtaken => Timely(p, g)
        /\ p.op = "reload" => AllLate
        /\ p.op = "clear" /\ p.arg = "synced" => \A w \in Unit : StoredBut(dirty[t], w)
        /\ p.op = "sync" /\ Clears(script[t]) => Syncing(g, dirty[t])
    BY <1>2 DEF RInv, Local, Op, Arg
  <1>8. ASSUME t \notin overtaken' PROVE Timely(p, f)'
    <2>1. Timely(p, g)
      BY <1>2, <1>5, <1>7, <1>8, NotOvertaken
    <2> QED BY <1>3, <1>6, <2>1
            DEF Timely, FromCurrent, Linking, Neighbours, EdgeOf, Present, InGraph
  <1>9. p.op = "reload" => AllLate'
    BY <1>6, <1>7, AllLateKept
  <1>10. ASSUME p.op = "clear", p.arg = "synced", NEW w \in Unit
         PROVE  StoredBut(dirty[t], w)'
    <2>1. script[t] \in Seq(Phases)
      BY DEF IInv, LoopOK
    <2> QED BY <1>2, <1>5, <1>7, <1>10, <2>1, FirstPhase, StoredKept
  <1>11. ASSUME p.op = "sync", Clears(script[t]) PROVE Syncing(f, dirty[t])'
    <2>1. PICK d : d = dirty'[t]
      OBVIOUS
    <2>2. dirty[t] \subseteq d
      BY <1>5, <1>11, <2>1, DirtyGrows
    <2>3. /\ \A w \in Unit : tags[w] <= tags'[w]
          /\ f.from = cpg /\ f.cur \in Unit => tags'[f.cur] = tags[f.cur] + 1
      BY <1>3, TagsGrow
    <2>4. CASE f.pc = "start"
      BY <1>3, <1>7, <1>11, <2>4 DEF Syncing
    <2>5. CASE f.pc # "start"
      <3>1. f.from = cpg \/ Unit \subseteq d
        BY <1>1, <1>3, <1>7, <1>11, <2>2, <2>5 DEF Syncing
      <3>2. /\ facts \in [Unit -> Nat] /\ tags \in [Unit -> Nat] /\ tags' \in [Unit -> Nat]
        BY DEF Effect, IInv, GraphOK, CountersOK
      <3>3. ASSUME NEW w \in Unit, w \notin d
            PROVE  \/ facts[w] <= tags'[w]
                   \/ f.pc = "store" /\ w = f.cur /\ facts[w] <= tags'[w] + f.n + 0
                   \/ \E j \in f.i..Len(nodes) : nodes[j] = w
        <4>1. /\ facts[w] \in Nat /\ tags[w] \in Nat /\ tags'[w] \in Nat /\ tags[w] <= tags'[w]
              /\ f.from = cpg /\ w \notin dirty[t]
          BY <2>2, <2>3, <3>1, <3>2, <3>3
        <4>2. \/ facts[w] <= tags[w]
              \/ f.pc = "store" /\ w = f.cur /\ facts[w] <= tags[w] + f.n + 1
              \/ \E j \in f.i..Len(nodes) : nodes[j] = w
          BY <1>1, <1>3, <1>7, <1>11, <2>5, <4>1 DEF Syncing, StoredBut
        <4>3. w = f.cur => tags'[w] = tags[w] + 1
          BY <2>3, <4>1
        <4> QED BY <1>2, <1>3, <4>1, <4>2, <4>3
      <3> QED BY <1>3, <1>6, <2>1, <2>5, <3>3 DEF Syncing, StoredBut
    <2> QED BY <2>4, <2>5 DEF Syncing
  <1>12. Local(t)'
    BY <1>3, <1>5, <1>7, <1>8, <1>9, <1>10, <1>11
       DEF Local, Op, Arg, Fits, LooksUp, Timely, FromCurrent, Linking, Syncing, StoredBut,
           Clears, Neighbours, EdgeOf, Present, InGraph
  <1> QED BY <1>2, <1>5, <1>6, <1>12, StepKeeps

LEMMA ClearKeeps ==
  ASSUME IInv, RInv, NEW t \in Task, Effect(t), Watch(t), Clear(t)
  PROVE  RInv'
  <1>1. /\ running = t /\ Op(t) = "clear"
        /\ ClearGraph /\ ClearLoaded /\ Return(t)
    BY DEF Clear, At
  <1>2. MaySettle(t)
    BY <1>1, RunningTask DEF IInv
  <1>3. AllLate' /\ ViewOK'
    BY <1>1 DEF ClearGraph, ClearLoaded, AllLate, ViewOK, ViewIsCurrent, EdgesHaveUnits,
       RelationsComplete
  <1> QED BY <1>1, <1>2, <1>3, ReturnKeeps

LEMMA ReloadKeeps ==
  ASSUME IInv, RInv, NEW t \in Task, Effect(t), Watch(t), Reload(t)
  PROVE  RInv'
  <1> DEFINE f == [frame[t] EXCEPT !.wait = "reload"]
  <1>1. /\ running = t /\ Op(t) = "reload" /\ frame[t].pc = "start" /\ Goes(t, f)
        /\ UNCHANGED <<graph, loaded, backend>> /\ script[t] # <<>>
    BY DEF Reload, At, Goes
  <1>2. MaySettle(t) /\ frame[t] \in Frames
    BY <1>1, RunningTask DEF IInv
  <1>3. ViewOK'
    BY <1>1, ViewStays DEF RInv, loaded, backend, Effect
  <1>4. script'[t] = script[t] /\ frame'[t] = f
    BY <1>1, GoesFrame
  <1>5. f.wait = "reload" /\ f.pc = "start"
    BY <1>1, <1>2 DEF Frames
  <1> HIDE DEF f
  <1>6. AllLate'
    BY <1>1, AllLateKept DEF RInv, Local, graph
  <1>7. Local(t)'
    BY <1>1, <1>4, <1>5, <1>6 DEF Local, Fits, Timely, FromCurrent, Linking, Op, AllLate
  <1> QED BY <1>2, <1>3, <1>4, <1>7, StepKeeps

\* All units left from before the reload are late by the time the new CPG is there.
LEMMA ReloadedKeeps ==
  ASSUME IInv, RInv, NEW t \in Task, Effect(t), Watch(t), Reloaded(t)
  PROVE  RInv'
  <1>1. /\ running = NoTask /\ frame[t].wait = "reload" /\ Return(t)
        /\ UNCHANGED <<graph, loaded>>
    BY DEF Reloaded, Answered
  <1>2. MaySettle(t) /\ script[t] # <<>>
    BY <1>1, AnsweredTask DEF IInv, MaySettle
  <1>3. Op(t) = "reload" /\ AllLate
    BY <1>1, <1>2 DEF RInv, Local, Fits, Op
  <1>4. UNCHANGED <<version, edges, loadedRelations>> /\ IInv'
    BY <1>1 DEF graph, loaded, Effect
  <1>5. ViewIsCurrent'
    <2>1. AllLate'
      BY <1>3, <1>4, AllLateKept
    <2> QED BY <2>1 DEF AllLate, ViewIsCurrent
  <1>6. EdgesHaveUnits'
    <2> SUFFICES ASSUME NEW e \in edges, <<"edge", e[1], e[2]>> \in late
                 PROVE  <<"edge", e[1], e[2]>> \in late'
      BY <1>4 DEF RInv, ViewOK, EdgesHaveUnits
    <2>1. e = <<e[1], e[2]>>
      BY DEF IInv, GraphOK
    <2> QED BY <1>4, <2>1, StillLate, EntriesAreNext
  <1>7. RelationsComplete'
    BY <1>4, MarksStay DEF RInv, ViewOK
  <1> QED BY <1>1, <1>2, <1>3, <1>5, <1>6, <1>7, ReturnKeeps DEF ViewOK

LEMMA BackendFailsKeeps ==
  ASSUME IInv, RInv, NEW t \in Task, Effect(t), Watch(t), BackendFails(t)
  PROVE  RInv'
  <1>1. /\ running = NoTask /\ frame[t].wait # "none" /\ Raise(t)
        /\ UNCHANGED <<graph, loaded, backend>>
    BY DEF BackendFails, Answered
  <1> QED BY <1>1, AnsweredTask, QuietKeeps DEF IInv

-----------------------------------------------------------------------------
(* A new request.                                                             *)

Restarts(s) == \E i \in 1..Len(s) : s[i].op \in {"clear", "reload"}

\* Nothing need be known of the graph before the first phase of a request.
Startable(s) ==
    /\ ShapeOK(s)
    /\ s[1].op # "reload"
    /\ ~(s[1].op = "clear" /\ s[1].arg = "synced")

LEMMA PlainStartable ==
  ASSUME NEW s \in Seq(Phases), s # <<>>, ~Restarts(s)
  PROVE  Startable(s)
  <1>1. 1 \in 1..Len(s)
    BY TailParts
  <1> QED BY <1>1 DEF Startable, ShapeOK, Restarts

LEMMA PreloadPlain ==
  /\ Len(Preload) \in Nat
  /\ \A i \in 1..Len(Preload) : Preload[i].op \in {"kind", "relations", "load_facts"}
  <1> DEFINE kinds == [i \in 1..Len(PreloadKinds) |-> Phase("kind", PreloadKinds[i])]
             others == <<Phase("relations", NoUnit), Phase("load_facts", NoUnit)>>
  <1>1. Len(PreloadKinds) \in Nat
    BY UnitAssumption, LenProperties
  <1>2. /\ kinds \in Seq([op : {"kind"}, arg : Kind]) /\ Len(kinds) = Len(PreloadKinds)
        /\ \A i \in 1..Len(kinds) : kinds[i].op = "kind"
    <2>1. \A i \in 1..Len(PreloadKinds) :
             Phase("kind", PreloadKinds[i]) \in [op : {"kind"}, arg : Kind]
      BY <1>1, UnitAssumption, ElementOfSeq DEF Phase
    <2>2. kinds \in Seq([op : {"kind"}, arg : Kind])
      BY <1>1, <2>1, IsASeq
    <2> QED BY <1>1, <2>2, LenProperties DEF Phase
  <1>3. /\ others \in Seq([op : {"relations", "load_facts"}, arg : {NoUnit}])
        /\ Len(others) = 2 /\ \A i \in 1..2 : others[i].op \in {"relations", "load_facts"}
    BY DEF Phase
  <1> HIDE DEF kinds, others
  <1>4. kinds \in Seq(Phases) /\ others \in Seq(Phases)
    BY <1>2, <1>3, SeqMonotonic DEF Phases
  <1>5. /\ Len(kinds \o others) = Len(kinds) + 2
        /\ \A i \in 1..Len(kinds) + 2 :
              (kinds \o others)[i] = IF i <= Len(kinds) THEN kinds[i] ELSE others[i - Len(kinds)]
    <2>1. /\ Len(kinds \o others) = Len(kinds) + Len(others)
          /\ \A i \in 1..Len(kinds) + Len(others) :
                (kinds \o others)[i] = IF i <= Len(kinds) THEN kinds[i] ELSE others[i - Len(kinds)]
      BY <1>4, ConcatProperties
    <2>2. Len(others) = 2
      BY <1>3
    <2> QED BY <2>1, <2>2
  <1>6. ASSUME NEW i \in 1..Len(kinds) + 2
        PROVE  (kinds \o others)[i].op \in {"kind", "relations", "load_facts"}
    <2>1. CASE i <= Len(kinds)
      BY <1>1, <1>2, <1>5, <2>1
    <2>2. CASE ~(i <= Len(kinds))
      <3>1. i - Len(kinds) \in 1..2
        BY <1>1, <1>2, <2>2
      <3> QED BY <1>3, <1>5, <2>2, <3>1
    <2> QED BY <2>1, <2>2
  <1> QED BY <1>1, <1>2, <1>5, <1>6 DEF Preload, kinds, others

\* A phase that neither clears nor reloads.
Plain(p) == p \in Phases /\ p.op \notin {"clear", "reload"}

LEMMA PlainPhases ==
  /\ \A u \in Unit, op \in {"unit", "location", "fact", "out", "in"} : Plain(Phase(op, u))
  /\ \A k \in Kind : Plain(Phase("kind", k))
  /\ \A op \in {"relations", "load_facts", "sync"} : Plain(Phase(op, NoUnit))
  BY PhasesTyped DEF Plain, Phase

LEMMA ShortPlain ==
  ASSUME NEW p, NEW q, NEW r, Plain(p), Plain(q), Plain(r)
  PROVE  Startable(<<p>>) /\ Startable(<<p, q>>) /\ Startable(<<p, q, r>>)
  <1>1. p \in Phases /\ q \in Phases /\ r \in Phases
    BY DEF Plain
  <1>2. ~Restarts(<<p>>)
    BY DEF Restarts, Plain
  <1>3. ~Restarts(<<p, q>>)
    BY DEF Restarts, Plain
  <1>4. ~Restarts(<<p, q, r>>)
    BY DEF Restarts, Plain
  <1>5. Startable(<<p>>)
    BY <1>1, <1>2, ShortScripts, PlainStartable
  <1>6. Startable(<<p, q>>)
    BY <1>1, <1>3, ShortScripts, PlainStartable
  <1>7. Startable(<<p, q, r>>)
    BY <1>1, <1>4, ShortScripts, PlainStartable
  <1> QED BY <1>5, <1>6, <1>7

LEMMA ScriptsStartable ==
  ASSUME NEW name \in DOMAIN Scripts, NEW s \in Scripts[name]
  PROVE  Startable(s)
  <1> USE DEF Phase
  <1>1. CASE name = "reload"
    <2> DEFINE restart == <<Phase("clear", "dropped"), Phase("reload", NoUnit)>>
    <2>1. /\ restart \in Seq(Phases) /\ Len(restart) = 2 /\ restart[1].op = "clear"
          /\ restart[1].arg = "dropped" /\ restart[2].op = "reload"
      BY PhasesTyped
    <2>2. s = restart \o Preload
      BY <1>1 DEF Scripts
    <2> HIDE DEF restart
    <2>3. /\ Len(s) = 2 + Len(Preload)
          /\ \A i \in 1..Len(s) : s[i] = IF i <= 2 THEN restart[i] ELSE Preload[i - 2]
      <3>1. /\ Len(restart \o Preload) = Len(restart) + Len(Preload)
            /\ \A i \in 1..Len(restart) + Len(Preload) :
                  (restart \o Preload)[i] = IF i <= Len(restart) THEN restart[i]
                                            ELSE Preload[i - Len(restart)]
        BY <2>1, PreloadTyped, ConcatProperties
      <3>2. Len(restart) = 2
        BY <2>1
      <3> QED BY <2>2, <3>1, <3>2
    <2>4. \A i \in 1..Len(s) : i > 2 => s[i].op \in {"kind", "relations", "load_facts"}
      BY <2>3, PreloadPlain
    <2>5. s[1] = restart[1] /\ s[2] = restart[2]
      BY <2>3, PreloadPlain
    <2>6. ASSUME NEW i \in 1..Len(s)
          PROVE  /\ s[i].op = "clear" => i = 1
                 /\ s[i].op = "reload" => i = 2
      <3>1. CASE i > 2
        BY <2>4, <3>1
      <3>2. CASE i = 1 \/ i = 2
        BY <2>1, <2>5, <3>2
      <3> QED BY <2>3, PreloadPlain, <3>1, <3>2
    <2> QED BY <2>1, <2>5, <2>6 DEF Startable, ShapeOK
  <1>2. CASE name = "preload_from_backend"
    <2>1. s = Preload /\ s # <<>>
      BY <1>2, ScriptsTyped DEF Scripts
    <2>2. ~Restarts(s)
      BY <2>1, PreloadPlain DEF Restarts
    <2> QED BY <2>1, <2>2, PreloadTyped, PlainStartable
  <1>3. CASE name = "cleanup"
    <2>1. CASE s = <<Phase("clear", "dropped")>>
      <3>1. Len(s) = 1 /\ s[1].op = "clear" /\ s[1].arg = "dropped"
        BY <2>1
      <3> QED BY <3>1 DEF Startable, ShapeOK
    <2>2. CASE s = <<Phase("sync", NoUnit), Phase("clear", "synced")>>
      <3>1. Len(s) = 2 /\ s[1].op = "sync" /\ s[2].op = "clear"
        BY <2>2
      <3>2. \A i \in 1..Len(s) : i = 1 \/ i = 2
        BY <3>1
      <3> QED BY <3>1, <3>2 DEF Startable, ShapeOK
    <2> QED BY <1>3, <2>1, <2>2 DEF Scripts
  <1>4. CASE name = "get_unit"
    <2>1. PICK u \in Unit : s = <<Phase("unit", u)>>
      BY <1>4 DEF Scripts
    <2> QED BY <2>1, ShortPlain, PlainPhases
  <1>5. CASE name = "fetch_unit"
    <2>1. PICK u \in Real : s = <<Phase("location", u)>>
      BY <1>5 DEF Scripts
    <2> QED BY <2>1, ShortPlain, PlainPhases, UnitAssumption
  <1>6. CASE name = "get_all_units_by_kind"
    <2>1. PICK k \in Kind : s = <<Phase("kind", k)>>
      BY <1>6 DEF Scripts
    <2> QED BY <2>1, ShortPlain, PlainPhases
  <1>7. CASE name = "add_unit_fact"
    <2>1. PICK u \in Unit : s = <<Phase("fact", u)>>
      BY <1>7 DEF Scripts
    <2> QED BY <2>1, ShortPlain, PlainPhases
  <1>8. CASE name \in {"get_all_relations_by_kind", "load_facts", "sync_backend"}
    <2>1. PICK op \in {"relations", "load_facts", "sync"} : s = <<Phase(op, NoUnit)>>
      BY <1>8 DEF Scripts
    <2> QED BY <2>1, ShortPlain, PlainPhases
  <1>9. CASE name = "get_related_units"
    <2>1. PICK u \in Unit : s \in {<<Phase("unit", u), Phase("out", u)>>,
                                  <<Phase("unit", u), Phase("in", u)>>,
                                  <<Phase("unit", u), Phase("out", u), Phase("in", u)>>}
      BY <1>9 DEF Scripts
    <2>2. Plain(Phase("unit", u)) /\ Plain(Phase("out", u)) /\ Plain(Phase("in", u))
      BY PlainPhases
    <2>3. CASE s = <<Phase("unit", u), Phase("out", u)>>
      BY <2>2, <2>3, ShortPlain
    <2>4. CASE s = <<Phase("unit", u), Phase("in", u)>>
      BY <2>2, <2>4, ShortPlain
    <2>5. CASE s = <<Phase("unit", u), Phase("out", u), Phase("in", u)>>
      BY <2>2, <2>5, ShortPlain
    <2> QED BY <2>1, <2>3, <2>4, <2>5
  <1>10. DOMAIN Scripts = {"get_unit", "fetch_unit", "get_all_units_by_kind",
            "get_all_relations_by_kind", "get_related_units", "add_unit_fact", "load_facts",
            "preload_from_backend", "sync_backend", "reload", "cleanup"}
    BY DEF Scripts
  <1>11. name \in {"get_unit", "fetch_unit", "get_all_units_by_kind",
            "get_all_relations_by_kind", "get_related_units", "add_unit_fact", "load_facts",
            "preload_from_backend", "sync_backend", "reload", "cleanup"}
    BY <1>10
  <1> QED BY <1>1, <1>2, <1>3, <1>4, <1>5, <1>6, <1>7, <1>8, <1>9, <1>11

LEMMA HandleRequestKeeps ==
  ASSUME IInv, RInv, NEW t \in Task, Effect(t), Watch(t), HandleRequest(t)
  PROVE  RInv'
  <1>0. PICK name \in Offered : \E s \in Scripts[name] : script' = [script EXCEPT ![t] = s]
    BY DEF HandleRequest
  <1>1. PICK s \in Scripts[name] : script' = [script EXCEPT ![t] = s]
    BY <1>0
  <1>2. s \in Seq(Phases) /\ s # <<>> /\ Startable(s)
    BY OfferedAssumption, ScriptsTyped, ScriptsStartable
  <1>3. script[t] = <<>> /\ UNCHANGED <<graph, loaded, backend, frame>>
    BY DEF HandleRequest
  <1>4. script'[t] = s /\ frame'[t] = Fresh
    BY <1>1, <1>3 DEF IInv, LoopOK
  <1>5. Shapes'
    <2>1. ASSUME NEW u \in Task PROVE ShapeOK(script'[u])
      BY <1>2, <1>4 DEF RInv, Shapes, Startable, Effect
    <2> QED BY <2>1 DEF Shapes, ShapeOK
  <1>6. Overtakes'
    BY DEF Watch, Overtake, Overtakes, Reloading
  <1>7. ViewOK'
    BY <1>3, ViewStays DEF RInv, loaded, backend, Effect
  <1>8. Local(t)'
    BY <1>2, <1>4 DEF Local, Fits, Timely, FromCurrent, Linking, Syncing, Startable, Op, Arg, Fresh
  <1>9. \A u \in Task : Local(u)'
    BY <1>8, OthersKeep
  <1> QED BY <1>5, <1>6, <1>7, <1>9 DEF RInv

-----------------------------------------------------------------------------
(* The theorems. *)

LEMMA InitRInv == HInit => RInv
  <1> SUFFICES ASSUME HInit PROVE RInv
    OBVIOUS
  <1>1. \A t \in Task : script[t] = <<>>
    BY DEF HInit, Init
  <1>2. Shapes /\ Overtakes
    BY <1>1, IdleScript DEF Shapes, Overtakes, Reloading
  <1>3. ViewOK
    BY DEF HInit, Init, ViewOK, ViewIsCurrent, EdgesHaveUnits, RelationsComplete
  <1> QED BY <1>1, <1>2, <1>3 DEF RInv, Local

LEMMA StutterKeeps ==
  ASSUME RInv, UNCHANGED hvars
  PROVE  RInv'
  <1>1. UNCHANGED <<nodes, version, facts, edges, loadedRelations, cpg, tags, script, frame>>
    BY DEF hvars, vars, graph, loaded, backend, loop
  <1>2. UNCHANGED <<overtaken, late, dirty>>
    BY DEF hvars, history
  <1>3. Shapes' /\ Overtakes'
    BY <1>1, <1>2 DEF RInv, Shapes, ShapeOK, Overtakes, Reloading
  <1>4. ViewOK'
    BY <1>1, <1>2 DEF RInv, ViewOK, ViewIsCurrent, EdgesHaveUnits, RelationsComplete, Neighbours
  <1>5. ASSUME NEW t \in Task PROVE Local(t)'
    <2>1. Timely(script[t][1], frame[t])' <=> Timely(script[t][1], frame[t])
      BY <1>1 DEF Timely, FromCurrent, Linking, Present, InGraph, EdgeOf, Neighbours
    <2>2. Syncing(frame[t], dirty[t])' <=> Syncing(frame[t], dirty[t])
      BY <1>1, <1>2 DEF Syncing, StoredBut
    <2>3. Fits(script[t][1], frame[t])' <=> Fits(script[t][1], frame[t])
      BY <1>1 DEF Fits, LooksUp
    <2>4. AllLate' <=> AllLate
      BY <1>1, <1>2 DEF AllLate
    <2>5. \A w \in Unit : StoredBut(dirty[t], w)' <=> StoredBut(dirty[t], w)
      BY <1>1, <1>2 DEF StoredBut
    <2>6. Clears(script[t])' <=> Clears(script[t])
      BY <1>1 DEF Clears
    <2> QED BY <1>1, <1>2, <2>1, <2>2, <2>3, <2>4, <2>5, <2>6 DEF RInv, Local, Op, Arg
  <1> QED BY <1>3, <1>4, <1>5 DEF RInv

LEMMA NextRInv ==
  ASSUME IInv, FactsOnUnits, RInv, [HNext]_hvars
  PROVE  RInv'
  <1>1. CASE UNCHANGED hvars
    BY <1>1, StutterKeeps
  <1>2. CASE HNext
    <2>1. PICK t \in Task : (HandleRequest(t) \/ Step(t) \/ Arrival(t)) /\ Watch(t)
      BY <1>2 DEF HNext
    <2>2. Effect(t)
      BY <2>1, StepEffect
    <2>3. CASE HandleRequest(t)
      BY <2>1, <2>2, <2>3, HandleRequestKeeps
    <2>4. CASE Step(t)
      <3>1. CASE GetUnit(t) \/ FetchUnit(t) \/ GetAllUnitsByKind(t) \/ AddUnitsOfKind(t)
        BY <2>1, <2>2, <3>1, GetUnitKeeps, FetchUnitKeeps, GetAllUnitsByKindKeeps,
           AddUnitsOfKindKeeps
      <3>2. CASE GetRelatedUnits(t) \/ GetAllRelationsByKind(t) \/ Link(t) \/ AddUnitFact(t)
        BY <2>1, <2>2, <3>2, GetRelatedUnitsKeeps, GetAllRelationsByKindKeeps, LinkKeeps,
           AddUnitFactKeeps
      <3>3. CASE LoadFacts(t) \/ SyncBackend(t) \/ Clear(t) \/ Reload(t)
        BY <2>1, <2>2, <3>3, LoadFactsKeeps, SyncBackendKeeps, ClearKeeps, ReloadKeeps
      <3> QED BY <2>4, <3>1, <3>2, <3>3 DEF Step
    <2>5. CASE Arrival(t)
      BY <2>1, <2>2, <2>5, UnitArrivesKeeps, LocationArrivesKeeps, AnswerArrivesKeeps,
         TagStoredKeeps, ReloadedKeeps, BackendFailsKeeps DEF Arrival
    <2> QED BY <2>1, <2>3, <2>4, <2>5
  <1> QED BY <1>1, <1>2

\* The history variables restrict nothing.
LEMMA OnlyWatched == HSpec => Spec
  <1>1. HInit => Init
    BY DEF HInit
  <1>2. [HNext]_hvars => [Next]_vars
    BY DEF HNext, Next, hvars
  <1> QED BY <1>1, <1>2, PTL DEF HSpec, Spec

LEMMA OverlapInvariance == HSpec => []RInv
  <1>1. IInv /\ FactsOnUnits /\ RInv /\ [HNext]_hvars => RInv'
    BY NextRInv
  <1> QED BY <1>1, InitRInv, OnlyWatched, Invariance, FactsOnUnitsInvariance, PTL DEF HSpec

\* Whatever overlaps a reload: a unit of an old CPG comes back into the view, or
\* stays in it, only by the hand of a coroutine that a reload overtook (one that was
\* waiting for the old backend, or filled the view while the new one was built).
THEOREM ReloadLeavesNothingOld == HSpec => []ViewIsCurrent
  <1>1. RInv => ViewIsCurrent
    BY DEF RInv, ViewOK
  <1> QED BY <1>1, OverlapInvariance, PTL

\* _add_relation looks both ends of a relation up before it adds the edge, each
\* look-up may await; the ends are still there when it does, unless another handler
\* cleared the view or reloaded the backend in between.
THEOREM RelatedUnitsAreThere == HSpec => []EdgesHaveUnits
  <1>1. RInv => EdgesHaveUnits
    BY DEF RInv, ViewOK
  <1> QED BY <1>1, OverlapInvariance, PTL

\* A (unit, direction) marked as loaded has all its edges, however many handlers
\* were linking the neighbours of the same unit at the same time, unless the one
\* that set the mark had its edges cleared by another in between.
THEOREM LoadedRelationsComplete == HSpec => []RelationsComplete
  <1>1. RInv => RelationsComplete
    BY DEF RInv, ViewOK
  <1> QED BY <1>1, OverlapInvariance, PTL

\* cleanup(sync_to_backend=True) drops no fact that the backend does not store, but
\* those that other handlers added, or that a reload threw away, after it began.
THEOREM ClearLosesNoFact == HSpec => []SyncedBeforeClear
  <1>1. RInv => SyncedBeforeClear
    BY DEF RInv, Local, StoredBut, SyncedBeforeClear, At, Op, Arg
  <1> QED BY <1>1, OverlapInvariance, PTL

-----------------------------------------------------------------------------
(* What the finding about the relation kind leaves true.                    *)

OutComplete(u) == \A v \in Neighbours(u, "out") : <<u, v>> \in edges

\* Of a coroutine in get_all_relations_by_kind: the nodes its iteration has passed
\* have their outgoing edges, but for the one it is at.
Tracks(p, f) ==
    p.op = "relations" =>
        IF f.pc = "start" THEN f.i = 1 ELSE
            /\ f.i <= Len(nodes) + 1
            /\ \A j \in 1..Len(nodes) : j < f.i =>
                  OutComplete(nodes[j]) \/ (f.pc = "link" /\ nodes[j] = f.cur)

TInv ==
    \A t \in Task : script[t] # <<>> /\ t \notin overtaken => Tracks(script[t][1], frame[t])

\* Unless an overtaken coroutine marked the relation kind as loaded.
Tracked == <<"loaded", NoUnit, "out">> \notin late => AllNodesTracked

SamePlace(f, g) == f.pc = g.pc /\ f.i = g.i /\ f.cur = g.cur

\* A unit joins the graph after the relation kind was marked as loaded.
JoinsLate == relationKindLoaded /\ \E u \in Unit : ~Present(u) /\ Present(u)'

LEMMA OutKept ==
  ASSUME edges \subseteq edges', NEW u, OutComplete(u)
  PROVE  OutComplete(u)'
  BY DEF OutComplete, Neighbours

LEMMA TracksKept ==
  ASSUME IInv, Ordered, NEW p, NEW f, f.i \in Nat, Tracks(p, f)
  PROVE  Tracks(p, f)'
  <1> SUFFICES ASSUME p.op = "relations", f.pc # "start"
               PROVE  Tracks(p, f)'
    BY DEF Tracks
  <1>1. /\ Len(nodes) \in Nat /\ f.i <= Len(nodes) + 1
        /\ \A j \in 1..Len(nodes) : j < f.i =>
              OutComplete(nodes[j]) \/ (f.pc = "link" /\ nodes[j] = f.cur)
    BY LenProperties DEF Tracks, IInv, GraphOK
  <1>2. Len(nodes') \in Nat
    <2>1. Len(nodes') >= Len(nodes)
      BY DEF Ordered
    <2> QED BY <2>1
  <1> QED BY <1>1, <1>2, OutKept DEF Tracks, Ordered

LEMMA TrackedStays ==
  ASSUME IInv, IInv', NEW t, Watch(t), Ordered, relationKindLoaded' = relationKindLoaded,
         Tracked, ~JoinsLate
  PROVE  Tracked'
  <1> SUFFICES ASSUME <<"loaded", NoUnit, "out">> \notin late',
                      relationKindLoaded, NEW e \in Related, Present(e[1])'
               PROVE  e \in edges'
    BY DEF Tracked, AllNodesTracked
  <1>1. PICK u \in Unit : u = e[1]
    BY UnitAssumption
  <1>2. Present(u)
    BY <1>1 DEF JoinsLate, Present, InGraph
  <1>3. <<"loaded", NoUnit, "out">> \notin late
    BY StillLate, EntriesAreNext
  <1> QED BY <1>1, <1>2, <1>3 DEF Tracked, AllNodesTracked, Ordered

\* A coroutine that stays where it is.
LEMMA PlaceKept ==
  ASSUME IInv, TInv, Ordered, NEW u \in Task, script[u] # <<>>, u \notin overtaken,
         script'[u] = script[u], SamePlace(frame'[u], frame[u])
  PROVE  Tracks(script[u][1], frame[u])'
  <1>1. PICK p : p = script[u][1]
    OBVIOUS
  <1>2. PICK f : f = frame[u]
    OBVIOUS
  <1>3. f.i \in Nat /\ Tracks(p, f)
    BY <1>1, <1>2 DEF TInv, IInv, LoopOK, Frames
  <1>4. Tracks(p, f)'
    BY <1>3, TracksKept
  <1>5. script'[u][1] = p /\ SamePlace(frame'[u], f)
    BY <1>1, <1>2
  <1> QED BY <1>4, <1>5 DEF Tracks, OutComplete, Neighbours, SamePlace

\* A step of t, of which only t's own part is still to be shown.
LEMMA OthersTrack ==
  ASSUME IInv, RInv, TInv, NEW t \in Task, Effect(t), Watch(t),
         script'[t] # <<>> /\ t \notin overtaken' => Tracks(script[t][1], frame[t])'
  PROVE  TInv'
  <1> SUFFICES ASSUME NEW u \in Task, script'[u] # <<>>, u \notin overtaken'
               PROVE  Tracks(script[u][1], frame[u])'
    BY DEF TInv
  <1>1. CASE u = t
    BY <1>1
  <1>2. CASE u # t
    <2>1. script'[u] = script[u] /\ frame'[u] = frame[u]
      BY <1>2 DEF Effect
    <2>2. u \notin overtaken /\ ~Clear(t)
      BY <1>2, <2>1, NotOvertaken
    <2>3. Ordered
      BY <2>2 DEF Effect
    <2> QED BY <2>1, <2>2, <2>3, PlaceKept DEF SamePlace
  <1> QED BY <1>1, <1>2

LEMMA FreshTracks ==
  ASSUME NEW t \in Task, frame'[t] = Fresh
  PROVE  Tracks(script[t][1], frame[t])'
  BY DEF Tracks, Fresh

LEMMA EndTracks ==
  ASSUME IInv, RInv, TInv, NEW t \in Task, Effect(t), Watch(t), Return(t) \/ Raise(t)
  PROVE  TInv'
  <1>1. frame'[t] = Fresh
    BY DEF Return, Raise, IInv, LoopOK
  <1> QED BY <1>1, FreshTracks, OthersTrack

\* The step of a coroutine that stays in its phase is no clear.
LEMMA StaysOrdered ==
  ASSUME IInv, NEW t \in Task, Effect(t), script[t] # <<>>, script'[t] = script[t]
  PROVE  Ordered
  <1> SUFFICES ASSUME Clear(t) PROVE FALSE
    BY DEF Effect
  <1>1. script[t] \in Seq(Phases) /\ script'[t] = Tail(script[t])
    BY DEF Clear, Return, IInv, LoopOK
  <1>2. Len(Tail(script[t])) = Len(script[t]) - 1 /\ Len(script[t]) \in Nat
    BY <1>1, TailParts
  <1>3. Len(script[t]) = Len(script[t]) - 1
    BY <1>1, <1>2
  <1> QED BY <1>2, <1>3

LEMMA ElsewhereTracks ==
  ASSUME IInv, RInv, TInv, NEW t \in Task, Effect(t), Watch(t),
         NEW f, Goes(t, f), Op(t) # "relations"
  PROVE  TInv'
  <1>1. Tracks(script[t][1], frame[t])'
    BY GoesFrame DEF Tracks, Op
  <1> QED BY <1>1, GoesFrame, OthersTrack

LEMMA SamePlaceTracks ==
  ASSUME IInv, RInv, TInv, NEW t \in Task, Effect(t), Watch(t), script[t] # <<>>,
         NEW f, Goes(t, f), SamePlace(f, frame[t])
  PROVE  TInv'
  <1>1. script'[t] = script[t] /\ frame'[t] = f
    BY GoesFrame
  <1>2. ASSUME t \notin overtaken' PROVE Tracks(script[t][1], frame[t])'
    BY <1>1, <1>2, StaysOrdered, NotOvertaken, PlaceKept
  <1> QED BY <1>2, OthersTrack

\* A coroutine that is not in get_all_relations_by_kind.
LEMMA OtherOps ==
  ASSUME IInv, RInv, TInv, NEW t \in Task, Effect(t), Watch(t), Op(t) # "relations",
         Return(t) \/ Raise(t) \/ \E f : Goes(t, f)
  PROVE  TInv'
  BY EndTracks, ElsewhereTracks

LEMMA ObtainTracks ==
  ASSUME IInv, RInv, TInv, NEW t \in Task, Effect(t), Watch(t),
         script[t] # <<>>, frame[t] \in Frames,
         NEW u, NEW f, SamePlace(f, frame[t]), Obtain(t, u, f)
  PROVE  TInv'
  <1>1. CASE Continue(t, f)
    BY <1>1, SamePlaceTracks DEF Goes
  <1>2. CASE Fetch(t, u)
    <2> DEFINE g == [frame[t] EXCEPT !.wait = "unit", !.need = u, !.from = cpg]
    <2>1. SamePlace(g, frame[t])
      BY DEF SamePlace, Frames
    <2>2. Goes(t, g)
      BY <1>2 DEF Fetch, Goes
    <2> HIDE DEF g
    <2> QED BY <2>1, <2>2, SamePlaceTracks
  <1>3. CASE Raise(t)
    BY <1>3, EndTracks
  <1> QED BY <1>1, <1>2, <1>3 DEF Obtain

LEMMA ElsewhereSteps ==
  ASSUME IInv, RInv, TInv, NEW t \in Task, Effect(t), Watch(t),
         \/ GetUnit(t) \/ FetchUnit(t) \/ GetAllUnitsByKind(t) \/ AddUnitsOfKind(t)
         \/ GetRelatedUnits(t) \/ AddUnitFact(t) \/ LoadFacts(t) \/ SyncBackend(t) \/ Reload(t)
  PROVE  TInv'
  <1>1. ASSUME NEW u, NEW f, Obtain(t, u, f)
        PROVE  Raise(t) \/ \E g : Goes(t, g)
    BY <1>1 DEF Obtain, Fetch, Goes
  <1>2. CASE FetchUnit(t) \/ GetAllUnitsByKind(t) \/ AddUnitsOfKind(t)
    BY <1>2, OtherOps DEF FetchUnit, GetAllUnitsByKind, AddUnitsOfKind, At, Goes
  <1>3. CASE SyncBackend(t) \/ Reload(t)
    BY <1>3, OtherOps DEF SyncBackend, Reload, StartIteration, At, Goes
  <1>4. CASE GetUnit(t)
    BY <1>1, <1>4, OtherOps DEF GetUnit, At
  <1>5. CASE GetRelatedUnits(t)
    <2>1. Op(t) \in {"out", "in"}
      BY <1>5 DEF GetRelatedUnits, At
    <2>2. Return(t) \/ Raise(t) \/ \E f : Goes(t, f)
      BY <1>1, <1>5 DEF GetRelatedUnits, Collect, Goes
    <2> QED BY <2>1, <2>2, OtherOps
  <1>6. CASE AddUnitFact(t)
    BY <1>1, <1>6, OtherOps DEF AddUnitFact, At
  <1>7. CASE LoadFacts(t)
    BY <1>1, <1>7, OtherOps DEF LoadFacts, At, Goes
  <1> QED BY <1>2, <1>3, <1>4, <1>5, <1>6, <1>7

LEMMA ArrivalTracks ==
  ASSUME IInv, RInv, TInv, NEW t \in Task, Effect(t), Watch(t), Arrival(t)
  PROVE  TInv'
  <1>1. running = NoTask /\ frame[t].wait # "none"
    BY DEF Arrival, UnitArrives, LocationArrives, AnswerArrives, TagStored, Reloaded,
           BackendFails, Answered
  <1>2. script[t] # <<>> /\ frame[t] \in Frames
    BY <1>1, AnsweredTask DEF IInv, MaySettle
  <1>3. CASE LocationArrives(t) \/ Reloaded(t) \/ BackendFails(t)
    BY <1>3, EndTracks DEF LocationArrives, Reloaded, BackendFails
  <1>4. CASE UnitArrives(t)
    <2> DEFINE f == [frame[t] EXCEPT !.wait = "none", !.need = NoUnit]
    <2>1. SamePlace(f, frame[t])
      BY <1>2 DEF SamePlace, Frames
    <2>2. Goes(t, f)
      BY <1>4 DEF UnitArrives, Goes
    <2> HIDE DEF f
    <2> QED BY <1>2, <2>1, <2>2, SamePlaceTracks
  <1>5. CASE AnswerArrives(t) \/ TagStored(t)
    <2> DEFINE f == [frame[t] EXCEPT !.wait = "none"]
    <2>1. SamePlace(f, frame[t])
      BY <1>2 DEF SamePlace, Frames
    <2>2. Goes(t, f)
      BY <1>5 DEF AnswerArrives, TagStored, Goes
    <2> HIDE DEF f
    <2> QED BY <1>2, <2>1, <2>2, SamePlaceTracks
  <1> QED BY <1>3, <1>4, <1>5 DEF Arrival

\* The iteration comes to the next node.
LEMMA NextNodeTracks ==
  ASSUME IInv, RInv, TInv, NEW t \in Task, Effect(t), Watch(t),
         script[t] # <<>>, frame[t] \in Frames,
         frame[t].pc = "iter", HasNext(t), UNCHANGED <<nodes, edges>>,
         NEW f, f.pc = "link", f.i = frame[t].i + 1, f.cur = NextNode(t), Goes(t, f)
  PROVE  TInv'
  <1>1. script'[t] = script[t] /\ frame'[t] = f
    BY GoesFrame
  <1>2. ASSUME t \notin overtaken' PROVE Tracks(script[t][1], frame[t])'
    <2> SUFFICES ASSUME script[t][1].op = "relations"
                 PROVE  /\ f.i <= Len(nodes) + 1
                        /\ \A j \in 1..Len(nodes) : j < f.i =>
                              OutComplete(nodes[j]) \/ nodes[j] = f.cur
      BY <1>1 DEF Tracks, OutComplete, Neighbours
    <2>1. /\ frame[t].i \in Nat /\ frame[t].i <= Len(nodes) /\ Len(nodes) \in Nat
          /\ f.cur = nodes[frame[t].i]
      BY LenProperties DEF HasNext, NextNode, Frames, IInv, GraphOK
    <2>2. t \notin overtaken
      BY <1>1, <1>2, NotOvertaken
    <2>3. \A j \in 1..Len(nodes) : j < frame[t].i => OutComplete(nodes[j])
      BY <2>2 DEF TInv, Tracks
    <2> QED BY <2>1, <2>3
  <1> QED BY <1>2, OthersTrack

LEMMA RelationsTrack ==
  ASSUME IInv, RInv, TInv, NEW t \in Task, Effect(t), Watch(t), GetAllRelationsByKind(t)
  PROVE  TInv' /\ (Tracked => Tracked')
  <1>1. running = t /\ UNCHANGED <<nodes, version, edges>> /\ Op(t) = "relations"
    BY DEF GetAllRelationsByKind, At, graph
  <1>2. frame[t] \in Frames /\ script[t] # <<>>
    BY <1>1, RunningTask DEF IInv, MaySettle
  <1>3. AllNodesTracked /\ relationKindLoaded => AllNodesTracked'
    BY <1>1 DEF AllNodesTracked, Present, InGraph
  <1>4. /\ <<"loaded", NoUnit, "out">> \in Entries <=> relationKindLoaded
        /\ <<"loaded", NoUnit, "out">> \in Entries' <=> relationKindLoaded'
    BY EntriesAre, EntriesAreNext DEF Effect
  <1>5. ASSUME relationKindLoaded' = relationKindLoaded, Tracked PROVE Tracked'
    <2>1. CASE ~relationKindLoaded
      BY <1>5, <2>1 DEF Tracked, AllNodesTracked
    <2>2. CASE relationKindLoaded
      <3>1. <<"loaded", NoUnit, "out">> \in late => <<"loaded", NoUnit, "out">> \in late'
        BY <1>4, <1>5, <2>2, StillLate
      <3> QED BY <1>3, <1>5, <2>2, <3>1 DEF Tracked
    <2> QED BY <2>1, <2>2
  <1>6. CASE At(t, "relations", "start") /\ UNCHANGED relationKindLoaded
                /\ (Collect(t) \/ StartIteration(t))
    <2>1. CASE Collect(t)
      BY <1>6, <1>5, <2>1, EndTracks DEF Collect
    <2>2. CASE StartIteration(t)
      <3> DEFINE f == [frame[t] EXCEPT !.pc = "iter", !.size = Len(nodes)]
      <3>1. f.i = frame[t].i /\ f.pc = "iter"
        BY <1>2 DEF Frames
      <3>2. Goes(t, f)
        BY <2>2 DEF StartIteration, Goes
      <3> HIDE DEF f
      <3>3. script'[t] = script[t] /\ frame'[t] = f /\ Len(nodes) \in Nat
        BY <3>2, GoesFrame, LenProperties DEF IInv, GraphOK
      <3>4. ASSUME t \notin overtaken' PROVE Tracks(script[t][1], frame[t])'
        <4>1. t \notin overtaken
          BY <1>2, <3>3, <3>4, NotOvertaken
        <4>2. f.i = 1
          BY <1>1, <1>2, <1>6, <3>1, <4>1 DEF TInv, Tracks, Op, At
        <4> QED BY <1>1, <3>1, <3>3, <4>2 DEF Tracks
      <3>5. TInv'
        BY <3>4, OthersTrack
      <3> QED BY <1>5, <1>6, <3>5
    <2> QED BY <1>6, <2>1, <2>2
  <1>7. ASSUME At(t, "relations", "iter"), HasNext(t), UNCHANGED relationKindLoaded,
               Await(t, [frame[t] EXCEPT !.pc = "link", !.wait = "relations",
                                         !.cur = NextNode(t), !.i = @ + 1,
                                         !.left = Neighbours(NextNode(t), "out")])
        PROVE  TInv' /\ (Tracked => Tracked')
    <2> DEFINE f == [frame[t] EXCEPT !.pc = "link", !.wait = "relations",
                                     !.cur = NextNode(t), !.i = @ + 1,
                                     !.left = Neighbours(NextNode(t), "out")]
    <2>1. f.pc = "link" /\ f.i = frame[t].i + 1 /\ f.cur = NextNode(t)
      BY <1>2 DEF Frames
    <2>2. Goes(t, f)
      BY <1>7 DEF Goes
    <2> HIDE DEF f
    <2>3. TInv'
      BY <1>1, <1>2, <1>7, <2>1, <2>2, NextNodeTracks DEF At
    <2> QED BY <1>5, <1>7, <2>3
  <1>8. CASE Raise(t) /\ UNCHANGED relationKindLoaded
    BY <1>5, <1>8, EndTracks
  <1>9. CASE /\ At(t, "relations", "iter") /\ NoNodeLeft(t) /\ Collect(t)
             /\ relationKindLoaded' = TRUE
    <2>1. TInv'
      BY <1>9, EndTracks DEF Collect
    <2>2. ASSUME t \notin overtaken PROVE AllNodesTracked'
      <3> SUFFICES ASSUME NEW e \in Related, InGraph(e[1])
                   PROVE  e \in edges
        BY <1>1 DEF AllNodesTracked, Present, InGraph
      <3>1. PICK j \in 1..Len(nodes) : nodes[j] = e[1]
        BY DEF InGraph
      <3>2. /\ frame[t].i > Len(nodes) /\ frame[t].i \in Nat /\ Len(nodes) \in Nat
            /\ frame[t].pc = "iter"
        BY <1>2, <1>9, LenProperties DEF NoNodeLeft, At, Frames, IInv, GraphOK
      <3>3. j < frame[t].i => OutComplete(nodes[j])
        BY <1>1, <1>2, <2>2, <3>2 DEF TInv, Tracks, Op
      <3>4. OutComplete(e[1])
        BY <3>1, <3>2, <3>3
      <3>5. e = <<e[1], e[2]>> /\ e[2] \in Unit
        BY UnitAssumption
      <3> QED BY <3>4, <3>5 DEF OutComplete, Neighbours
    <2>3. ASSUME t \in overtaken, Tracked PROVE Tracked'
      <3>1. CASE relationKindLoaded
        <4>1. <<"loaded", NoUnit, "out">> \in late => <<"loaded", NoUnit, "out">> \in late'
          BY <1>4, <1>9, <3>1, StillLate
        <4> QED BY <1>3, <2>3, <3>1, <4>1 DEF Tracked
      <3>2. CASE ~relationKindLoaded /\ relationKindLoaded'
        BY <1>4, <2>3, <3>2, StillLate DEF Tracked
      <3>3. CASE ~relationKindLoaded'
        BY <3>3 DEF Tracked, AllNodesTracked
      <3> QED BY <3>1, <3>2, <3>3
    <2> QED BY <2>1, <2>2, <2>3 DEF Tracked
  <1> QED BY <1>6, <1>7, <1>8, <1>9 DEF GetAllRelationsByKind

\* All neighbours of the node are linked: the iteration has passed it.
LEMMA PassTracks ==
  ASSUME IInv, RInv, TInv, NEW t \in Task, Effect(t), Watch(t),
         script[t] # <<>>, frame[t] \in Frames,
         Op(t) = "relations", frame[t].pc = "link", frame[t].pos = 0, frame[t].left = {},
         UNCHANGED <<nodes, edges>>,
         NEW f, f.pc = "iter", f.i = frame[t].i, Goes(t, f)
  PROVE  TInv'
  <1>1. script'[t] = script[t] /\ frame'[t] = f
    BY GoesFrame
  <1>2. ASSUME t \notin overtaken' PROVE Tracks(script[t][1], frame[t])'
    <2>1. t \notin overtaken
      BY <1>1, <1>2, NotOvertaken
    <2>2. OutComplete(frame[t].cur)
      <3>1. Linking(script[t][1], frame[t])
        BY <2>1 DEF RInv, Local, Timely
      <3> QED BY <3>1 DEF Linking, EdgeOf, OutComplete, Neighbours, Op
    <2>3. /\ f.i <= Len(nodes) + 1
          /\ \A j \in 1..Len(nodes) : j < f.i => OutComplete(nodes[j])
      BY <2>1, <2>2 DEF TInv, Tracks, Op
    <2> QED BY <1>1, <2>3 DEF Tracks, OutComplete, Neighbours
  <1> QED BY <1>2, OthersTrack

LEMMA LinkTracks ==
  ASSUME IInv, RInv, TInv, NEW t \in Task, Effect(t), Watch(t), Link(t)
  PROVE  TInv'
  <1>1. running = t /\ frame[t].pc = "link"
    BY DEF Link, At
  <1>2. frame[t] \in Frames /\ script[t] # <<>>
    BY <1>1, RunningTask DEF IInv, MaySettle
  <1>3. ASSUME NEW u, Continue(t, [frame[t] EXCEPT !.tgt = u, !.left = @ \ {u}, !.pos = 1])
        PROVE  TInv'
    <2> DEFINE f == [frame[t] EXCEPT !.tgt = u, !.left = @ \ {u}, !.pos = 1]
    <2>1. SamePlace(f, frame[t])
      BY <1>2 DEF SamePlace, Frames
    <2>2. Goes(t, f)
      BY <1>3 DEF Goes
    <2> HIDE DEF f
    <2> QED BY <1>2, <2>1, <2>2, SamePlaceTracks
  <1>4. ASSUME Obtain(t, LookedUp(t), [frame[t] EXCEPT !.pos = @ + 1])
        PROVE  TInv'
    <2> DEFINE f == [frame[t] EXCEPT !.pos = @ + 1]
    <2>1. SamePlace(f, frame[t])
      BY <1>2 DEF SamePlace, Frames
    <2>2. Obtain(t, LookedUp(t), f)
      BY <1>4
    <2> HIDE DEF f
    <2> QED BY <1>2, <2>1, <2>2, ObtainTracks
  <1>5. ASSUME Continue(t, [frame[t] EXCEPT !.pos = 0])
        PROVE  TInv'
    <2> DEFINE f == [frame[t] EXCEPT !.pos = 0]
    <2>1. SamePlace(f, frame[t])
      BY <1>2 DEF SamePlace, Frames
    <2>2. Goes(t, f)
      BY <1>5 DEF Goes
    <2> HIDE DEF f
    <2> QED BY <1>2, <2>1, <2>2, SamePlaceTracks
  <1>6. ASSUME frame[t].pos = 0, frame[t].left = {}, Op(t) = "relations",
               Continue(t, [frame[t] EXCEPT !.pc = "iter"]), UNCHANGED graph
        PROVE  TInv'
    <2> DEFINE f == [frame[t] EXCEPT !.pc = "iter"]
    <2>1. f.pc = "iter" /\ f.i = frame[t].i
      BY <1>2 DEF Frames
    <2>2. Goes(t, f)
      BY <1>6 DEF Goes
    <2> HIDE DEF f
    <2>3. UNCHANGED <<nodes, edges>>
      BY <1>6 DEF graph
    <2> QED BY <1>1, <1>2, <1>6, <2>1, <2>2, <2>3, PassTracks
  <1>7. CASE Collect(t)
    BY <1>7, EndTracks DEF Collect
  <1> QED BY <1>3, <1>4, <1>5, <1>6, <1>7 DEF Link

LEMMA ClearTracks ==
  ASSUME IInv, RInv, TInv, NEW t \in Task, Effect(t), Watch(t), Clear(t)
  PROVE  TInv' /\ Tracked'
  <1>1. Return(t) /\ relationKindLoaded' = FALSE
    BY DEF Clear, ClearLoaded
  <1> QED BY <1>1, EndTracks DEF Tracked, AllNodesTracked

LEMMA RequestTracks ==
  ASSUME IInv, RInv, TInv, NEW t \in Task, Effect(t), Watch(t), HandleRequest(t)
  PROVE  TInv'
  <1>1. frame'[t] = Fresh
    BY DEF HandleRequest, IInv, LoopOK
  <1> QED BY <1>1, FreshTracks, OthersTrack

LEMMA NextTracks ==
  ASSUME IInv, RInv, TInv, HNext
  PROVE  TInv' /\ (Tracked => Tracked' \/ JoinsLate)
  <1>1. PICK t \in Task : (HandleRequest(t) \/ Step(t) \/ Arrival(t)) /\ Watch(t)
    BY DEF HNext
  <1>2. Effect(t) /\ IInv'
    BY <1>1, StepEffect DEF Effect
  <1>3. CASE Clear(t)
    BY <1>1, <1>2, <1>3, ClearTracks
  <1>4. CASE GetAllRelationsByKind(t)
    BY <1>1, <1>2, <1>4, RelationsTrack
  <1>5. CASE ~Clear(t) /\ ~GetAllRelationsByKind(t)
    <2>1. Ordered /\ UNCHANGED relationKindLoaded
      BY <1>1, <1>5, StepOrdered
    <2>2. TInv'
      BY <1>1, <1>2, <1>5, RequestTracks, ElsewhereSteps, LinkTracks, ArrivalTracks DEF Step
    <2> QED BY <1>1, <1>2, <2>1, <2>2, TrackedStays
  <1> QED BY <1>3, <1>4, <1>5

LEMMA TrackInvariance == HSpec => []TInv
  <1>1. HInit => TInv
    BY DEF HInit, Init, TInv
  <1>2. ASSUME TInv, UNCHANGED hvars PROVE TInv'
    <2>1. UNCHANGED <<nodes, edges, script, frame, overtaken>>
      BY <1>2 DEF hvars, vars, graph, loop, history
    <2> QED BY <1>2, <2>1 DEF TInv, Tracks, OutComplete, Neighbours
  <1>3. IInv /\ RInv /\ TInv /\ [HNext]_hvars => TInv'
    BY <1>2, NextTracks
  <1> QED BY <1>1, <1>3, OnlyWatched, Invariance, OverlapInvariance, PTL DEF HSpec

\* The exact extent of what the run of AllNodesTracked shows: get_all_relations_by_kind
\* marks the kind as loaded only when every edge of every node is there, whatever was
\* added while it awaited, unless another handler cleared the view under it; and only
\* a unit that joins the graph later makes the mark untrue.
THEOREM TrackedUnlessJoined ==
  HSpec /\ [][~JoinsLate]_hvars =>
      [](<<"loaded", NoUnit, "out">> \notin late => AllNodesTracked)
  <1>1. HInit => Tracked
    BY DEF HInit, Init, Tracked, AllNodesTracked
  <1>2. ASSUME Tracked, UNCHANGED hvars PROVE Tracked'
    <2>1. UNCHANGED <<nodes, version, edges, relationKindLoaded, late>>
      BY <1>2 DEF hvars, vars, graph, loaded, history
    <2> QED BY <1>2, <2>1 DEF Tracked, AllNodesTracked, Present, InGraph
  <1>3. IInv /\ RInv /\ TInv /\ Tracked /\ [HNext]_hvars /\ [~JoinsLate]_hvars => Tracked'
    BY <1>2, NextTracks
  <1>4. Tracked <=> (<<"loaded", NoUnit, "out">> \notin late => AllNodesTracked)
    BY DEF Tracked
  <1> QED BY <1>1, <1>3, <1>4, OnlyWatched, Invariance, OverlapInvariance, TrackInvariance, PTL
          DEF HSpec
=============================================================================
