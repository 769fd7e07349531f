---------------------------- MODULE IRViewProofs ----------------------------
(***************************************************************************)
(* The safety of the in-memory code graph, for any number of handlers, any *)
(* units, kinds and relations, and any mix of requests.                    *)
(*                                                                         *)
(* The invariant has one part per group of variables, and KindProgress,    *)
(* the only part that ties a coroutine's locals to the graph: it holds     *)
(* because get_all_units_by_kind adds its units without an await.          *)
(* Last, which steps alone may lose a fact.                                *)
(***************************************************************************)
EXTENDS IRView, SequenceTheorems, TLAPS

-----------------------------------------------------------------------------
(* The inductive invariant. *)

Phases ==
    [op : {"unit", "location", "fact", "out", "in"}, arg : Unit]
        \cup [op : {"kind"}, arg : Kind]
        \cup [op : {"relations", "load_facts", "sync", "reload"}, arg : {NoUnit}]
        \cup [op : {"clear"}, arg : {"dropped", "synced"}]

Frames == [
    pc : {"start", "adding", "link", "iter", "append", "store"},
    wait : {"none", "unit", "location", "kind", "relations", "tags", "store", "reload"},
    need : Unit \cup {NoUnit}, from : Nat,
    cur : Unit \cup {NoUnit}, tgt : Unit \cup {NoUnit},
    pos : 0..4, left : SUBSET Unit, i : Nat \ {0}, size : Nat, n : Nat]

UnitsOf(k) == {u \in Real : kindOf[u] = k}

\* What the locals f of a coroutine mean while it does phase p.
LocalsOK(p, f) ==
    /\ f.wait = "unit" => f.need \in Unit
    /\ f.wait \in {"unit", "location", "kind"} => f.from # 0
    /\ f.wait = "location" => p.op = "location"
    /\ f.pc = "adding" => /\ p.op = "kind" /\ f.wait \in {"kind", "none"} /\ f.from # 0
                          /\ f.wait = "kind" => f.left = UnitsOf(p.arg)
    /\ f.pc # "link" => f.pos = 0
    /\ f.pc \in {"append", "store"} => f.cur \in Unit
    /\ f.pc = "link" => /\ p.op \in {"out", "in", "relations"}
                        /\ f.cur \in Unit
                        /\ f.left \subseteq Neighbours(f.cur, p.op)
                        /\ f.pos # 0 => f.tgt \in Neighbours(f.cur, p.op)

\* One coroutine at a time holds the loop; every other one awaits an answer.
LoopOK ==
    /\ running \in Task \cup {NoTask}
    /\ script \in [Task -> Seq(Phases)]
    /\ frame \in [Task -> Frames]
    /\ reply \in [Task -> {"none", "ok", "fail"}]
    /\ \A t \in Task :
        /\ script[t] = <<>> => frame[t] = Fresh
        /\ script[t] # <<>> => LocalsOK(script[t][1], frame[t])
        /\ running = t <=> script[t] # <<>> /\ frame[t].wait = "none"

GraphOK ==
    /\ nodes \in Seq(Unit)
    /\ version \in [Unit -> Nat]
    /\ facts \in [Unit -> Nat]
    /\ index \in [Kind -> SUBSET Unit]
    /\ edges \subseteq Unit \X Unit
    /\ IndexMatchesGraph
    /\ EdgesSound

LoadedOK ==
    /\ loadedUnits \subseteq Unit
    /\ loadedKinds \subseteq Kind
    /\ loadedRelations \subseteq Unit \X {"out", "in"}
    /\ relationKindLoaded \in BOOLEAN
    /\ LoadedUnitsPresent

CountersOK ==
    /\ cpg \in Nat \ {0}
    /\ tags \in [Unit -> Nat]
    /\ requests \in 0..MaxRequests

\* While units of a kind are being added nobody else runs, so those that are no
\* longer to be added are in the graph.
KindProgress ==
    \A t \in Task : running = t /\ frame[t].pc = "adding" =>
        \A u \in UnitsOf(Arg(t)) : u \in frame[t].left \/ Present(u)

IInv == LoopOK /\ GraphOK /\ LoadedOK /\ CountersOK /\ KindProgress

-----------------------------------------------------------------------------
(* The event loop: each way of handing the loop on keeps LoopOK, whatever the *)
(* step does to the graph.                                                     *)

\* The task t may step: it holds the loop, or nobody does and it has a request.
MaySettle(t) == running \in {t, NoTask} /\ script[t] # <<>>

LEMMA FreshOK == Fresh \in Frames /\ \A p : LocalsOK(p, Fresh)
  BY DEF Fresh, Frames, LocalsOK

LEMMA AwaitLoop ==
  ASSUME LoopOK, NEW t \in Task, running = t, NEW f \in Frames,
         f.wait # "none", LocalsOK(script[t][1], f), Await(t, f)
  PROVE  LoopOK' /\ KindProgress'
  <1>1. /\ running' = NoTask /\ script' = script /\ reply' = reply
        /\ frame' = [frame EXCEPT ![t] = f] /\ script[t] # <<>>
    BY DEF Await, LoopOK
  <1>2. KindProgress'
    BY <1>1, UnitAssumption DEF KindProgress
  <1>3. /\ frame' \in [Task -> Frames]
        /\ \A u \in Task : u # t => frame'[u] = frame[u]
        /\ frame'[t] = f
    BY <1>1 DEF LoopOK
  <1>4. ASSUME NEW u \in Task
        PROVE  /\ script'[u] = <<>> => frame'[u] = Fresh
               /\ script'[u] # <<>> => LocalsOK(script'[u][1], frame'[u])
               /\ running' = u <=> script'[u] # <<>> /\ frame'[u].wait = "none"
    BY <1>1, <1>3, UnitAssumption DEF LoopOK
  <1> QED BY <1>1, <1>2, <1>3, <1>4 DEF LoopOK, LocalsOK, Neighbours, UnitsOf

LEMMA ContinueLoop ==
  ASSUME LoopOK, NEW t \in Task, MaySettle(t), NEW f \in Frames,
         f.wait = "none", LocalsOK(script[t][1], f), Continue(t, f)
  PROVE  LoopOK' /\ (f.pc # "adding" => KindProgress')
  <1>1. /\ running' = t /\ script' = script /\ reply' = reply
        /\ frame' = [frame EXCEPT ![t] = f] /\ script[t] # <<>>
    BY DEF Continue, MaySettle
  <1>2. /\ frame' \in [Task -> Frames]
        /\ \A u \in Task : u # t => frame'[u] = frame[u]
        /\ frame'[t] = f
    BY <1>1 DEF LoopOK
  <1>3. f.pc # "adding" => KindProgress'
    BY <1>1, <1>2 DEF KindProgress
  <1>4. ASSUME NEW u \in Task
        PROVE  /\ script'[u] = <<>> => frame'[u] = Fresh
               /\ script'[u] # <<>> => LocalsOK(script'[u][1], frame'[u])
               /\ running' = u <=> script'[u] # <<>> /\ frame'[u].wait = "none"
    BY <1>1, <1>2, UnitAssumption DEF LoopOK, MaySettle
  <1> QED BY <1>1, <1>2, <1>3, <1>4 DEF LoopOK, LocalsOK, Neighbours, UnitsOf

LEMMA TailOK ==
  ASSUME NEW S, NEW s \in Seq(S), s # <<>>
  PROVE  Tail(s) \in Seq(S) /\ (Len(s) = 1 <=> Tail(s) = <<>>)
  <1>1. Tail(s) \in Seq(S) /\ Len(Tail(s)) = Len(s) - 1 /\ Len(s) \in Nat
    BY HeadTailProperties, LenProperties
  <1>2. Tail(s) = <<>> <=> Len(Tail(s)) = 0
    BY <1>1, EmptySeq
  <1> QED BY <1>1, <1>2

LEMMA ReturnLoop ==
  ASSUME LoopOK, NEW t \in Task, MaySettle(t), Return(t)
  PROVE  LoopOK' /\ KindProgress'
  <1>1. /\ script' = [script EXCEPT ![t] = Tail(script[t])]
        /\ frame' = [frame EXCEPT ![t] = Fresh]
        /\ Tail(script[t]) \in Seq(Phases)
        /\ Len(script[t]) = 1 <=> Tail(script[t]) = <<>>
        /\ running' = IF Len(script[t]) = 1 THEN NoTask ELSE t
        /\ reply' \in [Task -> {"none", "ok", "fail"}]
    BY TailOK DEF Return, LoopOK, MaySettle
  <1>2. /\ frame' \in [Task -> Frames]
        /\ script' \in [Task -> Seq(Phases)]
        /\ \A u \in Task : u # t => frame'[u] = frame[u] /\ script'[u] = script[u]
        /\ frame'[t] = Fresh /\ script'[t] = Tail(script[t])
    BY <1>1, FreshOK DEF LoopOK
  <1>3. KindProgress'
    BY <1>1, <1>2, UnitAssumption DEF KindProgress, Fresh
  <1>4. ASSUME NEW u \in Task
        PROVE  /\ script'[u] = <<>> => frame'[u] = Fresh
               /\ script'[u] # <<>> => LocalsOK(script'[u][1], frame'[u])
               /\ running' = u <=> script'[u] # <<>> /\ frame'[u].wait = "none"
    <2>1. CASE u = t
      BY <2>1, <1>1, <1>2, FreshOK, UnitAssumption DEF Fresh
    <2>2. CASE u # t
      BY <2>2, <1>1, <1>2, UnitAssumption DEF LoopOK, MaySettle
    <2> QED BY <2>1, <2>2
  <1> QED BY <1>1, <1>2, <1>3, <1>4, UnitAssumption DEF LoopOK, LocalsOK, Neighbours, UnitsOf

LEMMA RaiseLoop ==
  ASSUME LoopOK, NEW t \in Task, MaySettle(t), Raise(t)
  PROVE  LoopOK' /\ KindProgress'
  <1>1. /\ script' = [script EXCEPT ![t] = <<>>]
        /\ frame' = [frame EXCEPT ![t] = Fresh]
        /\ running' = NoTask
        /\ reply' \in [Task -> {"none", "ok", "fail"}]
    BY DEF Raise, LoopOK
  <1>2. /\ frame' \in [Task -> Frames]
        /\ script' \in [Task -> Seq(Phases)]
        /\ \A u \in Task : u # t => frame'[u] = frame[u] /\ script'[u] = script[u]
        /\ frame'[t] = Fresh /\ script'[t] = <<>>
    BY <1>1, FreshOK DEF LoopOK
  <1>3. KindProgress'
    BY <1>1, UnitAssumption DEF KindProgress
  <1>4. ASSUME NEW u \in Task
        PROVE  /\ script'[u] = <<>> => frame'[u] = Fresh
               /\ script'[u] # <<>> => LocalsOK(script'[u][1], frame'[u])
               /\ running' = u <=> script'[u] # <<>> /\ frame'[u].wait = "none"
    BY <1>1, <1>2, UnitAssumption DEF LoopOK, MaySettle
  <1> QED BY <1>1, <1>2, <1>3, <1>4, UnitAssumption DEF LoopOK, LocalsOK, Neighbours, UnitsOf

-----------------------------------------------------------------------------
(* The graph: each change of it keeps GraphOK, and none but Clear takes a     *)
(* unit away.                                                                  *)

PresentKept == \A u \in Unit : Present(u) => Present(u)'

LEMMA SameGraph ==
  ASSUME GraphOK, UNCHANGED graph
  PROVE  GraphOK' /\ PresentKept
  BY DEF GraphOK, graph, PresentKept, Present, InGraph, IndexMatchesGraph, EdgesSound

LEMMA InGraphAppend ==
  ASSUME nodes \in Seq(Unit), NEW u \in Unit, nodes' = Append(nodes, u)
  PROVE  /\ nodes' \in Seq(Unit)
         /\ \A w : InGraph(w)' <=> InGraph(w) \/ w = u
  <1>1. /\ nodes' \in Seq(Unit)
        /\ Len(nodes) \in Nat
        /\ Len(nodes') = Len(nodes) + 1
        /\ \A i \in 1..Len(nodes) : nodes'[i] = nodes[i]
        /\ nodes'[Len(nodes) + 1] = u
    BY AppendProperties, LenProperties
  <1>2. ASSUME NEW w PROVE InGraph(w)' <=> InGraph(w) \/ w = u
    BY <1>1 DEF InGraph
  <1> QED BY <1>1, <1>2

LEMMA AddUnitGraph ==
  ASSUME GraphOK, NEW u \in Unit, NEW v \in Nat \ {0}, AddUnit(u, v)
  PROVE  GraphOK' /\ PresentKept /\ Present(u)'
  <1>1. /\ version' = [version EXCEPT ![u] = v]
        /\ facts' = [facts EXCEPT ![u] = 0]
        /\ index' = [index EXCEPT ![kindOf[u]] = index[kindOf[u]] \cup {u}]
        /\ edges' = edges
    BY DEF AddUnit
  <1>2. /\ nodes' \in Seq(Unit)
        /\ \A w \in Unit : InGraph(w)' <=> InGraph(w) \/ w = u
    BY InGraphAppend DEF AddUnit, GraphOK, InGraph
  <1>3. kindOf[u] \in Kind
    BY UnitAssumption
  <1>4. /\ version' \in [Unit -> Nat]
        /\ facts' \in [Unit -> Nat]
        /\ index' \in [Kind -> SUBSET Unit]
        /\ \A w \in Unit : version'[w] = IF w = u THEN v ELSE version[w]
        /\ \A k \in Kind : index'[k] = IF k = kindOf[u] THEN index[k] \cup {u} ELSE index[k]
    BY <1>1, <1>3 DEF GraphOK
  <1>5. IndexMatchesGraph'
    <2>1. ASSUME NEW w \in Unit PROVE version'[w] # 0 => InGraph(w)'
      BY <1>2, <1>4 DEF GraphOK, IndexMatchesGraph
    <2>2. ASSUME NEW w \in Unit, NEW k \in Kind
          PROVE  w \in index'[k] <=> version'[w] # 0 /\ k = kindOf[w]
      <3>1. w \in index[k] <=> version[w] # 0 /\ k = kindOf[w]
        BY DEF GraphOK, IndexMatchesGraph
      <3> QED BY <1>4, <3>1
    <2> QED BY <2>1, <2>2 DEF IndexMatchesGraph
  <1>6. PresentKept /\ Present(u)'
    BY <1>2, <1>4 DEF PresentKept, Present
  <1> QED BY <1>1, <1>2, <1>4, <1>5, <1>6 DEF GraphOK, EdgesSound

\* What AddEdge makes of the nodes for one end of the edge.
LEMMA AppendedNode ==
  ASSUME NEW seq \in Seq(Unit), NEW u \in Unit, NEW more, more \in {seq, Append(seq, u)}
  PROVE  /\ more \in Seq(Unit)
         /\ \A w : (\E i \in 1..Len(seq) : seq[i] = w) => \E i \in 1..Len(more) : more[i] = w
  <1>1. /\ Append(seq, u) \in Seq(Unit)
        /\ Len(seq) \in Nat
        /\ Len(Append(seq, u)) = Len(seq) + 1
        /\ \A i \in 1..Len(seq) : Append(seq, u)[i] = seq[i]
    BY AppendProperties, LenProperties
  <1>2. CASE more = seq
    BY <1>2
  <1>3. CASE more = Append(seq, u)
    <2>1. \A i \in 1..Len(seq) : i \in 1..Len(more) /\ more[i] = seq[i]
      BY <1>1, <1>3
    <2> QED BY <1>1, <1>3, <2>1
  <1> QED BY <1>2, <1>3

LEMMA AddEdgeGraph ==
  ASSUME GraphOK, NEW s, NEW d, <<s, d>> \in Related, AddEdge(s, d)
  PROVE  GraphOK' /\ PresentKept
  <1> DEFINE with(seq, u) ==
               IF \E i \in 1..Len(seq) : seq[i] = u THEN seq ELSE Append(seq, u)
  <1>1. s \in Unit /\ d \in Unit
    BY UnitAssumption
  <1>2. /\ nodes' = with(with(nodes, s), d)
        /\ edges' = edges \cup {<<s, d>>}
        /\ UNCHANGED <<version, facts, index>>
    BY DEF AddEdge
  <1>3. nodes' \in Seq(Unit) /\ \A w : InGraph(w) => InGraph(w)'
    <2>1. PICK one : one = with(nodes, s)
      OBVIOUS
    <2>2. nodes \in Seq(Unit) /\ one \in {nodes, Append(nodes, s)}
      BY <2>1 DEF GraphOK
    <2>3. /\ one \in Seq(Unit)
          /\ \A w : (\E i \in 1..Len(nodes) : nodes[i] = w) => \E i \in 1..Len(one) : one[i] = w
      BY <1>1, <2>2, AppendedNode
    <2>4. PICK two : two = with(one, d)
      OBVIOUS
    <2>5. two \in {one, Append(one, d)} /\ nodes' = two
      BY <1>2, <2>1, <2>4
    <2> HIDE DEF with
    <2>6. /\ two \in Seq(Unit)
          /\ \A w : (\E i \in 1..Len(one) : one[i] = w) => \E i \in 1..Len(two) : two[i] = w
      BY <1>1, <2>3, <2>5, AppendedNode
    <2>7. ASSUME NEW w, InGraph(w)  PROVE InGraph(w)'
      <3>1. \E i \in 1..Len(two) : two[i] = w
        BY <2>3, <2>6, <2>7 DEF InGraph
      <3> QED BY <2>5, <3>1 DEF InGraph
    <2> QED BY <2>5, <2>6, <2>7
  <1>4. IndexMatchesGraph' /\ PresentKept
    BY <1>2, <1>3 DEF GraphOK, IndexMatchesGraph, PresentKept, Present
  <1> HIDE DEF with
  <1>5. edges' \subseteq Related /\ Related \subseteq Unit \X Unit
    <2>1. edges \subseteq Related /\ <<s, d>> \in Related
      BY DEF GraphOK, EdgesSound
    <2>2. Real \subseteq Unit /\ Related \subseteq Real \X Real
      BY UnitAssumption
    <2>3. Related \subseteq Unit \X Unit
      BY <2>2
    <2> QED BY <1>2, <2>1, <2>3
  <1> QED BY <1>2, <1>3, <1>4, <1>5 DEF GraphOK, EdgesSound

LEMMA AppendFactGraph ==
  ASSUME GraphOK, NEW u \in Unit, AppendFact(u)
  PROVE  GraphOK' /\ PresentKept
  <1>1. /\ facts' = [facts EXCEPT ![u] = facts[u] + 1]
        /\ UNCHANGED <<nodes, version, index, edges>>
    BY DEF AppendFact
  <1>2. facts' \in [Unit -> Nat]
    BY <1>1 DEF GraphOK
  <1> QED BY <1>1, <1>2
          DEF GraphOK, IndexMatchesGraph, EdgesSound, InGraph, PresentKept, Present

LEMMA SameLoaded ==
  ASSUME LoadedOK, UNCHANGED loaded, PresentKept
  PROVE  LoadedOK'
  BY UnitAssumption DEF LoadedOK, loaded, PresentKept, LoadedUnitsPresent

LEMMA SameCounters ==
  ASSUME CountersOK, UNCHANGED <<backend, requests>>
  PROVE  CountersOK'
  BY DEF CountersOK, backend

-----------------------------------------------------------------------------
(* What a step may rely on. *)

LEMMA PhaseArg ==
  ASSUME NEW p \in Phases
  PROVE  /\ p.op \in {"unit", "location", "fact", "out", "in"} => p.arg \in Unit
         /\ p.op = "kind" => p.arg \in Kind
  BY DEF Phases

LEMMA RunningTask ==
  ASSUME LoopOK, NEW t \in Task, running = t
  PROVE  /\ MaySettle(t)
         /\ script[t][1] \in Phases
         /\ frame[t] \in Frames
         /\ frame[t].wait = "none"
         /\ LocalsOK(script[t][1], frame[t])
  <1>1. script[t] # <<>> /\ script[t] \in Seq(Phases)
    BY DEF LoopOK
  <1>2. script[t][1] \in Phases
    BY <1>1, EmptySeq, ElementOfSeq, LenProperties
  <1> QED BY <1>1, <1>2 DEF LoopOK, MaySettle

LEMMA AnsweredTask ==
  ASSUME LoopOK, NEW t \in Task, running = NoTask, frame[t].wait # "none"
  PROVE  /\ MaySettle(t)
         /\ script[t][1] \in Phases
         /\ frame[t] \in Frames
         /\ LocalsOK(script[t][1], frame[t])
  <1>1. script[t] # <<>> /\ script[t] \in Seq(Phases)
    BY DEF LoopOK, Fresh
  <1>2. script[t][1] \in Phases
    BY <1>1, EmptySeq, ElementOfSeq, LenProperties
  <1> QED BY <1>1, <1>2 DEF LoopOK, MaySettle

\* A step that leaves the view and the backend alone.
LEMMA QuietStep ==
  ASSUME IInv, LoopOK', KindProgress', UNCHANGED <<graph, loaded, backend, requests>>
  PROVE  IInv'
  BY SameGraph, SameLoaded, SameCounters DEF IInv

LEMMA ObtainStep ==
  ASSUME IInv, NEW t \in Task, running = t, NEW u \in Unit, NEW f \in Frames,
         frame[t].pc # "adding", f.pc # "adding", f.wait = "none",
         LocalsOK(script[t][1], f), Obtain(t, u, f), UNCHANGED <<backend, requests>>
  PROVE  IInv'
  <1>1. LoopOK /\ MaySettle(t) /\ frame[t] \in Frames /\ LocalsOK(script[t][1], frame[t])
    BY RunningTask DEF IInv
  <1>2. CASE Present(u) /\ Continue(t, f) /\ UNCHANGED <<graph, loaded>>
    BY <1>1, <1>2, ContinueLoop, QuietStep
  <1>3. CASE MustFetch(u) /\ Fetch(t, u)
    <2> DEFINE g == [frame[t] EXCEPT !.wait = "unit", !.need = u, !.from = cpg]
    <2>1. g \in Frames /\ g.wait = "unit" /\ g.need = u /\ g.from = cpg
      BY <1>1 DEF Frames, IInv, CountersOK
    <2>4. /\ g.pc = frame[t].pc /\ g.cur = frame[t].cur /\ g.left = frame[t].left
         /\ g.pos = frame[t].pos /\ g.tgt = frame[t].tgt
      BY <1>1 DEF Frames
    <2>3. LocalsOK(script[t][1], g)
      <3> HIDE DEF g
      <3> QED BY <1>1, <2>1, <2>4 DEF LocalsOK, IInv, CountersOK
    <2>2. Await(t, g) /\ UNCHANGED <<graph, loaded>>
      BY <1>3 DEF Fetch
    <2> HIDE DEF g
    <2> QED BY <1>1, <2>1, <2>2, <2>3, AwaitLoop, QuietStep
  <1>4. CASE Unobtainable(u) /\ Raise(t) /\ UNCHANGED <<graph, loaded>>
    BY <1>1, <1>4, RaiseLoop, QuietStep
  <1> QED BY <1>2, <1>3, <1>4 DEF Obtain

-----------------------------------------------------------------------------
(* One lemma per action. *)

LEMMA GetUnitStep ==
  ASSUME IInv, NEW t \in Task, GetUnit(t)
  PROVE  IInv'
  <1>1. /\ running = t /\ Op(t) = "unit" /\ frame[t].pc = "start"
        /\ UNCHANGED <<backend, requests>>
    BY DEF GetUnit, At
  <1>2. LoopOK /\ MaySettle(t) /\ Arg(t) \in Unit
    BY <1>1, RunningTask, PhaseArg DEF IInv, Op, Arg
  <1>3. CASE Present(Arg(t)) /\ Return(t) /\ UNCHANGED <<graph, loaded>>
    BY <1>1, <1>2, <1>3, ReturnLoop, QuietStep
  <1>4. CASE ~Present(Arg(t)) /\ Obtain(t, Arg(t), Fresh)
    <2>1. Fresh.pc # "adding" /\ Fresh.wait = "none"
      BY DEF Fresh
    <2> QED BY <1>1, <1>2, <1>4, <2>1, FreshOK, ObtainStep
  <1> QED BY <1>3, <1>4 DEF GetUnit

LEMMA UnitArrivesStep ==
  ASSUME IInv, NEW t \in Task, UnitArrives(t)
  PROVE  IInv'
  <1> PICK u : u = frame[t].need
    OBVIOUS
  <1> DEFINE f == [frame[t] EXCEPT !.wait = "none", !.need = NoUnit]
  <1>1. /\ running = NoTask /\ frame[t].wait = "unit"
        /\ IF u \in Real THEN AddUnit(u, frame[t].from) ELSE UNCHANGED graph
        /\ loadedUnits' = loadedUnits \cup {u}
        /\ Continue(t, f)
        /\ UNCHANGED <<loadedKinds, loadedRelations, relationKindLoaded, backend, requests>>
    BY DEF UnitArrives, Answered
  <1>2. /\ LoopOK /\ MaySettle(t) /\ frame[t] \in Frames
        /\ LocalsOK(script[t][1], frame[t])
    BY <1>1, AnsweredTask DEF IInv
  <1>3. /\ u \in Unit /\ frame[t].from \in Nat \ {0}
        /\ f \in Frames /\ f.wait = "none" /\ f.pc # "adding"
        /\ LocalsOK(script[t][1], f)
    BY <1>1, <1>2 DEF LocalsOK, Frames
  <1> HIDE DEF f
  <1>4. LoopOK' /\ KindProgress'
    BY <1>1, <1>2, <1>3, ContinueLoop
  <1>5. GraphOK' /\ PresentKept /\ (u \in Real => Present(u)')
    <2>1. CASE u \in Real
      BY <1>1, <1>3, <2>1, AddUnitGraph DEF IInv
    <2>2. CASE u \notin Real
      BY <1>1, <2>2, SameGraph DEF IInv
    <2> QED BY <2>1, <2>2
  <1>6. LoadedUnitsPresent'
    <2>1. LoadedUnitsPresent /\ loadedUnits \subseteq Unit /\ Real \subseteq Unit
      BY UnitAssumption DEF IInv, LoadedOK
    <2>2. ASSUME NEW w \in loadedUnits' \cap Real PROVE Present(w)'
      BY <1>1, <1>5, <2>1 DEF LoadedUnitsPresent, PresentKept
    <2>3. ASSUME NEW k \in loadedKinds', NEW w \in Real, kindOf[w] = k PROVE Present(w)'
      BY <1>1, <1>5, <2>1, <2>3 DEF LoadedUnitsPresent, PresentKept
    <2> QED BY <2>2, <2>3 DEF LoadedUnitsPresent
  <1>7. LoadedOK'
    BY <1>1, <1>3, <1>6 DEF IInv, LoadedOK
  <1> QED BY <1>1, <1>4, <1>5, <1>7, SameCounters DEF IInv

LEMMA FetchUnitStep ==
  ASSUME IInv, NEW t \in Task, FetchUnit(t)
  PROVE  IInv'
  <1> DEFINE f == [frame[t] EXCEPT !.wait = "location", !.from = cpg]
  <1>1. /\ running = t /\ Op(t) = "location" /\ frame[t].pc = "start"
        /\ Await(t, f) /\ UNCHANGED <<graph, loaded, backend, requests>>
    BY DEF FetchUnit, At
  <1>2. LoopOK /\ frame[t] \in Frames /\ LocalsOK(script[t][1], frame[t])
    BY <1>1, RunningTask DEF IInv
  <1>3. f \in Frames /\ f.wait # "none" /\ LocalsOK(script[t][1], f)
    BY <1>1, <1>2 DEF Frames, LocalsOK, IInv, CountersOK, Op
  <1> HIDE DEF f
  <1> QED BY <1>1, <1>2, <1>3, AwaitLoop, QuietStep

LEMMA LocationArrivesStep ==
  ASSUME IInv, NEW t \in Task, LocationArrives(t)
  PROVE  IInv'
  <1>1. /\ running = NoTask /\ frame[t].wait = "location"
        /\ IF InGraph(Arg(t)) THEN UNCHANGED graph ELSE AddUnit(Arg(t), frame[t].from)
        /\ Return(t) /\ UNCHANGED <<loaded, backend, requests>>
    BY DEF LocationArrives, Answered
  <1>2. /\ LoopOK /\ MaySettle(t) /\ frame[t] \in Frames
        /\ LocalsOK(script[t][1], frame[t]) /\ script[t][1] \in Phases
    BY <1>1, AnsweredTask DEF IInv
  <1>3. Arg(t) \in Unit /\ frame[t].from \in Nat \ {0}
    BY <1>1, <1>2, PhaseArg DEF LocalsOK, Arg, Frames
  <1>4. GraphOK' /\ PresentKept
    BY <1>1, <1>3, AddUnitGraph, SameGraph DEF IInv
  <1> QED BY <1>1, <1>2, <1>4, ReturnLoop, SameLoaded, SameCounters DEF IInv

LEMMA GetAllUnitsByKindStep ==
  ASSUME IInv, NEW t \in Task, GetAllUnitsByKind(t)
  PROVE  IInv'
  <1> DEFINE f == [frame[t] EXCEPT !.pc = "adding", !.wait = "kind", !.from = cpg,
                                   !.left = {u \in Real : kindOf[u] = Arg(t)}]
  <1>1. /\ running = t /\ Op(t) = "kind" /\ frame[t].pc = "start"
        /\ IF Arg(t) \in loadedKinds THEN Return(t) ELSE Await(t, f)
        /\ UNCHANGED <<graph, loaded, backend, requests>>
    BY DEF GetAllUnitsByKind, At
  <1>2. LoopOK /\ MaySettle(t) /\ frame[t] \in Frames /\ LocalsOK(script[t][1], frame[t])
    BY <1>1, RunningTask DEF IInv
  <1>3. CASE Return(t)
    BY <1>1, <1>2, <1>3, ReturnLoop, QuietStep
  <1>4. CASE Await(t, f)
    <2>1. /\ f.pc = "adding" /\ f.wait = "kind" /\ f.from = cpg
          /\ f.left = UnitsOf(Arg(t)) /\ f.pos = frame[t].pos
      BY <1>2 DEF Frames, UnitsOf
    <2>2. f \in Frames
      BY <1>2, UnitAssumption DEF Frames, IInv, CountersOK
    <2> HIDE DEF f
    <2>3. LocalsOK(script[t][1], f)
      BY <1>1, <1>2, <2>1 DEF LocalsOK, Op, Arg, IInv, CountersOK
    <2> QED BY <1>1, <1>2, <1>4, <2>1, <2>2, <2>3, AwaitLoop, QuietStep
  <1> QED BY <1>1, <1>3, <1>4

LEMMA AddUnitsOfKindStep ==
  ASSUME IInv, NEW t \in Task, AddUnitsOfKind(t)
  PROVE  IInv'
  <1>1. /\ running = t /\ Op(t) = "kind" /\ frame[t].pc = "adding"
        /\ UNCHANGED <<loadedUnits, loadedRelations, relationKindLoaded, backend, requests>>
    BY DEF AddUnitsOfKind, At
  <1>2. /\ LoopOK /\ MaySettle(t) /\ frame[t] \in Frames /\ frame[t].wait = "none"
        /\ LocalsOK(script[t][1], frame[t]) /\ Arg(t) \in Kind
    BY <1>1, RunningTask, PhaseArg DEF IInv, Op, Arg
  <1>3. \A u \in UnitsOf(Arg(t)) : u \in frame[t].left \/ Present(u)
    BY <1>1 DEF IInv, KindProgress
  <1>4. ASSUME NEW u \in frame[t].left, AddUnit(u, frame[t].from),
               Continue(t, [frame[t] EXCEPT !.left = @ \ {u}]), UNCHANGED loadedKinds
        PROVE  IInv'
    <2> DEFINE f == [frame[t] EXCEPT !.left = @ \ {u}]
    <2>1. u \in Unit /\ frame[t].from \in Nat \ {0}
      BY <1>1, <1>2 DEF LocalsOK, Frames
    <2>2. GraphOK' /\ PresentKept /\ Present(u)'
      BY <1>4, <2>1, AddUnitGraph DEF IInv
    <2>3. /\ f \in Frames /\ f.wait = "none" /\ f.pc = "adding"
          /\ f.left = frame[t].left \ {u} /\ f.from = frame[t].from
          /\ f.pos = frame[t].pos
      BY <1>1, <1>2 DEF Frames
    <2>4. Continue(t, f)
      BY <1>4
    <2> HIDE DEF f
    <2>5. LocalsOK(script[t][1], f)
      BY <1>1, <1>2, <2>1, <2>3 DEF LocalsOK, Op
    <2>6. LoopOK'
      BY <1>2, <2>3, <2>4, <2>5, ContinueLoop
    <2>7. KindProgress'
      <3>1. running' = t /\ frame'[t] = f /\ script' = script
        BY <2>4 DEF Continue, LoopOK, IInv
      <3>2. ASSUME NEW w \in UnitsOf(Arg(t)) PROVE w \in f.left \/ Present(w)'
        BY <1>3, <2>2, <2>3, UnitAssumption DEF PresentKept, UnitsOf
      <3> QED BY <3>1, <3>2 DEF KindProgress, Arg, UnitsOf
    <2> QED BY <1>1, <1>4, <2>2, <2>6, <2>7, SameLoaded, SameCounters DEF IInv, loaded
  <1>5. ASSUME frame[t].left = {}, loadedKinds' = loadedKinds \cup {Arg(t)},
               Return(t), UNCHANGED graph
        PROVE  IInv'
    <2>1. LoopOK' /\ KindProgress'
      BY <1>2, <1>5, ReturnLoop
    <2>2. GraphOK' /\ PresentKept
      BY <1>5, SameGraph DEF IInv
    <2>3. LoadedUnitsPresent'
      <3>1. LoadedUnitsPresent /\ loadedUnits \subseteq Unit /\ Real \subseteq Unit
        BY UnitAssumption DEF IInv, LoadedOK
      <3>2. ASSUME NEW w \in loadedUnits' \cap Real PROVE Present(w)'
        BY <1>1, <2>2, <3>1 DEF LoadedUnitsPresent, PresentKept
      <3>3. ASSUME NEW k \in loadedKinds', NEW w \in Real, kindOf[w] = k PROVE Present(w)'
        BY <1>3, <1>5, <2>2, <3>1, <3>3 DEF LoadedUnitsPresent, PresentKept, UnitsOf
      <3> QED BY <3>2, <3>3 DEF LoadedUnitsPresent
    <2>4. LoadedOK'
      BY <1>1, <1>2, <1>5, <2>3 DEF IInv, LoadedOK
    <2> QED BY <1>1, <2>1, <2>2, <2>4, SameCounters DEF IInv
  <1> QED BY <1>4, <1>5 DEF AddUnitsOfKind

LEMMA AnswerArrivesStep ==
  ASSUME IInv, NEW t \in Task, AnswerArrives(t)
  PROVE  IInv'
  <1> DEFINE f == [frame[t] EXCEPT !.wait = "none"]
  <1>1. /\ running = NoTask /\ frame[t].wait \in {"kind", "relations", "tags"}
        /\ Continue(t, f) /\ UNCHANGED <<graph, loaded, backend, requests>>
    BY DEF AnswerArrives, Answered
  <1>2. /\ LoopOK /\ MaySettle(t) /\ frame[t] \in Frames
        /\ LocalsOK(script[t][1], frame[t])
    BY <1>1, AnsweredTask DEF IInv
  <1>3. /\ f \in Frames /\ f.wait = "none" /\ f.pc = frame[t].pc /\ f.left = frame[t].left
        /\ f.from = frame[t].from /\ f.cur = frame[t].cur /\ f.tgt = frame[t].tgt
        /\ f.pos = frame[t].pos
    BY <1>2 DEF Frames
  <1> HIDE DEF f
  <1>4. LocalsOK(script[t][1], f)
    BY <1>2, <1>3 DEF LocalsOK
  <1>5. LoopOK'
    BY <1>1, <1>2, <1>3, <1>4, ContinueLoop
  <1>6. KindProgress'
    <2>1. running' = t /\ frame'[t] = f /\ script' = script
      BY <1>1 DEF Continue, LoopOK, IInv
    <2>2. f.pc = "adding" => f.left = UnitsOf(Arg(t))
      BY <1>1, <1>2, <1>3 DEF LocalsOK, Arg
    <2> QED BY <2>1, <2>2 DEF KindProgress, Arg, UnitsOf
  <1> QED BY <1>1, <1>5, <1>6, QuietStep

LEMMA NeighboursAreUnits ==
  ASSUME NEW u, NEW dir
  PROVE  Neighbours(u, dir) \subseteq Unit
  BY DEF Neighbours

\* The frame in which a coroutine waits for the relations of u.
LEMMA LinkFrame ==
  ASSUME NEW p, NEW u \in Unit, NEW dir \in {"out", "in"},
         p.op = dir \/ (p.op = "relations" /\ dir = "out"),
         NEW f, f.pc = "link", f.wait = "relations", f.cur = u, f.pos = 0,
         f.left = Neighbours(u, dir)
  PROVE  LocalsOK(p, f)
  <1>1. Neighbours(u, "relations") = Neighbours(u, "out")
    BY DEF Neighbours
  <1> QED BY <1>1 DEF LocalsOK

LEMMA CollectStep ==
  ASSUME IInv, NEW t \in Task, running = t, Collect(t),
         UNCHANGED <<graph, backend, requests>>, LoadedOK'
  PROVE  IInv'
  <1>1. LoopOK /\ MaySettle(t)
    BY RunningTask DEF IInv
  <1>2. LoopOK' /\ KindProgress'
    BY <1>1, ReturnLoop, RaiseLoop DEF Collect
  <1> QED BY <1>2, SameGraph, SameCounters DEF IInv

LEMMA GetRelatedUnitsStep ==
  ASSUME IInv, NEW t \in Task, GetRelatedUnits(t)
  PROVE  IInv'
  <1>1. PICK dir \in {"out", "in"} :
            /\ At(t, dir, "start")
            /\ \/ /\ Present(Arg(t))
                  /\ IF relationKindLoaded \/ <<Arg(t), dir>> \in loadedRelations
                     THEN Collect(t)
                     ELSE Await(t, [frame[t] EXCEPT !.pc = "link", !.wait = "relations",
                                                    !.cur = Arg(t),
                                                    !.left = Neighbours(Arg(t), dir)])
                  /\ UNCHANGED <<graph, loaded>>
               \/ ~Present(Arg(t)) /\ Obtain(t, Arg(t), Fresh)
    BY DEF GetRelatedUnits
  <1>2. /\ running = t /\ Op(t) = dir /\ frame[t].pc = "start"
        /\ UNCHANGED <<backend, requests>>
    BY <1>1 DEF At, GetRelatedUnits
  <1>3. /\ LoopOK /\ MaySettle(t) /\ Arg(t) \in Unit /\ frame[t] \in Frames
        /\ frame[t].pos = 0
    BY <1>2, RunningTask, PhaseArg DEF IInv, Op, Arg, LocalsOK
  <1>4. CASE Collect(t) /\ UNCHANGED <<graph, loaded>>
    BY <1>2, <1>4, CollectStep, SameGraph, SameLoaded DEF IInv
  <1>5. ASSUME Await(t, [frame[t] EXCEPT !.pc = "link", !.wait = "relations",
                                         !.cur = Arg(t),
                                         !.left = Neighbours(Arg(t), dir)]),
               UNCHANGED <<graph, loaded>>
        PROVE  IInv'
    <2> DEFINE f == [frame[t] EXCEPT !.pc = "link", !.wait = "relations",
                                     !.cur = Arg(t), !.left = Neighbours(Arg(t), dir)]
    <2>1. /\ f \in Frames /\ f.pc = "link" /\ f.wait = "relations" /\ f.cur = Arg(t)
          /\ f.pos = 0 /\ f.left = Neighbours(Arg(t), dir)
      BY <1>3, NeighboursAreUnits DEF Frames
    <2>2. Await(t, f)
      BY <1>5
    <2> HIDE DEF f
    <2>3. LocalsOK(script[t][1], f)
      BY <1>2, <1>3, <2>1, LinkFrame DEF Op
    <2> QED BY <1>2, <1>3, <1>5, <2>1, <2>2, <2>3, AwaitLoop, QuietStep
  <1>6. CASE ~Present(Arg(t)) /\ Obtain(t, Arg(t), Fresh)
    <2>1. Fresh.pc # "adding" /\ Fresh.wait = "none"
      BY DEF Fresh
    <2> QED BY <1>2, <1>3, <1>6, <2>1, FreshOK, ObtainStep
  <1> QED BY <1>1, <1>4, <1>5, <1>6

LEMMA StartIterationStep ==
  ASSUME IInv, NEW t \in Task, running = t, frame[t].pc = "start", StartIteration(t),
         UNCHANGED <<graph, loaded, backend, requests>>
  PROVE  IInv'
  <1> DEFINE f == [frame[t] EXCEPT !.pc = "iter", !.size = Len(nodes)]
  <1>1. /\ LoopOK /\ MaySettle(t) /\ frame[t] \in Frames /\ frame[t].wait = "none"
        /\ LocalsOK(script[t][1], frame[t])
    BY RunningTask DEF IInv
  <1>2. Len(nodes) \in Nat
    BY LenProperties DEF IInv, GraphOK
  <1>3. /\ f \in Frames /\ f.wait = "none" /\ f.pc = "iter" /\ f.pos = frame[t].pos
    BY <1>1, <1>2 DEF Frames
  <1>4. Continue(t, f)
    BY DEF StartIteration
  <1> HIDE DEF f
  <1>5. LocalsOK(script[t][1], f)
    BY <1>1, <1>3 DEF LocalsOK
  <1> QED BY <1>1, <1>3, <1>4, <1>5, ContinueLoop, QuietStep

\* The node a live iteration gives.
LEMMA IteratedNode ==
  ASSUME IInv, NEW t \in Task, running = t, frame[t].i <= Len(nodes)
  PROVE  nodes[frame[t].i] \in Unit
  <1>1. frame[t].i \in Nat \ {0}
    BY DEF IInv, LoopOK, Frames
  <1> QED BY <1>1, ElementOfSeq, LenProperties DEF IInv, GraphOK

LEMMA GetAllRelationsByKindStep ==
  ASSUME IInv, NEW t \in Task, GetAllRelationsByKind(t)
  PROVE  IInv'
  <1>1. UNCHANGED <<graph, loadedUnits, loadedKinds, loadedRelations, backend, requests>>
    BY DEF GetAllRelationsByKind
  <1>2. CASE /\ At(t, "relations", "start")
             /\ IF relationKindLoaded THEN Collect(t) ELSE StartIteration(t)
             /\ UNCHANGED relationKindLoaded
    <2>1. running = t /\ frame[t].pc = "start" /\ UNCHANGED loaded
      BY <1>1, <1>2 DEF At, loaded
    <2>2. CASE Collect(t)
      BY <1>1, <2>1, <2>2, CollectStep, SameGraph, SameLoaded DEF IInv
    <2>3. CASE StartIteration(t)
      BY <1>1, <2>1, <2>3, StartIterationStep
    <2> QED BY <1>2, <2>2, <2>3
  <1>3. ASSUME At(t, "relations", "iter"), UNCHANGED relationKindLoaded,
               \/ Raise(t)
               \/ /\ HasNext(t)
                  /\ Await(t, [frame[t] EXCEPT !.pc = "link", !.wait = "relations",
                                               !.cur = NextNode(t), !.i = @ + 1,
                                               !.left = Neighbours(NextNode(t), "out")])
        PROVE  IInv'
    <2>1. running = t /\ frame[t].pc = "iter" /\ Op(t) = "relations" /\ UNCHANGED loaded
      BY <1>1, <1>3 DEF At, loaded
    <2>2. /\ LoopOK /\ MaySettle(t) /\ frame[t] \in Frames /\ frame[t].pos = 0
      BY <2>1, RunningTask DEF IInv, LocalsOK
    <2>3. CASE Raise(t)
      BY <1>1, <2>1, <2>2, <2>3, RaiseLoop, QuietStep
    <2>4. ASSUME frame[t].i <= Len(nodes),
                 Await(t, [frame[t] EXCEPT !.pc = "link", !.wait = "relations",
                                           !.cur = nodes[frame[t].i],
                                           !.left = Neighbours(nodes[frame[t].i], "out"),
                                           !.i = @ + 1])
          PROVE  IInv'
      <3>1. PICK u \in Unit : u = nodes[frame[t].i]
        BY <2>1, <2>4, IteratedNode
      <3> DEFINE f == [frame[t] EXCEPT !.pc = "link", !.wait = "relations", !.cur = u,
                                       !.left = Neighbours(u, "out"),
                                       !.i = frame[t].i + 1]
      <3>2. /\ f \in Frames /\ f.pc = "link" /\ f.wait = "relations"
            /\ f.cur = u /\ f.pos = 0 /\ f.left = Neighbours(u, "out")
        <4>1. Neighbours(u, "out") \in SUBSET Unit
          BY NeighboursAreUnits
        <4>2. frame[t].i + 1 \in Nat \ {0}
          BY <2>2 DEF Frames
        <4> QED BY <2>2, <4>1, <4>2 DEF Frames
      <3>3. Await(t, f)
        BY <2>4, <3>1
      <3> HIDE DEF f
      <3>4. LocalsOK(script[t][1], f)
        BY <2>1, <3>1, <3>2, LinkFrame DEF Op
      <3> QED BY <1>1, <2>1, <2>2, <3>2, <3>3, <3>4, AwaitLoop, QuietStep
    <2> QED BY <1>3, <2>3, <2>4 DEF NextNode, HasNext
  <1>4. CASE /\ At(t, "relations", "iter")
             /\ NoNodeLeft(t)
             /\ relationKindLoaded' = TRUE
             /\ Collect(t)
    <2>1. running = t
      BY <1>4 DEF At
    <2>2. LoadedOK'
      BY <1>1, <1>4, SameGraph, UnitAssumption
         DEF IInv, LoadedOK, LoadedUnitsPresent, PresentKept
    <2> QED BY <1>1, <1>4, <2>1, <2>2, CollectStep
  <1> QED BY <1>2, <1>3, <1>4 DEF GetAllRelationsByKind

LEMMA PickTargetTyped ==
  ASSUME NEW f \in Frames, NEW u \in Unit, NEW rest \in SUBSET Unit
  PROVE  [f EXCEPT !.tgt = u, !.left = rest, !.pos = 1] \in Frames
  <1>1. 1 \in 0..4
    OBVIOUS
  <1> QED BY <1>1 DEF Frames

LEMMA LinkStep ==
  ASSUME IInv, NEW t \in Task, Link(t)
  PROVE  IInv'
  <1>1. /\ running = t /\ Op(t) \in {"out", "in", "relations"} /\ frame[t].pc = "link"
        /\ UNCHANGED <<backend, requests>>
    BY DEF Link, At
  <1>2. /\ LoopOK /\ MaySettle(t) /\ frame[t] \in Frames /\ frame[t].wait = "none"
        /\ script[t][1] \in Phases /\ LocalsOK(script[t][1], frame[t])
    BY <1>1, RunningTask DEF IInv
  <1>3. /\ frame[t].cur \in Unit
        /\ frame[t].left \subseteq Neighbours(frame[t].cur, Op(t))
        /\ frame[t].pos # 0 => frame[t].tgt \in Neighbours(frame[t].cur, Op(t))
    BY <1>1, <1>2 DEF LocalsOK, Op
  <1>4. ASSUME frame[t].pos = 0, NEW u \in frame[t].left,
               Continue(t, [frame[t] EXCEPT !.tgt = u, !.left = @ \ {u}, !.pos = 1]),
               UNCHANGED <<graph, loaded>>
        PROVE  IInv'
    <2>1. u \in Unit /\ u \in Neighbours(frame[t].cur, Op(t))
      BY <1>3, NeighboursAreUnits
    <2> PICK rest \in SUBSET Unit : rest = frame[t].left \ {u}
      BY <1>3, NeighboursAreUnits
    <2> DEFINE f == [frame[t] EXCEPT !.tgt = u, !.left = rest, !.pos = 1]
    <2>2. /\ f \in Frames /\ f.wait = "none" /\ f.pc = "link" /\ f.cur = frame[t].cur
          /\ f.left \subseteq frame[t].left /\ f.tgt = u
      <3>1. f \in Frames
        BY <1>2, <2>1, PickTargetTyped
      <3> QED BY <1>1, <1>2, <3>1 DEF Frames
    <2>3. Continue(t, f)
      BY <1>4
    <2> HIDE DEF f
    <2>4. LocalsOK(script[t][1], f)
      BY <1>1, <1>3, <2>1, <2>2 DEF LocalsOK, Op
    <2> QED BY <1>1, <1>2, <1>4, <2>2, <2>3, <2>4, ContinueLoop, QuietStep
  <1>5. ASSUME frame[t].pos \in 1..3,
               Obtain(t, LookedUp(t), [frame[t] EXCEPT !.pos = @ + 1])
        PROVE  IInv'
    <2> DEFINE f == [frame[t] EXCEPT !.pos = frame[t].pos + 1]
    <2>1. frame[t].tgt \in Unit
      BY <1>3, <1>5, NeighboursAreUnits
    <2>2. LookedUp(t) \in Unit
      BY <1>3, <1>5, <2>1 DEF LookedUp, Source, Target
    <2>3. /\ f \in Frames /\ f.wait = "none" /\ f.pc = "link" /\ f.cur = frame[t].cur
          /\ f.left = frame[t].left /\ f.tgt = frame[t].tgt
      BY <1>1, <1>2, <1>5 DEF Frames
    <2>4. Obtain(t, LookedUp(t), f)
      BY <1>5
    <2> HIDE DEF f
    <2>5. LocalsOK(script[t][1], f)
      BY <1>1, <1>3, <1>5, <2>3 DEF LocalsOK, Op
    <2> QED BY <1>1, <2>2, <2>3, <2>4, <2>5, ObtainStep
  <1>6. ASSUME frame[t].pos = 4, AddEdge(Source(t), Target(t)),
               Continue(t, [frame[t] EXCEPT !.pos = 0]), UNCHANGED loaded
        PROVE  IInv'
    <2> DEFINE f == [frame[t] EXCEPT !.pos = 0]
    <2>1. <<Source(t), Target(t)>> \in Related
      BY <1>1, <1>3, <1>6 DEF Source, Target, Neighbours
    <2>2. GraphOK' /\ PresentKept
      BY <1>6, <2>1, AddEdgeGraph DEF IInv
    <2>3. /\ f \in Frames /\ f.wait = "none" /\ f.pc = "link" /\ f.cur = frame[t].cur
          /\ f.left = frame[t].left /\ f.pos = 0
      BY <1>1, <1>2 DEF Frames
    <2>4. Continue(t, f)
      BY <1>6
    <2> HIDE DEF f
    <2>5. LocalsOK(script[t][1], f)
      BY <1>1, <1>3, <2>3 DEF LocalsOK, Op
    <2>6. LoopOK' /\ KindProgress'
      BY <1>2, <2>3, <2>4, <2>5, ContinueLoop
    <2> QED BY <1>1, <1>6, <2>2, <2>6, SameLoaded, SameCounters DEF IInv
  <1>7. ASSUME frame[t].pos = 0, Continue(t, [frame[t] EXCEPT !.pc = "iter"]),
               UNCHANGED <<graph, loaded>>
        PROVE  IInv'
    <2> DEFINE f == [frame[t] EXCEPT !.pc = "iter"]
    <2>1. f \in Frames /\ f.wait = "none" /\ f.pc = "iter" /\ f.pos = 0
      BY <1>2, <1>7 DEF Frames
    <2>2. Continue(t, f)
      BY <1>7
    <2> HIDE DEF f
    <2>3. LocalsOK(script[t][1], f)
      BY <2>1 DEF LocalsOK
    <2> QED BY <1>1, <1>2, <1>7, <2>1, <2>2, <2>3, ContinueLoop, QuietStep
  <1>8. ASSUME Op(t) # "relations",
               loadedRelations' = loadedRelations \cup {<<Arg(t), Op(t)>>},
               Collect(t), UNCHANGED <<graph, loadedUnits, loadedKinds, relationKindLoaded>>
        PROVE  IInv'
    <2>1. <<Arg(t), Op(t)>> \in Unit \X {"out", "in"}
      BY <1>1, <1>2, <1>8, PhaseArg DEF Arg, Op
    <2>2. LoadedOK'
      BY <1>8, <2>1, SameGraph, UnitAssumption
         DEF IInv, LoadedOK, LoadedUnitsPresent, PresentKept
    <2> QED BY <1>1, <1>8, <2>2, CollectStep
  <1> QED BY <1>4, <1>5, <1>6, <1>7, <1>8 DEF Link

LEMMA AddUnitFactStep ==
  ASSUME IInv, NEW t \in Task, AddUnitFact(t)
  PROVE  IInv'
  <1>1. /\ running = t /\ Op(t) = "fact" /\ frame[t].pc = "start"
        /\ UNCHANGED <<backend, requests>>
    BY DEF AddUnitFact, At
  <1>2. LoopOK /\ MaySettle(t) /\ Arg(t) \in Unit
    BY <1>1, RunningTask, PhaseArg DEF IInv, Op, Arg
  <1>3. CASE Present(Arg(t)) /\ AppendFact(Arg(t)) /\ Return(t) /\ UNCHANGED loaded
    <2>1. GraphOK' /\ PresentKept
      BY <1>2, <1>3, AppendFactGraph DEF IInv
    <2> QED BY <1>1, <1>2, <1>3, <2>1, ReturnLoop, SameLoaded, SameCounters DEF IInv
  <1>4. CASE ~Present(Arg(t)) /\ Obtain(t, Arg(t), Fresh)
    <2>1. Fresh.pc # "adding" /\ Fresh.wait = "none"
      BY DEF Fresh
    <2> QED BY <1>1, <1>2, <1>4, <2>1, FreshOK, ObtainStep
  <1> QED BY <1>3, <1>4 DEF AddUnitFact

\* A step to a program counter without obligations.
LEMMA PlainLocals ==
  ASSUME NEW p, NEW f, f.pc \in {"start", "iter", "append", "store"}, f.pos = 0,
         f.pc \in {"append", "store"} => f.cur \in Unit,
         f.wait \in {"none", "relations", "tags", "store", "reload"}
  PROVE  LocalsOK(p, f)
  BY DEF LocalsOK

LEMMA PlainContinue ==
  ASSUME IInv, NEW t \in Task, running = t, NEW f \in Frames,
         f.pc \in {"start", "iter", "append", "store"}, f.pos = 0, f.wait = "none",
         f.pc \in {"append", "store"} => f.cur \in Unit,
         Continue(t, f), UNCHANGED <<graph, loaded, backend, requests>>
  PROVE  IInv'
  <1>1. LoopOK /\ MaySettle(t) /\ LocalsOK(script[t][1], f)
    BY RunningTask, PlainLocals DEF IInv
  <1> QED BY <1>1, ContinueLoop, QuietStep

LEMMA PlainAwait ==
  ASSUME IInv, NEW t \in Task, running = t, NEW f \in Frames,
         f.pc \in {"start", "iter", "append", "store"}, f.pos = 0,
         f.pc \in {"append", "store"} => f.cur \in Unit,
         f.wait \in {"tags", "store", "reload"},
         Await(t, f), UNCHANGED <<graph, loaded, backend, requests>>
  PROVE  IInv'
  <1>1. LoopOK /\ f.wait # "none" /\ LocalsOK(script[t][1], f)
    BY RunningTask, PlainLocals DEF IInv
  <1> QED BY <1>1, AwaitLoop, QuietStep

LEMMA LoadFactsStep ==
  ASSUME IInv, NEW t \in Task, LoadFacts(t)
  PROVE  IInv'
  <1>1. running = t /\ UNCHANGED <<backend, requests>>
    BY DEF LoadFacts, At
  <1>2. /\ LoopOK /\ MaySettle(t) /\ frame[t] \in Frames /\ frame[t].wait = "none"
        /\ LocalsOK(script[t][1], frame[t]) /\ frame[t].n \in Nat
    BY <1>1, RunningTask DEF IInv, Frames
  <1>3. frame[t].pc # "link" => frame[t].pos = 0
    BY <1>2 DEF LocalsOK
  <1>4. CASE /\ At(t, "load_facts", "start")
             /\ IF \E i \in 1..Len(nodes) : version[nodes[i]] = 0
                THEN Raise(t)
                ELSE Continue(t, [frame[t] EXCEPT !.pc = "iter",
                                                  !.left = {u \in Unit : InGraph(u)}])
             /\ UNCHANGED <<graph, loaded>>
    <2> DEFINE f == [frame[t] EXCEPT !.pc = "iter", !.left = {u \in Unit : InGraph(u)}]
    <2>1. CASE Raise(t)
      BY <1>1, <1>2, <1>4, <2>1, RaiseLoop, QuietStep
    <2>2. CASE Continue(t, f)
      <3>1. f \in Frames /\ f.pc = "iter" /\ f.pos = 0 /\ f.wait = "none"
        BY <1>2, <1>3, <1>4 DEF Frames, At
      <3> HIDE DEF f
      <3> QED BY <1>1, <1>4, <2>2, <3>1, PlainContinue
    <2> QED BY <1>4, <2>1, <2>2
  <1>5. ASSUME At(t, "load_facts", "iter"), UNCHANGED <<graph, loaded>>,
               NEW u \in frame[t].left,
               Await(t, [frame[t] EXCEPT !.pc = "append", !.wait = "tags", !.cur = u,
                                         !.n = tags[u], !.left = @ \ {u}])
        PROVE  IInv'
    <2> DEFINE f == [frame[t] EXCEPT !.pc = "append", !.wait = "tags", !.cur = u,
                                     !.n = tags[u], !.left = frame[t].left \ {u}]
    <2>1. u \in Unit /\ frame[t].left \ {u} \in SUBSET Unit /\ tags[u] \in Nat
      BY <1>2 DEF Frames, IInv, CountersOK
    <2>2. f \in Frames /\ f.pc = "append" /\ f.pos = 0 /\ f.wait = "tags" /\ f.cur = u
      BY <1>2, <1>3, <1>5, <2>1 DEF Frames, At
    <2>3. Await(t, f)
      BY <1>5
    <2> HIDE DEF f
    <2> QED BY <1>1, <1>5, <2>1, <2>2, <2>3, PlainAwait
  <1>6. CASE At(t, "load_facts", "iter") /\ Return(t) /\ UNCHANGED <<graph, loaded>>
    BY <1>1, <1>2, <1>6, ReturnLoop, QuietStep
  <1>7. ASSUME At(t, "load_facts", "append"), UNCHANGED <<graph, loaded>>,
               Continue(t, [frame[t] EXCEPT !.pc = "iter"])
        PROVE  IInv'
    <2> DEFINE f == [frame[t] EXCEPT !.pc = "iter"]
    <2>1. f \in Frames /\ f.pc = "iter" /\ f.pos = 0 /\ f.wait = "none"
      BY <1>2, <1>3, <1>7 DEF Frames, At
    <2>2. Continue(t, f)
      BY <1>7
    <2> HIDE DEF f
    <2> QED BY <1>1, <1>7, <2>1, <2>2, PlainContinue
  <1>8. ASSUME At(t, "load_facts", "append"), frame[t].n > 0, Present(frame[t].cur),
               AppendFact(frame[t].cur), Continue(t, [frame[t] EXCEPT !.n = @ - 1]),
               UNCHANGED loaded
        PROVE  IInv'
    <2> DEFINE f == [frame[t] EXCEPT !.n = frame[t].n - 1]
    <2>1. frame[t].cur \in Unit
      BY <1>2, <1>8 DEF At, LocalsOK
    <2>2. GraphOK' /\ PresentKept
      BY <1>8, <2>1, AppendFactGraph DEF IInv
    <2>3. frame[t].n - 1 \in Nat
      BY <1>2, <1>8
    <2>4. /\ f \in Frames /\ f.pc = "append" /\ f.pos = 0 /\ f.wait = "none"
          /\ f.cur = frame[t].cur
      BY <1>2, <1>3, <1>8, <2>3 DEF Frames, At
    <2>5. Continue(t, f)
      BY <1>8
    <2> HIDE DEF f
    <2>6. LoopOK' /\ KindProgress'
      BY <1>2, <2>1, <2>4, <2>5, PlainLocals, ContinueLoop
    <2> QED BY <1>1, <1>8, <2>2, <2>6, SameLoaded, SameCounters DEF IInv
  <1>9. ASSUME At(t, "load_facts", "append"), Obtain(t, frame[t].cur, frame[t])
        PROVE  IInv'
    <2>1. frame[t].pc = "append"
      BY <1>9 DEF At
    <2>2. frame[t].cur \in Unit
      BY <1>2, <2>1 DEF LocalsOK
    <2> QED BY <1>1, <1>2, <1>9, <2>1, <2>2, ObtainStep
  <1> QED BY <1>4, <1>5, <1>6, <1>7, <1>8, <1>9 DEF LoadFacts

LEMMA SyncBackendStep ==
  ASSUME IInv, NEW t \in Task, SyncBackend(t)
  PROVE  IInv'
  <1>1. running = t /\ UNCHANGED <<graph, loaded, backend, requests>>
    BY DEF SyncBackend, At
  <1>2. /\ LoopOK /\ MaySettle(t) /\ frame[t] \in Frames /\ frame[t].wait = "none"
        /\ LocalsOK(script[t][1], frame[t]) /\ frame[t].n \in Nat
    BY <1>1, RunningTask DEF IInv, Frames
  <1>3. frame[t].pc # "link" => frame[t].pos = 0
    BY <1>2 DEF LocalsOK
  <1>4. CASE At(t, "sync", "start") /\ StartIteration(t)
    BY <1>1, <1>4, StartIterationStep DEF At
  <1>5. ASSUME At(t, "sync", "iter"),
               \/ Raise(t)
               \/ /\ HasNext(t)
                  /\ Continue(t, [frame[t] EXCEPT !.pc = "store", !.cur = NextNode(t),
                                                  !.n = facts[NextNode(t)], !.i = @ + 1])
        PROVE  IInv'
    <2>1. CASE Raise(t)
      BY <1>1, <1>2, <2>1, RaiseLoop, QuietStep
    <2>2. ASSUME frame[t].i <= Len(nodes),
                 Continue(t, [frame[t] EXCEPT !.pc = "store", !.cur = nodes[frame[t].i],
                                              !.n = facts[nodes[frame[t].i]], !.i = @ + 1])
          PROVE  IInv'
      <3>1. PICK u \in Unit : u = nodes[frame[t].i]
        BY <1>1, <2>2, IteratedNode
      <3> DEFINE f == [frame[t] EXCEPT !.pc = "store", !.cur = u, !.n = facts[u],
                                       !.i = frame[t].i + 1]
      <3>2. /\ facts[u] \in Nat /\ frame[t].i + 1 \in Nat \ {0}
            /\ frame[t].pos = 0 /\ frame[t].wait = "none"
        BY <1>2, <1>3, <1>5 DEF IInv, GraphOK, Frames, At
      <3>3. f \in Frames
        BY <1>2, <3>2 DEF Frames
      <3>4. f.pc = "store" /\ f.pos = 0 /\ f.wait = "none" /\ f.cur = u
        BY <1>2, <3>2 DEF Frames
      <3>5. Continue(t, f)
        BY <2>2, <3>1
      <3> HIDE DEF f
      <3> QED BY <1>1, <3>3, <3>4, <3>5, PlainContinue
    <2> QED BY <1>5, <2>1, <2>2 DEF NextNode, HasNext
  <1>6. CASE At(t, "sync", "iter") /\ Return(t)
    BY <1>1, <1>2, <1>6, ReturnLoop, QuietStep
  <1>7. ASSUME At(t, "sync", "store"), Continue(t, [frame[t] EXCEPT !.pc = "iter"])
        PROVE  IInv'
    <2> DEFINE f == [frame[t] EXCEPT !.pc = "iter"]
    <2>1. f \in Frames /\ f.pc = "iter" /\ f.pos = 0 /\ f.wait = "none"
      BY <1>2, <1>3, <1>7 DEF Frames, At
    <2>2. Continue(t, f)
      BY <1>7
    <2> HIDE DEF f
    <2> QED BY <1>1, <2>1, <2>2, PlainContinue
  <1>8. ASSUME At(t, "sync", "store"), frame[t].n # 0,
               Await(t, [frame[t] EXCEPT !.wait = "store", !.n = @ - 1, !.from = cpg])
        PROVE  IInv'
    <2> DEFINE f == [frame[t] EXCEPT !.wait = "store", !.n = frame[t].n - 1, !.from = cpg]
    <2>1. frame[t].n - 1 \in Nat /\ frame[t].cur \in Unit /\ cpg \in Nat
      BY <1>2, <1>8 DEF LocalsOK, At, IInv, CountersOK
    <2>2. /\ f \in Frames /\ f.pc = "store" /\ f.pos = 0 /\ f.wait = "store"
          /\ f.cur = frame[t].cur
      BY <1>2, <1>3, <1>8, <2>1 DEF Frames, At
    <2>3. Await(t, f)
      BY <1>8
    <2> HIDE DEF f
    <2> QED BY <1>1, <2>1, <2>2, <2>3, PlainAwait
  <1> QED BY <1>4, <1>5, <1>6, <1>7, <1>8 DEF SyncBackend

LEMMA TagStoredStep ==
  ASSUME IInv, NEW t \in Task, TagStored(t)
  PROVE  IInv'
  <1> DEFINE f == [frame[t] EXCEPT !.wait = "none"]
  <1>1. /\ running = NoTask /\ frame[t].wait = "store" /\ Continue(t, f)
        /\ tags' \in {tags, [tags EXCEPT ![frame[t].cur] = tags[frame[t].cur] + 1]}
        /\ UNCHANGED <<graph, loaded, cpg, requests>>
    BY DEF TagStored, Answered
  <1>2. /\ LoopOK /\ MaySettle(t) /\ frame[t] \in Frames
        /\ LocalsOK(script[t][1], frame[t])
    BY <1>1, AnsweredTask DEF IInv
  <1>3. /\ f \in Frames /\ f.wait = "none" /\ f.pc = frame[t].pc /\ f.left = frame[t].left
        /\ f.cur = frame[t].cur /\ f.tgt = frame[t].tgt /\ f.pos = frame[t].pos
    BY <1>2 DEF Frames
  <1> HIDE DEF f
  <1>4. LocalsOK(script[t][1], f) /\ f.pc # "adding"
    BY <1>1, <1>2, <1>3 DEF LocalsOK
  <1>5. LoopOK' /\ KindProgress'
    BY <1>1, <1>2, <1>3, <1>4, ContinueLoop
  <1>6. CountersOK'
    <2>1. tags \in [Unit -> Nat] /\ cpg \in Nat \ {0} /\ requests \in 0..MaxRequests
      BY DEF IInv, CountersOK
    <2>2. CASE frame[t].cur \in Unit
      BY <1>1, <2>1, <2>2 DEF CountersOK
    <2>3. CASE frame[t].cur \notin Unit
      <3>1. tags' = tags
        BY <1>1, <2>1, <2>3
      <3> QED BY <1>1, <2>1, <3>1 DEF CountersOK
    <2> QED BY <2>2, <2>3
  <1>7. GraphOK' /\ LoadedOK'
    BY <1>1, SameGraph, SameLoaded DEF IInv
  <1> QED BY <1>5, <1>6, <1>7 DEF IInv

LEMMA ClearStep ==
  ASSUME IInv, NEW t \in Task, Clear(t)
  PROVE  IInv'
  <1>1. /\ running = t /\ ClearGraph /\ ClearLoaded /\ Return(t)
        /\ UNCHANGED <<backend, requests>>
    BY DEF Clear, At
  <1>2. LoopOK' /\ KindProgress'
    BY <1>1, RunningTask, ReturnLoop DEF IInv
  <1>3. GraphOK'
    BY <1>1, UnitAssumption DEF ClearGraph, GraphOK, IndexMatchesGraph, EdgesSound, InGraph
  <1>4. LoadedOK'
    BY <1>1 DEF ClearLoaded, LoadedOK, LoadedUnitsPresent
  <1> QED BY <1>1, <1>2, <1>3, <1>4, SameCounters DEF IInv

LEMMA ReloadStep ==
  ASSUME IInv, NEW t \in Task, Reload(t)
  PROVE  IInv'
  <1> DEFINE f == [frame[t] EXCEPT !.wait = "reload"]
  <1>1. /\ running = t /\ frame[t].pc = "start" /\ Await(t, f)
        /\ UNCHANGED <<graph, loaded, backend, requests>>
    BY DEF Reload, At
  <1>2. f \in Frames /\ f.pc = "start" /\ f.pos = 0 /\ f.wait = "reload"
    BY <1>1, RunningTask DEF IInv, LocalsOK, Frames
  <1> HIDE DEF f
  <1> QED BY <1>1, <1>2, PlainAwait

LEMMA ReloadedStep ==
  ASSUME IInv, NEW t \in Task, Reloaded(t)
  PROVE  IInv'
  <1>1. /\ running = NoTask /\ frame[t].wait = "reload" /\ Return(t)
        /\ cpg' = cpg + 1 /\ tags' = [u \in Unit |-> 0]
        /\ UNCHANGED <<graph, loaded, requests>>
    BY DEF Reloaded, Answered
  <1>2. LoopOK' /\ KindProgress'
    BY <1>1, AnsweredTask, ReturnLoop DEF IInv
  <1>3. CountersOK'
    BY <1>1 DEF IInv, CountersOK
  <1> QED BY <1>1, <1>2, <1>3, SameGraph, SameLoaded DEF IInv

LEMMA BackendFailsStep ==
  ASSUME IInv, NEW t \in Task, BackendFails(t)
  PROVE  IInv'
  <1>1. /\ running = NoTask /\ frame[t].wait # "none" /\ Raise(t)
        /\ UNCHANGED <<graph, loaded, backend, requests>>
    BY DEF BackendFails, Answered
  <1> QED BY <1>1, AnsweredTask, RaiseLoop, QuietStep DEF IInv

-----------------------------------------------------------------------------
(* A request's script is a non-empty sequence of phases. *)

LEMMA PhasesTyped ==
  /\ \A u \in Unit, op \in {"unit", "location", "fact", "out", "in"} : Phase(op, u) \in Phases
  /\ \A k \in Kind : Phase("kind", k) \in Phases
  /\ \A op \in {"relations", "load_facts", "sync", "reload"} : Phase(op, NoUnit) \in Phases
  /\ \A how \in {"dropped", "synced"} : Phase("clear", how) \in Phases
  BY DEF Phase, Phases

LEMMA PreloadTyped == Preload \in Seq(Phases)
  <1> DEFINE kinds == [i \in 1..Len(PreloadKinds) |-> Phase("kind", PreloadKinds[i])]
             others == <<Phase("relations", NoUnit), Phase("load_facts", NoUnit)>>
  <1>1. kinds \in Seq(Phases)
    <2>1. /\ Len(PreloadKinds) \in Nat
          /\ \A i \in 1..Len(PreloadKinds) : PreloadKinds[i] \in Kind
      BY UnitAssumption, LenProperties, ElementOfSeq
    <2>2. \A i \in 1..Len(PreloadKinds) : Phase("kind", PreloadKinds[i]) \in Phases
      BY <2>1, PhasesTyped
    <2> QED BY <2>1, <2>2, IsASeq
  <1>2. others \in Seq(Phases)
    BY PhasesTyped
  <1> HIDE DEF kinds, others
  <1>3. kinds \o others \in Seq(Phases)
    BY <1>1, <1>2, ConcatProperties
  <1> QED BY <1>3 DEF Preload, kinds, others

LEMMA ShortScripts ==
  ASSUME NEW p \in Phases, NEW q \in Phases, NEW r \in Phases
  PROVE  /\ <<p>> \in Seq(Phases) /\ <<p>> # <<>>
         /\ <<p, q>> \in Seq(Phases) /\ <<p, q>> # <<>>
         /\ <<p, q, r>> \in Seq(Phases) /\ <<p, q, r>> # <<>>
  OBVIOUS

LEMMA ScriptsTyped ==
  ASSUME NEW name \in DOMAIN Scripts, NEW s \in Scripts[name]
  PROVE  s \in Seq(Phases) /\ s # <<>>
  <1> DEFINE restart == <<Phase("clear", "dropped"), Phase("reload", NoUnit)>>
  <1>1. restart \in Seq(Phases) /\ Len(restart) = 2
    BY PhasesTyped
  <1> HIDE DEF restart
  <1>2. restart \o Preload \in Seq(Phases) /\ restart \o Preload # <<>>
    BY <1>1, PreloadTyped, ConcatProperties, ConcatEqualIffEmpty, EmptySeq
  <1>3. CASE name = "reload"
    BY <1>2, <1>3 DEF Scripts, restart
  <1>4. Preload # <<>>
    BY DEF Preload
  <1>5. CASE name = "preload_from_backend"
    BY <1>4, <1>5, PreloadTyped DEF Scripts
  <1>6. CASE \E p \in Phases : s = <<p>>
    BY <1>6, ShortScripts
  <1>7. CASE \E p, q \in Phases : s = <<p, q>>
    BY <1>7, ShortScripts
  <1>8. CASE \E p, q, r \in Phases : s = <<p, q, r>>
    BY <1>8, ShortScripts
  <1>9. CASE name = "get_unit"
    <2>1. PICK u \in Unit : s = <<Phase("unit", u)>>
      BY <1>9 DEF Scripts
    <2> QED BY <2>1, <1>6, PhasesTyped
  <1>10. CASE name = "fetch_unit"
    <2>1. PICK u \in Real : s = <<Phase("location", u)>>
      BY <1>10 DEF Scripts
    <2> QED BY <2>1, <1>6, PhasesTyped, UnitAssumption
  <1>11. CASE name = "get_all_units_by_kind"
    <2>1. PICK k \in Kind : s = <<Phase("kind", k)>>
      BY <1>11 DEF Scripts
    <2> QED BY <2>1, <1>6, PhasesTyped
  <1>12. CASE name = "add_unit_fact"
    <2>1. PICK u \in Unit : s = <<Phase("fact", u)>>
      BY <1>12 DEF Scripts
    <2> QED BY <2>1, <1>6, PhasesTyped
  <1>13. CASE name \in {"get_all_relations_by_kind", "load_facts", "sync_backend"}
    <2>1. PICK op \in {"relations", "load_facts", "sync"} : s = <<Phase(op, NoUnit)>>
      BY <1>13 DEF Scripts
    <2> QED BY <2>1, <1>6, PhasesTyped
  <1>14. CASE name = "cleanup"
    <2>1. \/ s = <<Phase("clear", "dropped")>>
          \/ s = <<Phase("sync", NoUnit), Phase("clear", "synced")>>
      BY <1>14 DEF Scripts
    <2> QED BY <2>1, <1>6, <1>7, PhasesTyped
  <1>15. CASE name = "get_related_units"
    <2>1. PICK u \in Unit : s \in {<<Phase("unit", u), Phase("out", u)>>,
                                  <<Phase("unit", u), Phase("in", u)>>,
                                  <<Phase("unit", u), Phase("out", u), Phase("in", u)>>}
      BY <1>15 DEF Scripts
    <2> QED BY <2>1, <1>7, <1>8, PhasesTyped
  <1>16. DOMAIN Scripts = {"get_unit", "fetch_unit", "get_all_units_by_kind",
            "get_all_relations_by_kind", "get_related_units", "add_unit_fact", "load_facts",
            "preload_from_backend", "sync_backend", "reload", "cleanup"}
    BY DEF Scripts
  <1> QED BY <1>3, <1>5, <1>9, <1>10, <1>11, <1>12, <1>13, <1>14, <1>15, <1>16

LEMMA HandleRequestStep ==
  ASSUME IInv, NEW t \in Task, HandleRequest(t)
  PROVE  IInv'
  <1>1. PICK name \in Offered : \E s \in Scripts[name] : script' = [script EXCEPT ![t] = s]
    BY DEF HandleRequest
  <1>2. PICK s \in Scripts[name] : script' = [script EXCEPT ![t] = s]
    BY <1>1
  <1>3. s \in Seq(Phases) /\ s # <<>>
    BY OfferedAssumption, ScriptsTyped
  <1>4. /\ running = NoTask /\ script[t] = <<>> /\ requests < MaxRequests
        /\ running' = t /\ requests' = requests + 1
        /\ UNCHANGED <<graph, loaded, backend, frame, reply>>
    BY DEF HandleRequest
  <1>5. LoopOK /\ frame[t] = Fresh /\ Fresh.wait = "none" /\ Fresh.pc # "adding"
    BY <1>4 DEF IInv, LoopOK, Fresh
  <1>6. /\ script' \in [Task -> Seq(Phases)] /\ script'[t] = s
        /\ \A u \in Task : u # t => script'[u] = script[u]
    BY <1>2, <1>3, <1>5 DEF LoopOK
  <1>7. ASSUME NEW u \in Task
        PROVE  /\ script'[u] = <<>> => frame[u] = Fresh
               /\ script'[u] # <<>> => LocalsOK(script'[u][1], frame[u])
               /\ t = u <=> script'[u] # <<>> /\ frame[u].wait = "none"
    <2>1. CASE u = t
      BY <2>1, <1>3, <1>5, <1>6, FreshOK
    <2>2. CASE u # t
      BY <2>2, <1>4, <1>5, <1>6, UnitAssumption DEF LoopOK
    <2> QED BY <2>1, <2>2
  <1>8. LoopOK'
    <2>1. ASSUME NEW u \in Task
          PROVE  LocalsOK(script[u][1], frame[u])' <=> LocalsOK(script'[u][1], frame[u])
      BY <1>4 DEF LocalsOK, Neighbours, UnitsOf
    <2> QED BY <1>4, <1>5, <1>6, <1>7, <2>1 DEF LoopOK
  <1>9. KindProgress'
    BY <1>4, <1>5 DEF KindProgress
  <1>10. CountersOK'
    BY <1>4, UnitAssumption DEF IInv, CountersOK, backend
  <1> QED BY <1>4, <1>8, <1>9, <1>10, SameGraph, SameLoaded DEF IInv

-----------------------------------------------------------------------------
(* The theorems. *)

LEMMA InitIInv == Init => IInv
  <1> SUFFICES ASSUME Init PROVE IInv
    OBVIOUS
  <1>1. LoopOK
    <2>1. <<>> \in Seq(Phases)
      OBVIOUS
    <2> QED BY <2>1, FreshOK, UnitAssumption DEF Init, LoopOK
  <1>2. GraphOK
    BY UnitAssumption DEF Init, GraphOK, IndexMatchesGraph, EdgesSound, InGraph
  <1>3. LoadedOK
    BY DEF Init, LoadedOK, LoadedUnitsPresent
  <1>4. CountersOK
    BY UnitAssumption DEF Init, CountersOK
  <1>5. KindProgress
    BY UnitAssumption DEF Init, KindProgress
  <1> QED BY <1>1, <1>2, <1>3, <1>4, <1>5 DEF IInv

LEMMA NextIInv == IInv /\ [Next]_vars => IInv'
  <1> SUFFICES ASSUME IInv, [Next]_vars PROVE IInv'
    OBVIOUS
  <1>1. CASE UNCHANGED vars
    <2>1. UNCHANGED <<graph, loaded, backend, loop, requests>>
      BY <1>1 DEF vars
    <2>2. LoopOK'
      <3>1. ASSUME NEW u \in Task
            PROVE  LocalsOK(script[u][1], frame[u])' <=> LocalsOK(script[u][1], frame[u])
        BY <2>1 DEF loop, LocalsOK, Neighbours, UnitsOf
      <3> QED BY <2>1, <3>1 DEF IInv, LoopOK, loop
    <2>3. KindProgress'
      BY <2>1 DEF IInv, KindProgress, loop, graph, Arg, Present, InGraph, UnitsOf
    <2> QED BY <2>1, <2>2, <2>3, QuietStep
  <1>2. CASE Next
    <2>1. PICK t \in Task : HandleRequest(t) \/ Step(t) \/ Arrival(t)
      BY <1>2 DEF Next
    <2>2. CASE HandleRequest(t)
      BY <2>2, HandleRequestStep
    <2>3. CASE Step(t)
      BY <2>3, GetUnitStep, FetchUnitStep, GetAllUnitsByKindStep, AddUnitsOfKindStep,
         GetRelatedUnitsStep, GetAllRelationsByKindStep, LinkStep, AddUnitFactStep,
         LoadFactsStep, SyncBackendStep, ClearStep, ReloadStep DEF Step
    <2>4. CASE Arrival(t)
      BY <2>4, UnitArrivesStep, LocationArrivesStep, AnswerArrivesStep, TagStoredStep,
         ReloadedStep, BackendFailsStep DEF Arrival
    <2> QED BY <2>1, <2>2, <2>3, <2>4
  <1> QED BY <1>1, <1>2

\* The invariant of any number of interleaved handlers.
THEOREM Invariance == Spec => []IInv
  BY InitIInv, NextIInv, PTL DEF Spec

\* Every variable keeps its type, and only a task with a request awaits.
THEOREM TypeCorrect == Spec => []TypeOK
  <1>1. ASSUME IInv PROVE TypeOK
    <2>1. \A t \in Task : frame[t].wait # "none" => script[t] # <<>>
      BY <1>1 DEF IInv, LoopOK, Fresh
    <2> QED BY <1>1, <2>1 DEF IInv, LoopOK, GraphOK, LoadedOK, CountersOK, TypeOK
  <1> QED BY <1>1, Invariance, PTL

\* _type_index never disagrees with the graph, however many handlers add units
\* and clear the view between each other's awaits.
THEOREM IndexAgrees == Spec => []IndexMatchesGraph
  <1>1. IInv => IndexMatchesGraph
    BY DEF IInv, GraphOK
  <1> QED BY <1>1, Invariance, PTL

\* A loaded flag never hides a unit: what _loaded_units and
\* _loaded_unit_kinds say need not be asked for again is in the graph.
THEOREM LoadedFlagsHideNothing == Spec => []LoadedUnitsPresent
  <1>1. IInv => LoadedUnitsPresent
    BY DEF IInv, LoadedOK
  <1> QED BY <1>1, Invariance, PTL

\* The graph never shows a relation the backend does not have.
THEOREM NoInventedRelation == Spec => []EdgesSound
  <1>1. IInv => EdgesSound
    BY DEF IInv, GraphOK
  <1> QED BY <1>1, Invariance, PTL

-----------------------------------------------------------------------------
(* What the finding about the facts leaves true.                            *)

FactsOnUnits == \A u \in Unit : facts[u] # 0 => Present(u)

NoFactLost == \A u \in Unit : facts'[u] >= facts[u]

\* _add_unit is called for a unit the graph already has: by the answer to a look-up
\* that another handler has overtaken, or by the load of a kind.
ReAdded(t) ==
    /\ UnitArrives(t) \/ AddUnitsOfKind(t)
    /\ \E u \in Unit : Present(u) /\ \A w \in Unit \ {u} : facts'[w] = facts[w]

LEMMA PresentUnits ==
  ASSUME GraphOK, NEW u \in Unit
  PROVE  Present(u) <=> version[u] # 0
  BY DEF GraphOK, IndexMatchesGraph, Present

LEMMA SameFacts ==
  ASSUME GraphOK, GraphOK', FactsOnUnits, UNCHANGED <<version, facts>>
  PROVE  FactsOnUnits' /\ NoFactLost
  <1>1. \A u \in Unit : Present(u) => Present(u)'
    BY PresentUnits DEF GraphOK, IndexMatchesGraph, Present
  <1>2. FactsOnUnits'
    BY <1>1 DEF FactsOnUnits
  <1>3. NoFactLost
    BY DEF NoFactLost, GraphOK
  <1> QED BY <1>2, <1>3

LEMMA SameGraphFacts ==
  ASSUME GraphOK, GraphOK', FactsOnUnits, UNCHANGED graph
  PROVE  FactsOnUnits' /\ NoFactLost
  BY SameFacts DEF graph

\* Whatever _add_unit drops belongs to the unit it adds.
LEMMA AddUnitFacts ==
  ASSUME GraphOK, GraphOK', FactsOnUnits, NEW u \in Unit, NEW v \in Nat \ {0}, AddUnit(u, v)
  PROVE  /\ FactsOnUnits'
         /\ \A w \in Unit \ {u} : facts'[w] = facts[w]
         /\ ~Present(u) => NoFactLost
  <1>1. /\ version' = [version EXCEPT ![u] = v]
        /\ facts' = [facts EXCEPT ![u] = 0]
        /\ facts \in [Unit -> Nat] /\ version \in [Unit -> Nat]
    BY DEF AddUnit, GraphOK
  <1>2. facts'[u] = 0 /\ \A w \in Unit \ {u} : facts'[w] = facts[w]
    BY <1>1
  <1>3. FactsOnUnits'
    <2>1. PresentKept
      BY AddUnitGraph
    <2> QED BY <1>2, <2>1 DEF FactsOnUnits, PresentKept
  <1>4. ASSUME ~Present(u) PROVE NoFactLost
    <2>1. facts[u] = 0
      BY <1>4 DEF FactsOnUnits
    <2> QED BY <1>1, <1>2, <2>1 DEF NoFactLost
  <1> QED BY <1>2, <1>3, <1>4

LEMMA AppendFactFacts ==
  ASSUME GraphOK, FactsOnUnits, NEW u \in Unit, Present(u), AppendFact(u)
  PROVE  FactsOnUnits' /\ NoFactLost
  <1>1. facts' = [facts EXCEPT ![u] = facts[u] + 1] /\ facts \in [Unit -> Nat]
    BY DEF AppendFact, GraphOK
  <1>2. PresentKept
    BY AppendFactGraph
  <1>3. FactsOnUnits'
    BY <1>1, <1>2 DEF FactsOnUnits, PresentKept
  <1> QED BY <1>1, <1>3 DEF NoFactLost

LEMMA ObtainFacts ==
  ASSUME GraphOK, GraphOK', FactsOnUnits, NEW t, NEW u, NEW f, Obtain(t, u, f)
  PROVE  FactsOnUnits' /\ NoFactLost
  BY SameGraphFacts DEF Obtain, Fetch

LEMMA StepFacts ==
  ASSUME IInv, IInv', FactsOnUnits, NEW t \in Task, HandleRequest(t) \/ Step(t) \/ Arrival(t)
  PROVE  FactsOnUnits' /\ (ClearGraph \/ NoFactLost \/ ReAdded(t))
  <1>1. GraphOK /\ GraphOK' /\ LoopOK
    BY DEF IInv
  <1>2. CASE HandleRequest(t) \/ FetchUnit(t) \/ GetAllUnitsByKind(t) \/ GetAllRelationsByKind(t)
    BY <1>1, <1>2, SameGraphFacts
       DEF HandleRequest, FetchUnit, GetAllUnitsByKind, GetAllRelationsByKind
  <1>3. CASE SyncBackend(t) \/ Reload(t) \/ AnswerArrives(t) \/ TagStored(t) \/ Reloaded(t)
    BY <1>1, <1>3, SameGraphFacts DEF SyncBackend, Reload, AnswerArrives, TagStored, Reloaded
  <1>4. CASE BackendFails(t)
    BY <1>1, <1>4, SameGraphFacts DEF BackendFails
  <1>5. CASE GetUnit(t) \/ GetRelatedUnits(t)
    BY <1>1, <1>5, SameGraphFacts, ObtainFacts DEF GetUnit, GetRelatedUnits
  <1>6. CASE Link(t)
    <2>1. CASE UNCHANGED graph
      BY <1>1, <2>1, SameGraphFacts
    <2>2. CASE AddEdge(Source(t), Target(t))
      BY <1>1, <2>2, SameFacts DEF AddEdge
    <2>3. CASE Obtain(t, LookedUp(t), [frame[t] EXCEPT !.pos = @ + 1])
      BY <1>1, <2>3, ObtainFacts
    <2> QED BY <1>6, <2>1, <2>2, <2>3 DEF Link
  <1>7. CASE AddUnitFact(t)
    <2>1. running = t /\ Op(t) = "fact"
      BY <1>7 DEF AddUnitFact, At
    <2>2. Arg(t) \in Unit
      BY <1>1, <2>1, RunningTask, PhaseArg DEF Op, Arg
    <2>3. CASE Present(Arg(t)) /\ AppendFact(Arg(t))
      BY <1>1, <2>2, <2>3, AppendFactFacts
    <2>4. CASE Obtain(t, Arg(t), Fresh)
      BY <1>1, <2>4, ObtainFacts
    <2> QED BY <1>7, <2>3, <2>4 DEF AddUnitFact
  <1>8. CASE LoadFacts(t)
    <2>1. CASE UNCHANGED graph
      BY <1>1, <2>1, SameGraphFacts
    <2>2. CASE At(t, "load_facts", "append") /\ Present(frame[t].cur) /\ AppendFact(frame[t].cur)
      <3>1. frame[t].cur \in Unit
        BY <1>1, <2>2, RunningTask DEF At, LocalsOK
      <3> QED BY <1>1, <2>2, <3>1, AppendFactFacts
    <2>3. CASE Obtain(t, frame[t].cur, frame[t])
      BY <1>1, <2>3, ObtainFacts
    <2> QED BY <1>8, <2>1, <2>2, <2>3 DEF LoadFacts
  <1>9. CASE Clear(t)
    <2>1. ClearGraph
      BY <1>9 DEF Clear
    <2> QED BY <2>1 DEF ClearGraph, FactsOnUnits
  <1>10. CASE UnitArrives(t)
    <2>1. running = NoTask /\ frame[t].wait = "unit"
      BY <1>10 DEF UnitArrives, Answered
    <2>2. PICK u \in Unit : u = frame[t].need
      BY <1>1, <2>1, AnsweredTask DEF LocalsOK
    <2>3. frame[t].from \in Nat \ {0}
      BY <1>1, <2>1, AnsweredTask DEF LocalsOK, Frames
    <2>4. CASE AddUnit(u, frame[t].from)
      BY <1>1, <1>10, <2>3, <2>4, AddUnitFacts DEF ReAdded
    <2>5. CASE UNCHANGED graph
      BY <1>1, <2>5, SameGraphFacts
    <2> QED BY <1>10, <2>2, <2>4, <2>5 DEF UnitArrives
  <1>11. CASE LocationArrives(t)
    <2>1. running = NoTask /\ frame[t].wait = "location"
      BY <1>11 DEF LocationArrives, Answered
    <2>2. Arg(t) \in Unit /\ frame[t].from \in Nat \ {0}
      BY <1>1, <2>1, AnsweredTask, PhaseArg DEF LocalsOK, Arg, Frames
    <2>3. CASE ~Present(Arg(t)) /\ AddUnit(Arg(t), frame[t].from)
      BY <1>1, <2>2, <2>3, AddUnitFacts
    <2>4. CASE UNCHANGED graph
      BY <1>1, <2>4, SameGraphFacts
    <2> QED BY <1>11, <2>3, <2>4 DEF LocationArrives, Present
  <1>12. CASE AddUnitsOfKind(t)
    <2>1. running = t /\ frame[t].pc = "adding"
      BY <1>12 DEF AddUnitsOfKind, At
    <2>2. frame[t].from \in Nat \ {0} /\ frame[t].left \subseteq Unit
      BY <1>1, <2>1, RunningTask DEF LocalsOK, Frames
    <2>3. CASE \E u \in frame[t].left : AddUnit(u, frame[t].from)
      BY <1>1, <1>12, <2>2, <2>3, AddUnitFacts DEF ReAdded
    <2>4. CASE UNCHANGED graph
      BY <1>1, <2>4, SameGraphFacts
    <2> QED BY <1>12, <2>3, <2>4 DEF AddUnitsOfKind
  <1> QED BY <1>2, <1>3, <1>4, <1>5, <1>6, <1>7, <1>8, <1>9, <1>10, <1>11, <1>12
          DEF Step, Arrival

LEMMA FactsOnUnitsInvariance == Spec => []FactsOnUnits
  <1>1. Init => FactsOnUnits
    BY DEF Init, FactsOnUnits
  <1>2. ASSUME IInv, IInv', FactsOnUnits, [Next]_vars PROVE FactsOnUnits'
    <2>1. CASE Next
      BY <1>2, <2>1, StepFacts DEF Next
    <2>2. CASE UNCHANGED vars
      BY <1>2, <2>2 DEF vars, graph, FactsOnUnits, Present, InGraph
    <2> QED BY <1>2, <2>1, <2>2
  <1> QED BY <1>1, <1>2, Invariance, PTL DEF Spec

\* The exact extent of the loss that the run of FactsKept shows: but for a clear, a fact
\* is lost only when _add_unit is called for a unit that is in the graph, and then
\* only by that unit.
FactsLostByReAdding ==
    [][ClearGraph \/ NoFactLost \/ \E t \in Task : ReAdded(t)]_vars

THEOREM FactsLostOnlyByReAdding == Spec => FactsLostByReAdding
  <1>1. ASSUME IInv, IInv', FactsOnUnits, Next
        PROVE  ClearGraph \/ NoFactLost \/ \E t \in Task : ReAdded(t)
    BY <1>1, StepFacts DEF Next
  <1>2. IInv /\ IInv' /\ FactsOnUnits /\ [Next]_vars =>
            [ClearGraph \/ NoFactLost \/ \E t \in Task : ReAdded(t)]_vars
    BY <1>1
  <1> QED BY <1>2, FactsOnUnitsInvariance, Invariance, PTL DEF Spec, FactsLostByReAdding

\* ... so that the claim which that run refutes holds of callers that add no unit twice.
THEOREM FactsKeptUnlessReAdded ==
  Spec /\ [][\A t \in Task : ~ReAdded(t)]_vars => FactsKept
  <1>1. [ClearGraph \/ NoFactLost \/ \E t \in Task : ReAdded(t)]_vars
            /\ [\A t \in Task : ~ReAdded(t)]_vars =>
            [ClearGraph \/ \A u \in Unit : facts'[u] >= facts[u]]_vars
    BY DEF NoFactLost
  <1> QED BY <1>1, FactsLostOnlyByReAdding, PTL DEF FactsLostByReAdding, FactsKept
=============================================================================
