------------------------------- MODULE IRView -------------------------------
(***************************************************************************)
(* The in-memory code graph of AuditZoo (auditzoo/core/ir/view.py) behind  *)
(* the ir.* request handlers of IRStorageAgent.                            *)
(*                                                                         *)
(* Handlers are coroutines on one asyncio event loop.  A coroutine keeps   *)
(* the loop until it awaits the backend: `running' is the task that holds  *)
(* the loop, and only it may step; every await releases the loop, and the  *)
(* answer is delivered at some later moment at which the loop is free.     *)
(* The backend executes queries in the order it receives them, so an       *)
(* answer is computed from the CPG that was current when it was asked for. *)
(*                                                                         *)
(* A request is a script, a sequence of phases; one phase is one coroutine *)
(* of the view that the handler awaits.                                    *)
(***************************************************************************)
EXTENDS Naturals, Sequences

CONSTANTS
    Task,          \* request slots: how many handlers may be in flight
    Unit,          \* code unit ids that requests name
    Kind,          \* code unit kinds
    kindOf,        \* [Unit -> Kind]
    Real,          \* the units the backend knows; the others look up to None
    Related,       \* the backend's relation, pairs of real units
    PreloadKinds,  \* the kinds preload_from_backend loads, in order
    Offered,       \* names of the requests this instance issues
    MaxRequests,   \* bound: requests issued in a behaviour
    Stored,        \* [Unit -> Nat], fact tags an earlier session left in the CPG
    NoTask, NoUnit

ASSUME UnitAssumption ==
    /\ kindOf \in [Unit -> Kind]
    /\ Real \subseteq Unit
    /\ Related \subseteq Real \X Real
    /\ PreloadKinds \in Seq(Kind)
    /\ NoTask \notin Task
    /\ NoUnit \notin Unit
    /\ MaxRequests \in Nat
    /\ Stored \in [Unit -> Nat]

VARIABLES
    \* the view
    nodes,          \* node ids in insertion order (a Python dict)
    version,        \* the CPG a node's "unit" attribute came from; 0: no attribute
    facts,          \* how many unit facts a node carries
    index,          \* _type_index
    edges,          \* edges of the relation kind, as <<source, target>>
    loadedUnits, loadedKinds, loadedRelations, relationKindLoaded,
    \* the backend
    cpg,            \* number of the CPG now loaded
    tags,           \* how many fact tags the CPG stores for a unit
    \* the event loop
    running,        \* the task that holds the loop, or NoTask
    script,         \* per task, the phases still to do; <<>> when idle
    frame,          \* per task, the locals of the coroutine in progress
    reply,          \* per task, how the last request was answered
    requests        \* requests issued so far

graph == <<nodes, version, facts, index, edges>>
loaded == <<loadedUnits, loadedKinds, loadedRelations, relationKindLoaded>>
backend == <<cpg, tags>>
loop == <<running, script, frame, reply>>
vars == <<graph, loaded, backend, loop, requests>>

-----------------------------------------------------------------------------
(* Requests and their scripts. *)

Phase(op, arg) == [op |-> op, arg |-> arg]

\* preload_from_backend: the kinds first, then the relations, then the facts.
Preload ==
    [i \in 1..Len(PreloadKinds) |-> Phase("kind", PreloadKinds[i])]
        \o <<Phase("relations", NoUnit), Phase("load_facts", NoUnit)>>

Scripts == [
    get_unit |-> {<<Phase("unit", u)>> : u \in Unit},
    fetch_unit |-> {<<Phase("location", u)>> : u \in Real},
    get_all_units_by_kind |-> {<<Phase("kind", k)>> : k \in Kind},
    get_all_relations_by_kind |-> {<<Phase("relations", NoUnit)>>},
    get_related_units |->
        UNION {{<<Phase("unit", u), Phase("out", u)>>,
                <<Phase("unit", u), Phase("in", u)>>,
                <<Phase("unit", u), Phase("out", u), Phase("in", u)>>} : u \in Unit},
    add_unit_fact |-> {<<Phase("fact", u)>> : u \in Unit},
    load_facts |-> {<<Phase("load_facts", NoUnit)>>},
    preload_from_backend |-> {Preload},
    sync_backend |-> {<<Phase("sync", NoUnit)>>},
    reload |-> {<<Phase("clear", "dropped"), Phase("reload", NoUnit)>> \o Preload},
    cleanup |-> {<<Phase("clear", "dropped")>>,
                 <<Phase("sync", NoUnit), Phase("clear", "synced")>>}]

ASSUME OfferedAssumption == Offered \subseteq DOMAIN Scripts

Fresh == [pc |-> "start", wait |-> "none", need |-> NoUnit, from |-> 0,
          cur |-> NoUnit, tgt |-> NoUnit, pos |-> 0, left |-> {},
          i |-> 1, size |-> 0, n |-> 0]

Op(t) == script[t][1].op
Arg(t) == script[t][1].arg

-----------------------------------------------------------------------------
(* The event loop: how a step of task t hands the loop on. *)

\* (mutant) the query blocks the event loop
AwaitBlocking(t, f) ==
    /\ frame' = [frame EXCEPT ![t] = f]
    /\ running' = t
    /\ UNCHANGED <<script, reply>>

\* t awaits the backend with locals f.
Await(t, f) ==
    /\ frame' = [frame EXCEPT ![t] = f]
    /\ running' = NoTask
    /\ UNCHANGED <<script, reply>>

\* t goes on with locals f.
Continue(t, f) ==
    /\ frame' = [frame EXCEPT ![t] = f]
    /\ running' = t
    /\ UNCHANGED <<script, reply>>

\* The phase returned: go on with the next one, or answer the request.
Return(t) ==
    /\ script' = [script EXCEPT ![t] = Tail(@)]
    /\ frame' = [frame EXCEPT ![t] = Fresh]
    /\ IF Len(script[t]) = 1
       THEN running' = NoTask /\ reply' = [reply EXCEPT ![t] = "ok"]
       ELSE running' = t /\ UNCHANGED reply

\* (mutant) the failed handler's locals stay behind
RaiseLeavingFrame(t) ==
    /\ script' = [script EXCEPT ![t] = <<>>]
    /\ running' = NoTask
    /\ reply' = [reply EXCEPT ![t] = "fail"]
    /\ UNCHANGED frame

\* The phase raised (or found nothing): the handler answers Response.fail.
Raise(t) ==
    /\ script' = [script EXCEPT ![t] = <<>>]
    /\ frame' = [frame EXCEPT ![t] = Fresh]
    /\ running' = NoTask
    /\ reply' = [reply EXCEPT ![t] = "fail"]

At(t, op, pc) ==
    /\ running = t
    /\ script[t] # <<>>
    /\ Op(t) = op
    /\ frame[t].pc = pc

Answered(t, wait) ==
    /\ running = NoTask
    /\ frame[t].wait = wait

-----------------------------------------------------------------------------
(* The graph. *)

InGraph(u) == \E i \in 1..Len(nodes) : nodes[i] = u

\* The node exists and carries a CodeUnit: get_unit answers without awaiting.
Present(u) == InGraph(u) /\ version[u] # 0

\* get_unit asks the backend.
MustFetch(u) == ~InGraph(u) /\ u \notin loadedUnits

\* get_unit gives None, or the node has no "unit" attribute (KeyError).
Unobtainable(u) == ~Present(u) /\ ~MustFetch(u)

\* _add_unit: the node's attributes are set afresh, its facts included.
AddUnit(u, v) ==
    /\ nodes' = IF InGraph(u) THEN nodes ELSE Append(nodes, u)
    /\ version' = [version EXCEPT ![u] = v]
    /\ facts' = [facts EXCEPT ![u] = 0]
    /\ index' = [index EXCEPT ![kindOf[u]] = @ \cup {u}]
    /\ UNCHANGED edges

\* (mutant) one edge per target, as in a graph without parallel relations
AddEdgeReplacing(s, d) ==
    /\ edges' = {e \in edges : e[2] # d} \cup {<<s, d>>}
    /\ UNCHANGED <<nodes, version, facts, index>>

\* networkx add_edge: endpoints that are missing appear as bare nodes.
AddEdge(s, d) ==
    LET add(seq, u) == IF \E i \in 1..Len(seq) : seq[i] = u THEN seq ELSE Append(seq, u)
    IN  /\ nodes' = add(add(nodes, s), d)
        /\ edges' = edges \cup {<<s, d>>}
        /\ UNCHANGED <<version, facts, index>>

\* The units the backend lists as related to u in one direction.
Neighbours(u, dir) ==
    IF dir = "in" THEN {v \in Unit : <<v, u>> \in Related}
                  ELSE {v \in Unit : <<u, v>> \in Related}

\* await backend.get_code_unit(u), the rest of the frame kept for afterwards
Fetch(t, u) ==
    /\ Await(t, [frame[t] EXCEPT !.wait = "unit", !.need = u, !.from = cpg])
    /\ UNCHANGED <<graph, loaded>>

\* The coroutine needs node u: it goes on with f, waits for u, or gives up.
Obtain(t, u, f) ==
    \/ Present(u) /\ Continue(t, f) /\ UNCHANGED <<graph, loaded>>
    \/ MustFetch(u) /\ Fetch(t, u)
    \/ Unobtainable(u) /\ Raise(t) /\ UNCHANGED <<graph, loaded>>

-----------------------------------------------------------------------------
(* get_unit, has_unit, fetch_unit *)

GetUnit(t) ==
    /\ At(t, "unit", "start")
    /\ \/ Present(Arg(t)) /\ Return(t) /\ UNCHANGED <<graph, loaded>>
       \/ ~Present(Arg(t)) /\ Obtain(t, Arg(t), Fresh)
    /\ UNCHANGED <<backend, requests>>

\* The answer to get_code_unit: remember the id was asked for, add the unit.
UnitArrives(t) ==
    /\ Answered(t, "unit")
    /\ LET u == frame[t].need
       IN  /\ IF u \in Real THEN AddUnit(u, frame[t].from) ELSE UNCHANGED graph
           /\ loadedUnits' = loadedUnits \cup {u}
           /\ Continue(t, [frame[t] EXCEPT !.wait = "none", !.need = NoUnit])
    /\ UNCHANGED <<loadedKinds, loadedRelations, relationKindLoaded, backend, requests>>

FetchUnit(t) ==
    /\ At(t, "location", "start")
    /\ Await(t, [frame[t] EXCEPT !.wait = "location", !.from = cpg])
    /\ UNCHANGED <<graph, loaded, backend, requests>>

LocationArrives(t) ==
    /\ Answered(t, "location")
    /\ IF InGraph(Arg(t)) THEN UNCHANGED graph ELSE AddUnit(Arg(t), frame[t].from)
    /\ Return(t)
    /\ UNCHANGED <<loaded, backend, requests>>

-----------------------------------------------------------------------------
(* get_all_units_by_kind *)

GetAllUnitsByKind(t) ==
    /\ At(t, "kind", "start")
    /\ IF Arg(t) \in loadedKinds
       THEN Return(t)
       ELSE Await(t, [frame[t] EXCEPT !.pc = "adding", !.wait = "kind", !.from = cpg,
                                      !.left = {u \in Real : kindOf[u] = Arg(t)}])
    /\ UNCHANGED <<graph, loaded, backend, requests>>

\* for unit in units: self._add_unit(unit), then mark the kind as loaded
AddUnitsOfKind(t) ==
    /\ At(t, "kind", "adding")
    /\ \/ \E u \in frame[t].left :
             /\ AddUnit(u, frame[t].from)
             /\ Continue(t, [frame[t] EXCEPT !.left = @ \ {u}])
             /\ UNCHANGED loadedKinds
       \/ /\ frame[t].left = {}
          /\ loadedKinds' = loadedKinds \cup {Arg(t)}
          /\ Return(t)
          /\ UNCHANGED graph
    /\ UNCHANGED <<loadedUnits, loadedRelations, relationKindLoaded, backend, requests>>

-----------------------------------------------------------------------------
(* get_related_units, get_all_relations_by_kind, _add_relation *)

\* The units the result lists: the far ends of the unit's own edges, or both ends
\* of every edge of the relation kind.
Listed(t) ==
    CASE Op(t) = "out" -> {u \in Unit : <<Arg(t), u>> \in edges}
      [] Op(t) = "in"  -> {u \in Unit : <<u, Arg(t)>> \in edges}
      [] OTHER         -> {e[1] : e \in edges} \cup {e[2] : e \in edges}

\* Build the result list; a node without its unit is a KeyError.
Collect(t) == IF \A u \in Listed(t) : version[u] # 0 THEN Return(t) ELSE Raise(t)

GetRelatedUnits(t) ==
    /\ \E dir \in {"out", "in"} :
        /\ At(t, dir, "start")
        /\ \/ /\ Present(Arg(t))
              /\ IF relationKindLoaded \/ <<Arg(t), dir>> \in loadedRelations
                 THEN Collect(t)
                 ELSE Await(t, [frame[t] EXCEPT !.pc = "link", !.wait = "relations",
                                                !.cur = Arg(t),
                                                !.left = Neighbours(Arg(t), dir)])
              /\ UNCHANGED <<graph, loaded>>
           \/ ~Present(Arg(t)) /\ Obtain(t, Arg(t), Fresh)
    /\ UNCHANGED <<backend, requests>>

\* for source_id in self._graph.nodes: the iterator of a dict raises
\* RuntimeError once the dict's size is not what it was at the start.
\* A node without its unit is a KeyError.
SameSize(t) == Len(nodes) = frame[t].size
NextNode(t) == nodes[frame[t].i]
HasNext(t) == SameSize(t) /\ frame[t].i <= Len(nodes) /\ version[NextNode(t)] # 0
IterationFails(t) ==
    SameSize(t) => frame[t].i <= Len(nodes) /\ version[NextNode(t)] = 0

\* (mutant) the last node is left out
NoNodeLeftEarly(t) == SameSize(t) /\ frame[t].i >= Len(nodes)

NoNodeLeft(t) == SameSize(t) /\ frame[t].i > Len(nodes)

StartIteration(t) == Continue(t, [frame[t] EXCEPT !.pc = "iter", !.size = Len(nodes)])

GetAllRelationsByKind(t) ==
    /\ \/ /\ At(t, "relations", "start")
          /\ IF relationKindLoaded THEN Collect(t) ELSE StartIteration(t)
          /\ UNCHANGED relationKindLoaded
       \/ /\ At(t, "relations", "iter")
          /\ HasNext(t)
          /\ Await(t, [frame[t] EXCEPT !.pc = "link", !.wait = "relations",
                                       !.cur = NextNode(t), !.i = @ + 1,
                                       !.left = Neighbours(NextNode(t), "out")])
          /\ UNCHANGED relationKindLoaded
       \/ /\ At(t, "relations", "iter")
          /\ IterationFails(t)
          /\ Raise(t)
          /\ UNCHANGED relationKindLoaded
       \/ /\ At(t, "relations", "iter")
          /\ NoNodeLeft(t)
          /\ relationKindLoaded' = TRUE
          /\ Collect(t)
    /\ UNCHANGED <<graph, loadedUnits, loadedKinds, loadedRelations, backend, requests>>

\* One target at a time: has_unit(target); then _add_relation, which looks up
\* source and target again (each look-up may await) and adds the edge.
\* (mutant) the direction is not taken into account
SourceIgnoringDirection(t) == frame[t].cur

Source(t) == IF Op(t) = "in" THEN frame[t].tgt ELSE frame[t].cur
Target(t) == IF Op(t) = "in" THEN frame[t].cur ELSE frame[t].tgt
\* (mutant) only the source is looked up
LookedUpSourceOnly(t) == Source(t)

LookedUp(t) == <<frame[t].tgt, Source(t), Target(t)>>[frame[t].pos]

Link(t) ==
    /\ \E op \in {"out", "in", "relations"} : At(t, op, "link")
    /\ \/ /\ frame[t].pos = 0
          /\ \E u \in frame[t].left :
                Continue(t, [frame[t] EXCEPT !.tgt = u, !.left = @ \ {u}, !.pos = 1])
          /\ UNCHANGED <<graph, loaded>>
       \/ /\ frame[t].pos \in 1..3
          /\ Obtain(t, LookedUp(t), [frame[t] EXCEPT !.pos = @ + 1])
       \/ /\ frame[t].pos = 4
          /\ AddEdge(Source(t), Target(t))
          /\ Continue(t, [frame[t] EXCEPT !.pos = 0])
          /\ UNCHANGED loaded
       \/ /\ frame[t].pos = 0 /\ frame[t].left = {}
          /\ Op(t) = "relations"
          /\ Continue(t, [frame[t] EXCEPT !.pc = "iter"])
          /\ UNCHANGED <<graph, loaded>>
       \/ /\ frame[t].pos = 0 /\ frame[t].left = {}
          /\ Op(t) # "relations"
          /\ loadedRelations' = loadedRelations \cup {<<Arg(t), Op(t)>>}
          /\ Collect(t)
          /\ UNCHANGED <<graph, loadedUnits, loadedKinds, relationKindLoaded>>
    /\ UNCHANGED <<backend, requests>>

-----------------------------------------------------------------------------
(* add_unit_fact, load_facts, sync_backend *)

AppendFact(u) ==
    /\ facts' = [facts EXCEPT ![u] = @ + 1]
    /\ UNCHANGED <<nodes, version, index, edges>>

AddUnitFact(t) ==
    /\ At(t, "fact", "start")
    /\ \/ Present(Arg(t)) /\ AppendFact(Arg(t)) /\ Return(t) /\ UNCHANGED loaded
       \/ ~Present(Arg(t)) /\ Obtain(t, Arg(t), Fresh)
    /\ UNCHANGED <<backend, requests>>

\* load_facts walks a list made by get_all_units, not the live dict.
LoadFacts(t) ==
    /\ \/ /\ At(t, "load_facts", "start")
          /\ IF \E i \in 1..Len(nodes) : version[nodes[i]] = 0
             THEN Raise(t)
             ELSE Continue(t, [frame[t] EXCEPT !.pc = "iter",
                                               !.left = {u \in Unit : InGraph(u)}])
          /\ UNCHANGED <<graph, loaded>>
       \/ /\ At(t, "load_facts", "iter")
          /\ \/ \E u \in frame[t].left :
                  Await(t, [frame[t] EXCEPT !.pc = "append", !.wait = "tags", !.cur = u,
                                            !.n = tags[u], !.left = @ \ {u}])
             \/ frame[t].left = {} /\ Return(t)
          /\ UNCHANGED <<graph, loaded>>
       \/ /\ At(t, "load_facts", "append")
          /\ \/ /\ frame[t].n = 0
                /\ Continue(t, [frame[t] EXCEPT !.pc = "iter"])
                /\ UNCHANGED <<graph, loaded>>
             \/ /\ frame[t].n > 0 /\ Present(frame[t].cur)
                /\ AppendFact(frame[t].cur)
                /\ Continue(t, [frame[t] EXCEPT !.n = @ - 1])
                /\ UNCHANGED loaded
             \/ frame[t].n > 0 /\ ~Present(frame[t].cur) /\ Obtain(t, frame[t].cur, frame[t])
    /\ UNCHANGED <<backend, requests>>

\* for node_id in self._graph.nodes: store each fact of a copy of its fact list
SyncBackend(t) ==
    /\ \/ At(t, "sync", "start") /\ StartIteration(t)
       \/ /\ At(t, "sync", "iter")
          /\ HasNext(t)
          /\ Continue(t, [frame[t] EXCEPT !.pc = "store", !.cur = NextNode(t),
                                          !.n = facts[NextNode(t)], !.i = @ + 1])
       \/ At(t, "sync", "iter") /\ IterationFails(t) /\ Raise(t)
       \/ At(t, "sync", "iter") /\ NoNodeLeft(t) /\ Return(t)
       \/ /\ At(t, "sync", "store")
          /\ IF frame[t].n = 0
             THEN Continue(t, [frame[t] EXCEPT !.pc = "iter"])
             ELSE Await(t, [frame[t] EXCEPT !.wait = "store", !.n = @ - 1, !.from = cpg])
    /\ UNCHANGED <<graph, loaded, backend, requests>>

\* set_unit_tag adds a tag node, it never looks for an equal one; what was added
\* to a CPG that has been replaced since is gone with it.
TagStored(t) ==
    /\ Answered(t, "store")
    /\ tags' = IF frame[t].from = cpg THEN [tags EXCEPT ![frame[t].cur] = @ + 1] ELSE tags
    /\ Continue(t, [frame[t] EXCEPT !.wait = "none"])
    /\ UNCHANGED <<graph, loaded, cpg, requests>>

\* The answers that only resume the coroutine.
AnswerArrives(t) ==
    /\ \E wait \in {"kind", "relations", "tags"} : Answered(t, wait)
    /\ Continue(t, [frame[t] EXCEPT !.wait = "none"])
    /\ UNCHANGED <<graph, loaded, backend, requests>>

-----------------------------------------------------------------------------
(* reload, cleanup *)

\* (mutant) _type_index is not cleared
ClearGraphNotIndex ==
    /\ nodes' = <<>>
    /\ version' = [u \in Unit |-> 0]
    /\ facts' = [u \in Unit |-> 0]
    /\ edges' = {}
    /\ UNCHANGED index

\* (mutant) only relations and facts are cleared
ClearGraphNotUnits ==
    /\ facts' = [u \in Unit |-> 0]
    /\ edges' = {}
    /\ UNCHANGED <<nodes, version, index>>

ClearGraph ==
    /\ nodes' = <<>>
    /\ version' = [u \in Unit |-> 0]
    /\ facts' = [u \in Unit |-> 0]
    /\ index' = [k \in Kind |-> {}]
    /\ edges' = {}

\* (mutant) _loaded_units is not cleared
ClearLoadedNotUnits ==
    /\ loadedKinds' = {}
    /\ loadedRelations' = {}
    /\ relationKindLoaded' = FALSE
    /\ UNCHANGED loadedUnits

ClearLoaded ==
    /\ loadedUnits' = {}
    /\ loadedKinds' = {}
    /\ loadedRelations' = {}
    /\ relationKindLoaded' = FALSE

Clear(t) ==
    /\ At(t, "clear", "start")
    /\ ClearGraph
    /\ ClearLoaded
    /\ Return(t)
    /\ UNCHANGED <<backend, requests>>

Reload(t) ==
    /\ At(t, "reload", "start")
    /\ Await(t, [frame[t] EXCEPT !.wait = "reload"])
    /\ UNCHANGED <<graph, loaded, backend, requests>>

\* The backend built a new CPG from the code; the tags of the old one are gone.
Reloaded(t) ==
    /\ Answered(t, "reload")
    /\ cpg' = cpg + 1
    /\ tags' = [u \in Unit |-> 0]
    /\ Return(t)
    /\ UNCHANGED <<graph, loaded, requests>>

-----------------------------------------------------------------------------

Init ==
    /\ nodes = <<>>
    /\ version = [u \in Unit |-> 0]
    /\ facts = [u \in Unit |-> 0]
    /\ index = [k \in Kind |-> {}]
    /\ edges = {} /\ loadedUnits = {} /\ loadedKinds = {} /\ loadedRelations = {}
    /\ relationKindLoaded = FALSE
    /\ cpg = 1
    /\ tags = Stored
    /\ running = NoTask
    /\ script = [t \in Task |-> <<>>]
    /\ frame = [t \in Task |-> Fresh]
    /\ reply = [t \in Task |-> "none"]
    /\ requests = 0

\* A message reaches IRStorageAgent (or a caller uses the view directly).  The
\* handlers take no lock (ir_storage_agent.py:116): a reload or a cleanup may
\* overlap any other request.
HandleRequest(t) ==
    /\ running = NoTask
    /\ script[t] = <<>>
    /\ requests < MaxRequests
    /\ \E name \in Offered : \E s \in Scripts[name] : script' = [script EXCEPT ![t] = s]
    /\ running' = t
    /\ requests' = requests + 1
    /\ UNCHANGED <<graph, loaded, backend, frame, reply>>

\* The backend raises instead of answering.
BackendFails(t) ==
    /\ \E wait \in {"unit", "location", "kind", "relations", "tags", "store", "reload"} :
         Answered(t, wait)
    /\ Raise(t)
    /\ UNCHANGED <<graph, loaded, backend, requests>>

Step(t) ==
    \/ GetUnit(t) \/ FetchUnit(t) \/ GetAllUnitsByKind(t) \/ AddUnitsOfKind(t)
    \/ GetRelatedUnits(t) \/ GetAllRelationsByKind(t) \/ Link(t)
    \/ AddUnitFact(t) \/ LoadFacts(t) \/ SyncBackend(t) \/ Clear(t) \/ Reload(t)

Arrival(t) ==
    \/ UnitArrives(t) \/ LocationArrives(t) \/ AnswerArrives(t) \/ TagStored(t)
    \/ Reloaded(t) \/ BackendFails(t)

Next == \E t \in Task : HandleRequest(t) \/ Step(t) \/ Arrival(t)

Spec == Init /\ [][Next]_vars

\* The loop runs what is ready and the backend answers: something happens as
\* long as some request is unanswered.  New requests need never come.
Fairness == WF_vars(\E t \in Task : Step(t) \/ Arrival(t))

FairSpec == Spec /\ Fairness

-----------------------------------------------------------------------------
(* Properties *)

TypeOK ==
    /\ nodes \in Seq(Unit)
    /\ version \in [Unit -> Nat]
    /\ facts \in [Unit -> Nat]
    /\ index \in [Kind -> SUBSET Unit]
    /\ edges \subseteq Unit \X Unit
    /\ loadedUnits \subseteq Unit
    /\ loadedKinds \subseteq Kind
    /\ loadedRelations \subseteq Unit \X {"out", "in"}
    /\ relationKindLoaded \in BOOLEAN
    /\ cpg \in Nat \ {0}
    /\ tags \in [Unit -> Nat]
    /\ running \in Task \cup {NoTask}
    /\ \A t \in Task : frame[t].wait # "none" => script[t] # <<>>
    /\ reply \in [Task -> {"none", "ok", "fail"}]
    /\ requests \in 0..MaxRequests

\* _type_index and the graph are updated in different statements, and cleared
\* in different statements, by any number of handlers: at every moment the
\* index lists exactly the nodes that carry a unit, each under its own kind.
IndexMatchesGraph ==
    \A u \in Unit :
        /\ version[u] # 0 => InGraph(u)
        /\ \A k \in Kind : u \in index[k] <=> version[u] # 0 /\ k = kindOf[u]

\* The loaded flags stop the view from asking the backend again, so a flag set
\* too early or kept too long hides a unit for ever.  A unit that was asked for
\* by id and exists, and every unit of a loaded kind, is in the graph.
LoadedUnitsPresent ==
    /\ \A u \in loadedUnits \cap Real : Present(u)
    /\ \A k \in loadedKinds : \A u \in Real : kindOf[u] = k => Present(u)

\* However the handlers interleave, the view never shows a relation the backend
\* does not have (in particular not one with source and target swapped).
EdgesSound == edges \subseteq Related

\* get_all_relations_by_kind loads one direction only, "since we track all
\* nodes" (view.py:340): with the relation kind loaded, the graph has the
\* outgoing edges of each of its nodes.
AllNodesTracked ==
    relationKindLoaded => \A e \in Related : Present(e[1]) => e \in edges

\* "Unit facts are stored as node attributes in the graph" (view.py:568) until
\* the view is cleared: no other step may lose a fact.
FactsKept == [][ClearGraph \/ \A u \in Unit : facts'[u] >= facts[u]]_vars

\* Every request is answered: no chain of awaits, look-ups and iterations over
\* a graph others are changing makes a handler wait for ever.
RequestsAnswered == \A t \in Task : script[t] # <<>> ~> script[t] = <<>>
=============================================================================
