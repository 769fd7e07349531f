---------------------------- MODULE IRViewOverlap ----------------------------
(***************************************************************************)
(* What IRView still promises while requests overlap a reload or a         *)
(* cleanup.  The handlers take no lock (ir_storage_agent.py:116), so a     *)
(* coroutine may read the view, await the backend, and go on with what it  *)
(* read after another handler has cleared the view or replaced the CPG.    *)
(*                                                                         *)
(* The history variables record whom that happened to and what came of it; *)
(* they restrict no step of IRView.                                        *)
(***************************************************************************)
EXTENDS IRView

VARIABLES
    overtaken,  \* tasks in a phase during which another task cleared or reloaded
    late,       \* entries of the view that an overtaken phase put there
    dirty       \* per cleanup in progress, units that got a fact after it began

history == <<overtaken, late, dirty>>
hvars == <<vars, history>>

Reloading(s) == s # <<>> /\ s[1].op = "reload"
Clears(s) == \E i \in 1..Len(s) : s[i].op = "clear"

\* What the view holds, apart from the facts.
Entries ==
    {<<"unit", u, version[u]>> : u \in {x \in Unit : version[x] # 0}}
        \cup {<<"edge", e[1], e[2]>> : e \in edges}
        \cup {<<"loaded", m[1], m[2]>> : m \in loadedRelations}
        \cup (IF relationKindLoaded THEN {<<"loaded", NoUnit, "out">>} ELSE {})

\* A phase is overtaken by a clear that another task makes while it is under
\* way, and by a reload of the backend that is under way at the same time.
Overtake(t) ==
    overtaken' = {u \in Task :
        /\ script'[u] # <<>>
        /\ \/ u \in overtaken /\ script'[u] = script[u]
           \/ u # t /\ At(t, "clear", "start")
           \/ \E w \in Task \ {u} : Reloading(script'[w])}

\* An entry is late if it was not there before a step of an overtaken phase.
ComeLate(t) ==
    late' = (late \cap Entries') \cup (IF t \in overtaken THEN Entries' \ Entries ELSE {})

\* A fact is added, or a new CPG has none of the facts stored so far.
GetDirty ==
    dirty' = [t \in Task |->
        IF Clears(script'[t])
        THEN dirty[t] \cup {u \in Unit : facts'[u] > facts[u] \/ cpg' # cpg}
        ELSE {}]

Watch(t) == Overtake(t) /\ ComeLate(t) /\ GetDirty

HInit == Init /\ overtaken = {} /\ late = {} /\ dirty = [t \in Task |-> {}]

HNext == \E t \in Task : (HandleRequest(t) \/ Step(t) \/ Arrival(t)) /\ Watch(t)

HSpec == HInit /\ [][HNext]_hvars

-----------------------------------------------------------------------------
(* Properties *)

\* _add_relation looks up both ends before it adds the edge, and each look-up
\* may await.  An edge has a unit at both ends, whoever loads and clears,
\* unless its own coroutine was overtaken between look-up and edge.
EdgesHaveUnits ==
    \A e \in edges :
        \/ version[e[1]] # 0 /\ version[e[2]] # 0
        \/ <<"edge", e[1], e[2]>> \in late

\* Once get_related_units marked <<unit, direction>> as loaded, later calls
\* answer from the graph alone: it holds every edge of it the backend has,
\* however many handlers link the same units, fail half-way, or clear before and
\* after; a mark with edges missing was set by an overtaken coroutine.
RelationsComplete ==
    \A u \in Unit : \A dir \in {"out", "in"} :
        <<u, dir>> \in loadedRelations =>
            \/ <<"loaded", u, dir>> \in late
            \/ \A v \in Neighbours(u, dir) :
                  (IF dir = "out" THEN <<u, v>> ELSE <<v, u>>) \in edges

\* cleanup(sync_to_backend=True): "sync all facts to backend before cleanup"
\* (view.py:859).  At the clear the backend stores at least as many facts of
\* each unit as the view drops, although others load, clear, sync and reload
\* while the sync awaits: what is dropped without having been stored was added
\* after the cleanup began, or stored in a CPG that was replaced since.
SyncedBeforeClear ==
    \A t \in Task :
        At(t, "clear", "start") /\ Arg(t) = "synced" =>
            \A u \in Unit : facts[u] <= tags[u] \/ u \in dirty[t]

\* reload: "Clear all cached data and reload from backend" (view.py:833).  The
\* clear comes before the backend is asked, so the view fills again while the
\* backend reloads: at every moment, a unit that is not of the current CPG was
\* put there by a coroutine that a reload overtook.
ViewIsCurrent ==
    \A u \in Unit : version[u] \in {0, cpg} \/ <<"unit", u, version[u]>> \in late
=============================================================================
