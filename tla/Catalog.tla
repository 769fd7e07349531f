------------------------------ MODULE Catalog ------------------------------
(***************************************************************************)
(* The catalogs of the Joern arm (cwe78_study/joern_arm.py): which names   *)
(* may enter them (catalog_sanitizer.py, verify_sink_wrapper), and what    *)
(* the four queries built from them find in the code under analysis.       *)
(*                                                                         *)
(* The analysed program is data of the instance: its calls, its data flows *)
(* and its call graph, in the order in which Joern lists them.             *)
(***************************************************************************)
EXTENDS SinkCalls, Selection

CONSTANTS
    Name,           \* strings a seed or a reply of the LLM may hold
    NoName,
    Short,          \* short names of calls and methods
    Cleaned,        \* [Name -> Name or NoName]: clean_catalog_entry
    ShortName,      \* [Name -> last segment of the name]
    CallSource,     \* the names whose tail also counts as the name of a call
    Seed,           \* [sources, sinks, sanitizers : SUBSET Name], as configured
    Call,           \* the calls of the program, a sequence of sites
    CallName,       \* [Site -> short name of the callee]
    Prefixes,       \* [Site -> names the code of the call begins with]
    Flow,           \* data flows into a call: sequence of [site, source, via, names]:
                    \* names that its code contains, or the short name of a call
    Callers,        \* [short name -> methods within call_graph_depth callers]
    Callees,        \* [Name -> short names of the methods it calls (first 50)]
    BodyCalls,      \* [Name -> short names followed by "(" in its first 1500 characters]
    DirectCap, RelaxedCap, DefUseCap    \* the .take(N) of the queries

Via == {"fieldAccess", "call", "identifier", "parameter"}

ASSUME CatalogAssumption ==
    /\ NoName \notin Name
    /\ Cleaned \in [Name -> Name \cup {NoName}]
    /\ \A n \in Name : Cleaned[n] # NoName => Cleaned[Cleaned[n]] = Cleaned[n]
    /\ Seed \in [sources : SUBSET Name, sinks : SUBSET Name, sanitizers : SUBSET Name]
    /\ ShortName \in [Name -> Short] /\ CallSource \subseteq Name
    /\ CallName \in [Site -> Short] /\ Prefixes \in [Site -> SUBSET Name]
    /\ Call \in Seq(Site)
    /\ Flow \in Seq([site : Site, source : Source, via : Via, names : SUBSET (Name \cup Short)])
    /\ Callers \in [Short -> SUBSET Name]
    /\ Callees \in [Name -> SUBSET Short] /\ BodyCalls \in [Name -> SUBSET Short]
    /\ {DirectCap, RelaxedCap, DefUseCap} \subseteq Nat

-----------------------------------------------------------------------------
(* Which names enter a catalog. *)

\* (mutant) names are taken as they come
TakenAsIs(names) == names

\* sanitize_catalog: what is no dotted identifier is dropped, the rest normalised.
Sanitize(names) == {Cleaned[n] : n \in names} \ {NoName}

Tails(names) == {ShortName[n] : n \in names}

\* JoernArm.__init__
SeedCatalog == [
    sources |-> Sanitize(Seed.sources), sinks |-> Sanitize(Seed.sinks),
    sanitizers |-> Sanitize(Seed.sanitizers)]

\* (mutant) an expansion replaces the list
ReplaceCatalog(catalog, new) ==
    [list \in DOMAIN catalog |->
        IF Sanitize(new[list]) = {} THEN catalog[list] ELSE Sanitize(new[list])]

\* expand_sources, expand_sinks, expand_sanitizers
ExpandCatalog(catalog, new) ==
    [list \in DOMAIN catalog |-> catalog[list] \cup Sanitize(new[list])]

\* (mutant) the classification of the LLM is enough
Unverified(name, neighbours, sinks, cited) == TRUE

\* verify_sink_wrapper: a name is a sink wrapper when the call graph shows it call
\* something called like a sink, or the LLM cites a sink for it.  A name that is not
\* among the neighbours has no call graph.
VerifySinkWrapper(name, neighbours, sinks, cited) ==
    \/ name \in neighbours /\ (Callees[name] \cup BodyCalls[name]) \cap Tails(sinks) # {}
    \/ cited \cap Tails(sinks) # {}

-----------------------------------------------------------------------------
(* What the queries find. *)

\* _build_sink_filter: a short name of some sink and the prefix of some sink,
\* not necessarily of the same one.
IsSinkCall(site, sinks) ==
    CallName[site] \in Tails(sinks) /\ Prefixes[site] \cap sinks # {}

\* _build_source_filter
CallSources(sources) == Tails(sources \cap CallSource)

StrictSource(flow, sources) ==
    \/ flow.via = "fieldAccess" /\ flow.names \cap sources # {}
    \/ flow.via = "call" /\ flow.names \cap CallSources(sources) # {}

RelaxedSource(flow, sources) ==
    \/ StrictSource(flow, sources)
    \/ flow.via \in {"identifier", "parameter"} /\ flow.names \cap sources # {}

Take(s, cap) == IF Len(s) <= cap THEN s ELSE SubSeq(s, 1, cap)

AsRecord(site, kind, source) == [site |-> site, kind |-> kind, source |-> source]
FlowRecords(flows, kind) ==
    [i \in 1..Len(flows) |-> AsRecord(flows[i].site, kind, flows[i].source)]

\* _build_taint_query
StrictScan(catalog) ==
    LET Reaches(f) == IsSinkCall(f.site, catalog.sinks) /\ StrictSource(f, catalog.sources)
    IN  FlowRecords(Kept(Flow, {i \in 1..Len(Flow) : Reaches(Flow[i])}), "taint")

\* _build_direct_sink_query
DirectSinkScan(catalog) ==
    LET IsSink(site) == IsSinkCall(site, catalog.sinks)
        sites == Take(Kept(Call, {i \in 1..Len(Call) : IsSink(Call[i])}), DirectCap)
    IN  [i \in 1..Len(sites) |-> AsRecord(sites[i], "direct_sink", NoSource)]

\* _build_relaxed_taint_query
RelaxedTaintScan(catalog) ==
    LET Reaches(f) == IsSinkCall(f.site, catalog.sinks) /\ RelaxedSource(f, catalog.sources)
        flows == Kept(Flow, {i \in 1..Len(Flow) : Reaches(Flow[i])})
    IN  FlowRecords(Take(flows, RelaxedCap), "relaxed")

\* _build_def_use_chase_query: whatever is not a call or a literal.
DefUseChase(catalog) ==
    LET Reaches(f) == IsSinkCall(f.site, catalog.sinks) /\ f.via # "call"
        flows == Kept(Flow, {i \in 1..Len(Flow) : Reaches(Flow[i])})
    IN  FlowRecords(Take(flows, DefUseCap), "def_use")

RecoveryScan(kind, catalog) ==
    CASE kind = "direct_sink" -> DirectSinkScan(catalog)
      [] kind = "relaxed" -> RelaxedTaintScan(catalog)
      [] kind = "def_use" -> DefUseChase(catalog)
=============================================================================
