--------------------------- MODULE MCIRViewOverlap ---------------------------
(* The instance of MCIRView with the history of IRViewOverlap, and without the *)
(* id that the backend does not know: a third request instead. *)
EXTENDS MCIRView, IRViewOverlap

HCkindOf == [u \in MCReal |-> MCkindOf[u]]
HCStored == [u \in MCReal |-> MCStored[u]]

\* The requests left out are phases of reload and of cleanup; fetch_unit awaits the
\* unit it adds as get_unit does.
HCRequests ==
    AllRequests \ {"get_all_relations_by_kind", "load_facts", "sync_backend", "fetch_unit",
                   "preload_from_backend"}
=============================================================================
