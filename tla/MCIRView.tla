------------------------------ MODULE MCIRView ------------------------------
(* Small instances of IRView for TLC. *)
EXTENDS IRView, TLC

CONSTANTS f1, f2, s1, ghost, Function, Statement

MCUnit == {f1, f2, s1, ghost}
MCKind == {Function, Statement}
MCReal == {f1, f2, s1}
MCkindOf == [u \in MCUnit |-> IF u = s1 THEN Statement ELSE Function]
\* f1 and s1 refer to f2; what the preloaded functions relate to is preloaded.
MCRelated == {<<f1, f2>>, <<s1, f2>>}
MCPreloadKinds == <<Function>>
MCStored == [u \in MCUnit |-> IF u = f1 THEN 1 ELSE 0]

LookUps == {"get_unit", "fetch_unit", "get_all_units_by_kind",
            "get_all_relations_by_kind", "get_related_units"}
FactRequests == {"add_unit_fact", "load_facts", "sync_backend"}
NoRestart == LookUps \cup FactRequests \cup {"preload_from_backend"}
AllRequests == NoRestart \cup {"reload", "cleanup"}

TaskSymmetry == Permutations(Task)
=============================================================================
