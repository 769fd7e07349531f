------------------------- MODULE JoernSessionProofs -------------------------
(***************************************************************************)
(* Type correctness, NoPortCascade and OwnServer of JoernSession, for any  *)
(* servers, projects and CVEs, by one inductive invariant, and             *)
(* CleanRunLeavesNothing by a second one that rests on it.  Last, how far  *)
(* the two properties hold that the runs refute.                           *)
(***************************************************************************)
EXTENDS JoernSession, TLAPS

\* The servers: one listens, the one that holds the port.
ServerOK ==
    /\ jvm \in [Jvm -> {"gone", "booting", "listening"}]
    /\ port \in Jvm \cup {NoJvm}
    /\ \A j \in Jvm : jvm[j] = "listening" <=> j = port
    /\ late \subseteq Jvm \cap {port}

\* The rest of TypeOK (but for the flags), and what a place in the program says of the counters.
PlaceOK ==
    /\ projects \in [Project -> {"absent", "partial", "complete"}]
    /\ cve \in 1..Len(Cves) + 1
    /\ pc \notin {"start", "end"} => cve <= Len(Cves)
    /\ side \in {"vuln", "patched"}
    /\ attempt \in 0..2
    /\ pc = "sleep" => attempt = 1
    /\ pc \in {"start", "construct", "spawn", "wait", "workspace", "import", "overlay", "load", "prepare",
               "preload", "scan", "stop", "sleep", "cancelled", "ran", "finally", "end"}
    /\ process \in Jvm \cup {NoJvm}
    /\ restarts \in 0..MaxRestarts

FlagsOK == connected \in BOOLEAN /\ troubled \in BOOLEAN

Querying == {"workspace", "import", "overlay", "load", "prepare", "preload", "scan"}

\* Before its server is started a client owns none, so that a server which
\* binds the port then is a latecomer.
NoneOwned == pc \in {"start", "construct", "spawn", "end"} => process = NoJvm

\* From the check of the port to the last query, the port is free, held by the
\* client's own server or by a latecomer.
PortOK ==
    /\ pc \in {"spawn", "wait"} \cup Querying => port \in {NoJvm, process} \cup late
    /\ NoPortCascade

SInv == ServerOK /\ PlaceOK /\ NoneOwned /\ PortOK

-----------------------------------------------------------------------------

LEMMA LenCves == Len(Cves) \in Nat
  BY SessionAssumption

\* However servers die, those that are left are described as before.
LEMMA DieServerOK ==
  ASSUME ServerOK, NEW dead, Die(dead)
  PROVE  ServerOK'
  BY SessionAssumption DEF ServerOK, Die

\* The death of a server can only free the port.
LEMMA DieFreesPort ==
  ASSUME ServerOK, NEW dead, Die(dead)
  PROVE  /\ port' = port \/ port' = NoJvm
         /\ port \in late => port' \in {NoJvm} \cup late'
  BY DEF ServerOK, Die

\* Reaping leaves no server.
LEMMA ReapFreesPort ==
  ASSUME ServerOK, Reap
  PROVE  port' = NoJvm
  BY DEF ServerOK, Reap, Die

LEMMA InitSInv == Init => SInv
  BY SessionAssumption, LenCves
     DEF Init, SInv, ServerOK, PlaceOK, NoneOwned, PortOK, Querying, NoPortCascade

-----------------------------------------------------------------------------
(* The servers change and the program stays where it is. *)

LEMMA BindStep ==
  ASSUME SInv, NEW j \in Jvm, Bind(j)
  PROVE  SInv'
<1>1. PlaceOK' /\ NoneOwned'
  BY DEF SInv, Bind, position, PlaceOK, NoneOwned
<1>2. CASE port = NoJvm
  <2>1. ServerOK'
    BY <1>2, SessionAssumption DEF SInv, ServerOK, Bind
  <2>2. port' \in {process} \cup late'
    BY <1>2 DEF Bind
  <2>3. port' \in late' \/ process # NoJvm
    BY <1>2, SessionAssumption DEF Bind
  <2> QED BY <1>1, <2>1, <2>2, <2>3 DEF SInv, PortOK, NoPortCascade, Bind, position, NoneOwned, Querying
<1>3. CASE port # NoJvm
  <2>1. Die({j})
    BY <1>3 DEF Bind
  <2>2. ServerOK'
    BY <2>1, DieServerOK DEF SInv
  <2>3. port' \in {port, NoJvm} /\ (port \in late => port' \in {NoJvm} \cup late')
    BY <2>1, DieFreesPort DEF SInv
  <2> QED BY <1>1, <2>2, <2>3 DEF SInv, PortOK, NoPortCascade, Bind, position, Querying
<1> QED BY <1>2, <1>3

LEMMA JvmDiesStep ==
  ASSUME SInv, NEW j \in Jvm, JvmDies(j)
  PROVE  SInv'
<1>1. PlaceOK' /\ NoneOwned'
  BY DEF SInv, JvmDies, position, PlaceOK, NoneOwned
<1>2. ServerOK'
  BY DieServerOK DEF SInv, JvmDies
<1>3. port' \in {port, NoJvm} /\ (port \in late => port' \in {NoJvm} \cup late')
  BY DieFreesPort DEF SInv, JvmDies
<1> QED BY <1>1, <1>2, <1>3 DEF SInv, PortOK, NoPortCascade, JvmDies, position, Querying

-----------------------------------------------------------------------------
(* The harness. *)

LEMMA StartCveStep ==
  ASSUME SInv, StartCve
  PROVE  SInv'
<1>1. PlaceOK' /\ NoneOwned'
  BY DEF SInv, StartCve, PlaceOK, NoneOwned
<1>2. ServerOK' /\ port' = NoJvm
  BY DieServerOK, ReapFreesPort DEF SInv, StartCve, Reap, server, ServerOK
<1> QED BY <1>1, <1>2 DEF SInv, PortOK, NoPortCascade, StartCve, Querying

\* Steps that leave the servers alone and lead where the port does not matter.
LEMMA ElsewhereStep ==
  ASSUME SInv, UNCHANGED server, PlaceOK', NoneOwned',
         pc' \notin {"construct", "spawn", "wait"} \cup Querying
  PROVE  SInv'
  BY DEF SInv, server, ServerOK, PortOK, NoPortCascade

LEMMA HarnessStep ==
  ASSUME SInv, EndSweep \/ Settled \/ NextRun \/ Crash
  PROVE  SInv'
<1>1. CASE EndSweep
  <2>1. PlaceOK' /\ NoneOwned' BY <1>1 DEF SInv, EndSweep, position, PlaceOK, NoneOwned
  <2> QED BY <1>1, <2>1, ElsewhereStep DEF EndSweep, Querying
<1>2. CASE Settled
  <2>1. PlaceOK' /\ NoneOwned' BY <1>2 DEF SInv, Settled, position, PlaceOK, NoneOwned
  <2> QED BY <1>2, <2>1, ElsewhereStep DEF Settled, Querying
<1>3. CASE NextRun
  <2>1. PlaceOK' /\ NoneOwned' BY <1>3 DEF SInv, NextRun, PlaceOK, NoneOwned
  <2>2. ServerOK' BY <1>3 DEF SInv, NextRun, server, ServerOK
  <2>3. PortOK' BY <1>3 DEF NextRun, PortOK, NoPortCascade, Querying
  <2> QED BY <2>1, <2>2, <2>3 DEF SInv
<1>4. CASE Crash
  <2>1. PlaceOK' /\ NoneOwned'
    BY <1>4, LenCves, SessionAssumption DEF SInv, Crash, Restart, PlaceOK, NoneOwned
  <2> QED BY <1>4, <2>1, ElsewhereStep DEF Crash, Restart, Querying
<1> QED BY <1>1, <1>2, <1>3, <1>4

LEMMA ReapingStep ==
  ASSUME SInv, Finally \/ BudgetExceeded \/ GiveUpOnHungTask
  PROVE  SInv'
<1>1. PlaceOK' /\ NoneOwned'
  <2>1. CASE Finally
    BY <2>1, LenCves DEF SInv, Finally, PlaceOK, NoneOwned
  <2>2. CASE BudgetExceeded
    BY <2>2 DEF SInv, BudgetExceeded, Awaiting, position, PlaceOK, NoneOwned
  <2>3. CASE GiveUpOnHungTask
    BY <2>3, SessionAssumption DEF SInv, GiveUpOnHungTask, Restart, PlaceOK, NoneOwned
  <2> QED BY <2>1, <2>2, <2>3
<1>2. ServerOK'
  BY DieServerOK DEF SInv, Finally, BudgetExceeded, GiveUpOnHungTask, Reap, server, ServerOK
<1>3. pc' \in {"start", "end", "cancelled"}
  BY DEF Finally, BudgetExceeded, GiveUpOnHungTask, Restart
<1> QED BY <1>1, <1>2, <1>3 DEF SInv, PortOK, NoPortCascade, Querying

-----------------------------------------------------------------------------
(* Connecting. *)

LEMMA ConstructStep ==
  ASSUME SInv, Construct
  PROVE  SInv'
<1>1. PlaceOK' /\ NoneOwned'
  BY DEF SInv, Construct, AttemptFails, position, PlaceOK, NoneOwned
<1>2. ServerOK'
  BY DEF SInv, Construct, server, ServerOK
<1>3. pc' = "stop" \/ (pc' = "spawn" /\ port' = NoJvm)
  BY DEF Construct, AttemptFails, server
<1> QED BY <1>1, <1>2, <1>3 DEF SInv, PortOK, NoPortCascade, Querying

LEMMA StartServerStep ==
  ASSUME SInv, StartServer
  PROVE  SInv'
<1>1. PICK j \in Jvm : /\ jvm[j] = "gone"
                       /\ jvm' = [jvm EXCEPT ![j] = "booting"]
                       /\ process' = j
  BY DEF StartServer
<1>2. PlaceOK' /\ NoneOwned'
  BY <1>1 DEF SInv, StartServer, position, PlaceOK, NoneOwned
<1>3. ServerOK'
  BY <1>1 DEF SInv, StartServer, ServerOK
<1>4. port' \in {NoJvm} \cup late'
  BY DEF SInv, StartServer, PortOK, NoneOwned
<1> QED BY <1>2, <1>3, <1>4 DEF SInv, StartServer, PortOK, NoPortCascade, Querying

LEMMA WaitGivesUpStep ==
  ASSUME SInv, WaitGivesUp
  PROVE  SInv'
<1>1. PlaceOK' /\ NoneOwned'
  BY DEF SInv, WaitGivesUp, AttemptFails, position, PlaceOK, NoneOwned
<1>2. ServerOK'
  BY DieServerOK DEF SInv, WaitGivesUp, server, ServerOK
<1> QED BY <1>1, <1>2 DEF SInv, WaitGivesUp, AttemptFails, PortOK, NoPortCascade, Querying

\* A step from one query to the next: same servers, same client.
LEMMA QueryStep ==
  ASSUME SInv, UNCHANGED <<server, process>>, PlaceOK',
         pc \in {"wait"} \cup Querying, pc' \in {"stop"} \cup Querying
  PROVE  SInv'
<1>1. NoneOwned'
  BY DEF NoneOwned, Querying
<1>2. ServerOK' /\ PortOK'
  BY DEF SInv, server, ServerOK, PortOK, NoPortCascade, Querying
<1> QED BY <1>1, <1>2 DEF SInv

LEMMA ConnectStep ==
  ASSUME SInv,
         \/ PortFound \/ OpenWorkspace \/ ImportCode \/ RunOverlays \/ LoadProject \/ Prepare \/ PreloadView
         \/ ConnectQueryFails \/ Scan \/ ScanFails
  PROVE  SInv'
<1>1. CASE PortFound
  <2>1. PlaceOK' BY <1>1 DEF SInv, PortFound, position, PlaceOK
  <2> QED BY <1>1, <2>1, QueryStep DEF PortFound, Querying
<1>2. CASE OpenWorkspace
  <2>1. PlaceOK' BY <1>2 DEF SInv, OpenWorkspace, Answered, position, PlaceOK
  <2> QED BY <1>2, <2>1, QueryStep DEF OpenWorkspace, Answered, Querying
<1>3. CASE ImportCode \/ RunOverlays
  <2>1. PlaceOK' BY <1>3 DEF SInv, ImportCode, RunOverlays, Answered, position, PlaceOK
  <2> QED BY <1>3, <2>1, QueryStep DEF ImportCode, RunOverlays, Answered, Querying
<1>4. CASE LoadProject \/ Prepare \/ PreloadView
  <2>1. PlaceOK' BY <1>4 DEF SInv, LoadProject, Prepare, PreloadView, Answered, position, PlaceOK
  <2> QED BY <1>4, <2>1, QueryStep DEF LoadProject, Prepare, PreloadView, Answered, Querying
<1>5. CASE ConnectQueryFails
  <2>1. PlaceOK' BY <1>5 DEF SInv, ConnectQueryFails, AttemptFails, position, PlaceOK
  <2> QED BY <1>5, <2>1, QueryStep DEF ConnectQueryFails, AttemptFails, Querying
<1>6. CASE Scan \/ ScanFails
  <2>1. PlaceOK' BY <1>6 DEF SInv, Scan, ScanFails, PlaceOK
  <2> QED BY <1>6, <2>1, QueryStep DEF Scan, ScanFails, Querying
<1> QED BY <1>1, <1>2, <1>3, <1>4, <1>5, <1>6

LEMMA StopStep ==
  ASSUME SInv, Disconnect \/ DisconnectFails \/ NothingToDisconnect
  PROVE  SInv'
<1>1. PlaceOK' /\ NoneOwned'
  BY DEF SInv, Disconnect, DisconnectFails, NothingToDisconnect, AfterStop, PlaceOK, NoneOwned
<1>2. ServerOK'
  BY DieServerOK DEF SInv, Disconnect, DisconnectFails, NothingToDisconnect, server, ServerOK
<1>3. pc' \in {"sleep", "stop", "ran"}
  BY DEF Disconnect, DisconnectFails, NothingToDisconnect, AfterStop
<1> QED BY <1>1, <1>2, <1>3 DEF SInv, PortOK, NoPortCascade, Querying

LEMMA RetryStep ==
  ASSUME SInv, Retry
  PROVE  SInv'
<1>1. PlaceOK' /\ NoneOwned' /\ attempt' = 2
  BY DEF SInv, Retry, PlaceOK, NoneOwned
<1>2. ServerOK'
  BY DEF SInv, Retry, server, ServerOK
<1> QED BY <1>1, <1>2 DEF SInv, Retry, PortOK, NoPortCascade, Querying

LEMMA NextSInv == SInv /\ [Next]_vars => SInv'
<1> SUFFICES ASSUME SInv, [Next]_vars PROVE SInv'
  OBVIOUS
<1>1. CASE UNCHANGED vars
  BY <1>1 DEF vars, server, position, SInv, ServerOK, PlaceOK, NoneOwned, PortOK, NoPortCascade
<1>2. CASE \E j \in Jvm : Bind(j) \/ JvmDies(j)
  BY <1>2, BindStep, JvmDiesStep
<1>3. CASE StartCve \/ EndSweep \/ Settled \/ NextRun \/ Crash
  BY <1>3, StartCveStep, HarnessStep
<1>4. CASE Finally \/ BudgetExceeded \/ GiveUpOnHungTask
  BY <1>4, ReapingStep
<1>5. CASE Construct \/ StartServer \/ WaitGivesUp
  BY <1>5, ConstructStep, StartServerStep, WaitGivesUpStep
<1>6. CASE \/ PortFound \/ OpenWorkspace \/ ImportCode \/ RunOverlays \/ LoadProject \/ Prepare \/ PreloadView
           \/ ConnectQueryFails \/ Scan \/ ScanFails
  BY <1>6, ConnectStep
<1>7. CASE Disconnect \/ DisconnectFails \/ NothingToDisconnect \/ Retry
  BY <1>7, StopStep, RetryStep
<1> QED BY <1>1, <1>2, <1>3, <1>4, <1>5, <1>6, <1>7 DEF Next, Progress

LEMMA NextFlagsOK == FlagsOK /\ [Next]_vars => FlagsOK'
<1> SUFFICES ASSUME FlagsOK, [Next]_vars PROVE FlagsOK'
  OBVIOUS
<1> USE DEF FlagsOK
<1>1. CASE UNCHANGED vars
  BY <1>1 DEF vars
<1>2. CASE \E j \in Jvm : Bind(j) \/ JvmDies(j)
  BY <1>2 DEF Bind, JvmDies
<1>3. CASE StartCve \/ EndSweep \/ Settled \/ NextRun
  BY <1>3 DEF StartCve, EndSweep, Settled, NextRun
<1>4. CASE Finally \/ BudgetExceeded \/ GiveUpOnHungTask \/ Crash
  BY <1>4 DEF Finally, BudgetExceeded, GiveUpOnHungTask, Crash, Restart
<1>5. CASE Construct \/ StartServer \/ WaitGivesUp \/ PortFound \/ ConnectQueryFails
  BY <1>5 DEF Construct, StartServer, WaitGivesUp, PortFound, ConnectQueryFails, AttemptFails
<1>6. CASE OpenWorkspace \/ ImportCode \/ RunOverlays \/ LoadProject \/ Prepare \/ PreloadView
  BY <1>6 DEF OpenWorkspace, ImportCode, RunOverlays, LoadProject, Prepare, PreloadView, Answered
<1>7. CASE Scan \/ ScanFails \/ Disconnect \/ DisconnectFails \/ NothingToDisconnect \/ Retry
  BY <1>7 DEF Scan, ScanFails, Disconnect, DisconnectFails, NothingToDisconnect, Retry
<1> QED BY <1>1, <1>2, <1>3, <1>4, <1>5, <1>6, <1>7 DEF Next, Progress

-----------------------------------------------------------------------------
(* A run in which nothing failed. *)

\* As long as nothing fails, the client is connected when stop() is called, which is
\* then called once; and the port is free, the client's or a latecomer's until stop()
\* has given it back.
CleanOK ==
    ~troubled =>
        /\ pc \notin {"sleep", "cancelled"}
        /\ pc \in {"preload", "scan", "stop"} => connected
        /\ pc = "stop" => attempt = 0 /\ port \in {NoJvm, process} \cup late
        /\ pc \in {"ran", "finally"} => process = NoJvm /\ port \in {NoJvm} \cup late

\* A server that comes up while stop() runs is the client's or a latecomer.
LEMMA BindKeepsCleanOK ==
  ASSUME SInv, CleanOK, NEW j \in Jvm, Bind(j)
  PROVE  CleanOK'
<1>1. UNCHANGED <<attempt, pc, process, connected, troubled>>
  BY DEF Bind, position
<1>2. CASE port = NoJvm
  <2>1. port' = j /\ (j = process \/ j \in late')
    BY <1>2 DEF Bind
  <2>2. j # NoJvm
    BY SessionAssumption
  <2> QED BY <1>1, <2>1, <2>2 DEF CleanOK
<1>3. CASE port # NoJvm
  <2>1. Die({j})
    BY <1>3 DEF Bind
  <2>2. port' \in {port, NoJvm} /\ (port \in late => port' \in {NoJvm} \cup late')
    BY <2>1, DieFreesPort DEF SInv
  <2> QED BY <1>1, <2>2 DEF CleanOK
<1> QED BY <1>2, <1>3

\* disconnect() kills the server the client started: what still holds the port then
\* came up late.
LEMMA DisconnectKeepsCleanOK ==
  ASSUME SInv, CleanOK, Disconnect
  PROVE  CleanOK'
<1>1. Die({process}) /\ process' = NoJvm /\ UNCHANGED troubled
  BY DEF Disconnect
<1>2. ~troubled => pc' = "ran"
  BY DEF Disconnect, AfterStop, CleanOK
<1>3. port = process => port' = NoJvm
  BY <1>1 DEF Die
<1>4. port \in late => port' \in {NoJvm} \cup late'
  BY <1>1, DieFreesPort DEF SInv
<1>5. port = NoJvm => port' = NoJvm
  BY <1>1 DEF Die
<1>6. ~troubled => port' \in {NoJvm} \cup late'
  BY <1>3, <1>4, <1>5 DEF CleanOK, Disconnect
<1> QED BY <1>1, <1>2, <1>6 DEF CleanOK

LEMMA NextCleanOK ==
  ASSUME SInv, CleanOK, [Next]_vars
  PROVE  CleanOK'
<1>1. CASE UNCHANGED vars
  BY <1>1 DEF vars, server, position, CleanOK
<1>2. CASE \E j \in Jvm : Bind(j) \/ JvmDies(j)
  BY <1>2, BindKeepsCleanOK DEF JvmDies, CleanOK
<1>3. CASE StartCve \/ EndSweep \/ Construct \/ StartServer \/ PortFound
  BY <1>3 DEF StartCve, EndSweep, Construct, AttemptFails, StartServer, PortFound, CleanOK
<1>4. CASE NextRun \/ Settled
  BY <1>4 DEF NextRun, Settled, server, CleanOK
<1>5. CASE Finally \/ GiveUpOnHungTask
  BY <1>5 DEF Finally, GiveUpOnHungTask, Restart, CleanOK
<1>6. CASE BudgetExceeded \/ Crash \/ WaitGivesUp \/ ConnectQueryFails \/ ScanFails \/ DisconnectFails
  BY <1>6 DEF BudgetExceeded, Crash, WaitGivesUp, ConnectQueryFails, AttemptFails, ScanFails,
              DisconnectFails, CleanOK
<1>7. CASE OpenWorkspace \/ ImportCode \/ RunOverlays \/ LoadProject \/ Prepare \/ PreloadView
  BY <1>7 DEF OpenWorkspace, ImportCode, RunOverlays, LoadProject, Prepare, PreloadView, Answered, CleanOK
<1>8. CASE Scan
  BY <1>8 DEF Scan, server, SInv, PortOK, Querying, CleanOK
<1>9. CASE Disconnect
  BY <1>9, DisconnectKeepsCleanOK
<1>10. CASE NothingToDisconnect \/ Retry
  BY <1>10 DEF NothingToDisconnect, Retry, CleanOK
<1> QED
  BY <1>1, <1>2, <1>3, <1>4, <1>5, <1>6, <1>7, <1>8, <1>9, <1>10 DEF Next, Progress

-----------------------------------------------------------------------------

\* The invariant of the sweep's servers: who holds the port at each place of
\* connect(), stop() and the harness.
THEOREM SessionInvariance == Spec => []SInv
<1> QED BY InitSInv, NextSInv, PTL DEF Spec

\* Type correctness; at any time at most one server listens, the one that
\* holds the port.
THEOREM SessionTypeCorrect == Spec => []TypeOK
<1>1. Init => FlagsOK
  BY DEF Init, FlagsOK
<1>2. Spec => []FlagsOK
  BY <1>1, NextFlagsOK, PTL DEF Spec
<1>3. SInv /\ FlagsOK => TypeOK
  BY DEF SInv, ServerOK, PlaceOK, FlagsOK, TypeOK
<1> QED BY <1>2, <1>3, SessionInvariance, PTL

\* The reaping at the start of each CVE does what run_evaluation.py:643 says:
\* whatever earlier runs left, its first attempt meets a free port, unless a
\* server came up whose client was gone.
THEOREM NoCascade == Spec => []NoPortCascade
<1>1. SInv => NoPortCascade
  BY DEF SInv, PortOK
<1> QED BY <1>1, SessionInvariance, PTL

\* JoernClient takes any listener for its server, yet its queries are answered
\* by the process it started, or by such a latecomer.
THEOREM TalksToOwnServer == Spec => []OwnServer
<1>1. SInv => OwnServer
  BY DEF SInv, PortOK, OwnServer, Querying
<1> QED BY <1>1, SessionInvariance, PTL

\* What runtime.py:131 is for: when nothing failed, stop() has left no server behind
\* that the pipeline started and the harness would have to reap.
THEOREM CleanRunsLeaveNothing == Spec => []CleanRunLeavesNothing
<1>1. Init => CleanOK
  BY DEF Init, CleanOK
<1>2. SInv /\ CleanOK /\ [Next]_vars => CleanOK'
  BY NextCleanOK
<1>3. Spec => []CleanOK
  BY <1>1, <1>2, SessionInvariance, PTL DEF Spec
<1>4. SInv /\ CleanOK => CleanRunLeavesNothing
  BY SessionAssumption DEF SInv, ServerOK, CleanOK, CleanRunLeavesNothing
<1> QED BY <1>3, <1>4, SessionInvariance, PTL

-----------------------------------------------------------------------------
(* What the two findings about the session leave true.                      *)

\* The task that imports a project ends before the import does.
Importing == {"import", "overlay"}

ImportCut == pc \in Importing /\ (ConnectQueryFails \/ BudgetExceeded \/ Crash)

ProjectsOK ==
    /\ pc \in Importing => projects[Here] = "partial"
    /\ pc \in {"load", "prepare", "preload", "scan"} => projects[Here] = "complete"
    /\ \A q \in Project : projects[q] = "partial" => pc \in Importing /\ q = Here

\* The patched commit is only taken up where there is one.
SideOK == side = "patched" => cve <= Len(Cves) /\ Cves[cve].patched # NoProject

LEMMA NextSideOK ==
  ASSUME SInv, SideOK, [Next]_vars
  PROVE  SideOK'
<1>1. CASE UNCHANGED <<cve, side>>
  BY <1>1 DEF SideOK
<1>2. CASE side' = "vuln"
  BY <1>2 DEF SideOK
<1>3. CASE NextRun
  BY <1>3 DEF NextRun, SInv, PlaceOK, SideOK
<1>4. CASE Finally \/ GiveUpOnHungTask \/ Crash
  BY <1>2, <1>4 DEF Finally, GiveUpOnHungTask, Crash, Restart
<1>5. CASE UNCHANGED vars \/ \E j \in Jvm : Bind(j) \/ JvmDies(j)
  BY <1>1, <1>5 DEF vars, position, Bind, JvmDies
<1>6. CASE StartCve \/ EndSweep \/ Settled \/ BudgetExceeded \/ ConnectQueryFails \/ ScanFails \/ Scan
  BY <1>1, <1>6 DEF StartCve, EndSweep, Settled, BudgetExceeded, ConnectQueryFails, ScanFails,
              Scan, position
<1>7. CASE Construct \/ StartServer \/ PortFound \/ WaitGivesUp
  BY <1>1, <1>7 DEF Construct, StartServer, PortFound, WaitGivesUp, position
<1>8. CASE OpenWorkspace \/ ImportCode \/ RunOverlays \/ LoadProject \/ Prepare \/ PreloadView
  BY <1>1, <1>8 DEF OpenWorkspace, ImportCode, RunOverlays, LoadProject, Prepare, PreloadView, Answered, position
<1>9. CASE Disconnect \/ DisconnectFails \/ NothingToDisconnect \/ Retry
  BY <1>1, <1>9 DEF Disconnect, DisconnectFails, NothingToDisconnect, Retry
<1> QED BY <1>3, <1>4, <1>5, <1>6, <1>7, <1>8, <1>9 DEF Next, Progress

\* Between the start of a run and its end there is a project in hand.
LEMMA HereIsProject ==
  ASSUME SInv, SideOK, pc \in Querying
  PROVE  Here \in Project
<1>1. cve \in 1..Len(Cves)
  BY LenCves DEF SInv, PlaceOK, Querying
<1>2. PICK S : S = [vuln : Project, patched : Project \cup {NoProject}]
  OBVIOUS
<1>3. Cves \in Seq(S)
  BY <1>2, SessionAssumption
<1>4. Cves[cve] \in S
  BY <1>1, <1>3
<1>5. Cves[cve].vuln \in Project /\ Cves[cve].patched \in Project \cup {NoProject}
  BY <1>2, <1>4
<1> QED BY <1>5 DEF Here, SideOK, SInv, PlaceOK

\* A step that neither touches the cache nor leaves an import or enters the queries.
LEMMA CacheAlone ==
  ASSUME ProjectsOK, pc \notin Importing, UNCHANGED projects,
         pc' \notin Querying \ {"workspace"}
  PROVE  ProjectsOK'
  BY DEF ProjectsOK, Importing, Querying

LEMMA SameProject ==
  ASSUME ProjectsOK, UNCHANGED <<projects, cve, side>>, pc \in Importing <=> pc' \in Importing,
         \/ pc' \notin {"load", "prepare", "preload", "scan"}
         \/ pc \in {"load", "prepare", "preload", "scan"}
  PROVE  ProjectsOK'
  BY DEF ProjectsOK, Here, Importing

LEMMA OpenKeepsProjects ==
  ASSUME SInv, SideOK, ProjectsOK, OpenWorkspace PROVE ProjectsOK'
<1>1. /\ pc = "workspace" /\ UNCHANGED <<cve, side>>
      /\ projects \in [Project -> {"absent", "partial", "complete"}]
  BY DEF OpenWorkspace, Answered, position, SInv, PlaceOK
<1>2. PICK h : h = Here
  OBVIOUS
<1>3. Here' = h
  BY <1>1, <1>2 DEF Here
<1>4. h \in Project
  BY <1>1, <1>2, HereIsProject DEF Querying
<1>5. CASE pc' = "import" /\ projects' = [projects EXCEPT ![h] = "partial"]
  BY <1>1, <1>3, <1>4, <1>5 DEF ProjectsOK, Importing
<1>6. CASE pc' = "load" /\ projects[h] # "absent" /\ projects' = projects
  <2>1. projects[h] = "complete"
    BY <1>1, <1>4, <1>6 DEF ProjectsOK, Importing
  <2> QED BY <1>1, <1>3, <1>6, <2>1 DEF ProjectsOK, Importing
<1> QED BY <1>2, <1>5, <1>6 DEF OpenWorkspace, Answered

LEMMA ImportKeepsProjects ==
  ASSUME SInv, SideOK, ProjectsOK, RunOverlays PROVE ProjectsOK'
<1>1. /\ pc = "overlay" /\ pc' = "prepare" /\ UNCHANGED <<cve, side>>
      /\ projects \in [Project -> {"absent", "partial", "complete"}]
  BY DEF RunOverlays, Answered, position, SInv, PlaceOK
<1>2. PICK h \in Project : h = Here
  BY <1>1, HereIsProject DEF Querying
<1>3. Here' = h /\ projects' = [projects EXCEPT ![h] = "complete"]
  BY <1>1, <1>2 DEF Here, RunOverlays
<1> QED BY <1>1, <1>2, <1>3 DEF ProjectsOK, Importing

LEMMA NextProjects ==
  ASSUME SInv, SideOK, ProjectsOK, [Next]_vars, ~ImportCut
  PROVE  ProjectsOK'
<1>1. CASE UNCHANGED vars \/ \E j \in Jvm : Bind(j) \/ JvmDies(j)
  <2>1. UNCHANGED <<projects, cve, side, pc>>
    BY <1>1 DEF vars, position, Bind, JvmDies
  <2> QED BY <2>1 DEF ProjectsOK, Here
<1>2. CASE StartCve \/ EndSweep \/ NextRun \/ Settled
  BY <1>2, CacheAlone DEF Importing, Querying, StartCve, EndSweep, NextRun, Settled
<1>3. CASE Finally \/ GiveUpOnHungTask
  BY <1>3, CacheAlone DEF Importing, Querying, Finally, GiveUpOnHungTask, Restart
<1>4. CASE BudgetExceeded \/ Crash \/ ConnectQueryFails
  <2>1. pc \notin Importing
    BY <1>4 DEF ImportCut
  <2> QED BY <1>4, <2>1, CacheAlone DEF Importing, Querying, BudgetExceeded, Crash, Restart, ConnectQueryFails,
          AttemptFails
<1>5. CASE Construct \/ StartServer \/ PortFound \/ WaitGivesUp
  BY <1>5, CacheAlone DEF Importing, Querying, Construct, AttemptFails, StartServer, PortFound, WaitGivesUp
<1>6. CASE OpenWorkspace
  BY <1>6, OpenKeepsProjects
<1>7. CASE ImportCode
  BY <1>7, SameProject DEF ImportCode, Answered, position, Importing
<1>11. CASE RunOverlays
  BY <1>11, ImportKeepsProjects
<1>8. CASE LoadProject \/ Prepare \/ PreloadView
  BY <1>8, SameProject DEF LoadProject, Prepare, PreloadView, Answered, position, Importing
<1>9. CASE Scan \/ ScanFails
  BY <1>9, CacheAlone DEF Importing, Querying, Scan, ScanFails
<1>10. CASE Disconnect \/ DisconnectFails \/ NothingToDisconnect \/ Retry
  BY <1>10, CacheAlone DEF Importing, Querying, Disconnect, DisconnectFails, NothingToDisconnect, Retry, AfterStop
<1> QED
  BY <1>1, <1>2, <1>3, <1>4, <1>5, <1>6, <1>7, <1>8, <1>9, <1>10, <1>11 DEF Next, Progress

\* The claim that the run of ScansCompleteProject refutes holds as long as no import is cut
\* short: connect() opens whatever exists, and all that exists was imported completely.
THEOREM UncutImportsAreComplete == Spec /\ [][~ImportCut]_vars => []ScansCompleteProject
<1>1. Init => ProjectsOK
  BY DEF Init, ProjectsOK, Importing
<1>2. SInv /\ SideOK /\ ProjectsOK /\ [Next]_vars /\ [~ImportCut]_vars => ProjectsOK'
  <2> SUFFICES ASSUME SInv, SideOK, ProjectsOK, [Next]_vars, [~ImportCut]_vars PROVE ProjectsOK'
    OBVIOUS
  <2>1. CASE UNCHANGED vars
    BY <2>1 DEF vars, position, ProjectsOK, Here, Importing
  <2>2. CASE ~ImportCut
    BY <2>2, NextProjects
  <2> QED BY <2>1, <2>2
<1>3. ProjectsOK => ScansCompleteProject
  BY DEF ProjectsOK, ScansCompleteProject
<1>4. Init => SideOK
  BY DEF Init, SideOK
<1>5. SInv /\ SideOK /\ [Next]_vars => SideOK'
  BY NextSideOK
<1>6. Spec => []SideOK
  BY <1>4, <1>5, SessionInvariance, PTL DEF Spec
<1> QED BY <1>1, <1>2, <1>3, <1>6, SessionInvariance, PTL DEF Spec

\* After stop() the runtime is connected only if a query of its disconnect raised.
Released == pc = "ran" => ~connected

LEMMA NextReleased ==
  ASSUME Released, [Next]_vars, ~DisconnectFails
  PROVE  Released'
<1>1. CASE UNCHANGED vars \/ \E j \in Jvm : Bind(j) \/ JvmDies(j)
  BY <1>1 DEF vars, Bind, JvmDies, Released
<1>2. CASE Disconnect \/ NothingToDisconnect
  BY <1>2 DEF Disconnect, NothingToDisconnect, Released
<1>3. CASE StartCve \/ EndSweep \/ NextRun \/ Settled \/ Finally \/ GiveUpOnHungTask
  BY <1>3 DEF StartCve, EndSweep, NextRun, Settled, Finally, GiveUpOnHungTask, Restart, Released
<1>4. CASE BudgetExceeded \/ Crash \/ ConnectQueryFails \/ ScanFails \/ Scan \/ Retry
  BY <1>4 DEF BudgetExceeded, Crash, Restart, ConnectQueryFails, AttemptFails, ScanFails, Scan,
              Retry, Released
<1>5. CASE Construct \/ StartServer \/ PortFound \/ WaitGivesUp
  BY <1>5 DEF Construct, AttemptFails, StartServer, PortFound, WaitGivesUp, Released
<1>6. CASE OpenWorkspace \/ ImportCode \/ RunOverlays \/ LoadProject \/ Prepare \/ PreloadView
  BY <1>6 DEF OpenWorkspace, ImportCode, RunOverlays, LoadProject, Prepare, PreloadView, Answered, Released
<1> QED BY <1>1, <1>2, <1>3, <1>4, <1>5, <1>6 DEF Next, Progress

\* The claim that the run of StopReleasesServer refutes holds as long as the queries of
\* disconnect() do not raise, whatever else fails, hangs or dies before and after.
THEOREM QuietStopReleases == Spec /\ [][~DisconnectFails]_vars => []StopReleasesServer
<1>1. Init => Released
  BY DEF Init, Released
<1>2. Released /\ [Next]_vars /\ [~DisconnectFails]_vars => Released'
  BY NextReleased DEF vars, Released
<1>3. Released => StopReleasesServer
  BY DEF Released, StopReleasesServer
<1> QED BY <1>1, <1>2, <1>3, PTL DEF Spec
=============================================================================
