---------------------------- MODULE JoernSession ----------------------------
(***************************************************************************)
(* The life of the Joern servers of one sweep: the evaluation harness      *)
(* (scripts/run_evaluation.py), the Joern arm's connection                 *)
(* (cwe78_study/pipeline.py, core/runtime/runtime.py) and the client that  *)
(* starts and stops the server (backends/joern), around the two resources  *)
(* they share: one TCP port and the projects of the CPG cache.             *)
(*                                                                         *)
(* A server is a process of the operating system: it boots, binds the port *)
(* and lives until somebody kills it, whatever becomes of the client that  *)
(* started it.  A client talks to whoever holds the port.                  *)
(***************************************************************************)
EXTENDS Naturals, Sequences

CONSTANTS
    Jvm,            \* server processes (bound: how many live at a time)
    NoJvm,
    Project,        \* places in the CPG cache, one per repository and commit
    NoProject,
    Cves,           \* the sweep: a sequence of [vuln, patched : project]
    SlowBoot,       \* whether a server may need more than the 60 s it is given
    MaxRestarts     \* bound: how often the sweep process is started again

ASSUME SessionAssumption ==
    /\ NoJvm \notin Jvm /\ NoProject \notin Project
    /\ Cves \in Seq([vuln : Project, patched : Project \cup {NoProject}])
    /\ SlowBoot \in BOOLEAN
    /\ MaxRestarts \in Nat

VARIABLES
    jvm,            \* [Jvm -> "gone", "booting" or "listening"]
    port,           \* the server that holds the port, or NoJvm
    projects,       \* [Project -> "absent", "partial" or "complete"]
    cve, side,      \* the CVE in hand, its "vuln" or "patched" commit
    pc,             \* where the sweep process is
    attempt,        \* connection attempts of this run
    process,        \* the client's _process, or NoJvm
    connected,      \* the runtime has a backend and the backend is connected
    restarts,
    late,           \* (history) servers that came up when no client had them
    troubled        \* (history) something failed in this run

server == <<jvm, port, late>>
position == <<cve, side, attempt>>
vars == <<server, projects, position, pc, process, connected, restarts, troubled>>

Here == IF side = "vuln" THEN Cves[cve].vuln ELSE Cves[cve].patched

-----------------------------------------------------------------------------
(* The servers. *)

Die(dead) ==
    /\ jvm' = [j \in Jvm |-> IF j \in dead THEN "gone" ELSE jvm[j]]
    /\ port' = IF port \in dead THEN NoJvm ELSE port
    /\ late' = late \ dead

\* A server that finds the port taken ends.
Bind(j) ==
    /\ jvm[j] = "booting"
    /\ IF port = NoJvm
       THEN /\ jvm' = [jvm EXCEPT ![j] = "listening"]
            /\ port' = j
            /\ late' = IF j = process THEN late ELSE late \cup {j}
       ELSE Die({j})
    /\ UNCHANGED <<projects, position, pc, process, connected, restarts, troubled>>

\* Out of memory, or killed
JvmDies(j) ==
    /\ jvm[j] # "gone"
    /\ Die({j})
    /\ troubled' = TRUE
    /\ UNCHANGED <<projects, position, pc, process, connected, restarts>>

\* _cleanup_stray_joern: pkill -9 every Joern process there is.
Reap == Die(Jvm)

-----------------------------------------------------------------------------
(* The harness: run_main_comparison, _run_with_timeout *)

\* (mutant) the CVE starts without looking at the port
StartCveUnguarded ==
    /\ pc = "start" /\ cve <= Len(Cves)
    /\ pc' = "construct" /\ attempt' = 1 /\ troubled' = FALSE
    /\ UNCHANGED <<server, projects, cve, side, process, connected, restarts>>

StartCve ==
    /\ pc = "start" /\ cve <= Len(Cves)
    /\ IF port # NoJvm THEN Reap ELSE UNCHANGED server
    /\ pc' = "construct" /\ attempt' = 1 /\ troubled' = FALSE
    /\ UNCHANGED <<projects, cve, side, process, connected, restarts>>

EndSweep ==
    /\ pc = "start" /\ cve > Len(Cves)
    /\ pc' = "end"
    /\ UNCHANGED <<server, projects, position, process, connected, restarts, troubled>>

\* pipeline.run returned: the patched commit follows at once, without a reap.
NextRun ==
    /\ pc = "ran"
    /\ IF side = "vuln" /\ Cves[cve].patched # NoProject
       THEN side' = "patched" /\ pc' = "construct" /\ attempt' = 1 /\ UNCHANGED troubled
       ELSE pc' = "finally" /\ UNCHANGED <<side, attempt, troubled>>
    /\ process' = NoJvm /\ connected' = FALSE
    /\ UNCHANGED <<server, projects, cve, restarts>>

\* finally: reap whoever still holds the port.
Finally ==
    /\ pc = "finally"
    /\ IF port # NoJvm THEN Reap ELSE UNCHANGED server
    /\ pc' = "start"
    /\ cve' = cve + 1 /\ side' = "vuln" /\ attempt' = 0
    /\ process' = NoJvm /\ connected' = FALSE
    /\ UNCHANGED <<projects, restarts, troubled>>

\* The pipeline's task awaits an answer or a pause.
Awaiting ==
    \/ pc \in {"workspace", "import", "overlay", "load", "prepare", "preload", "scan", "sleep"}
    \/ pc = "stop" /\ connected

\* The budget is over at an await: task.cancel(), pkill.
BudgetExceeded ==
    /\ Awaiting
    /\ Reap
    /\ pc' = "cancelled" /\ troubled' = TRUE
    /\ UNCHANGED <<projects, position, process, connected, restarts>>

\* No `except Exception' holds a CancelledError; the arm's finally block runs
\* stop() once more against a server that is gone.
Settled ==
    /\ pc = "cancelled"
    /\ pc' = "finally"
    /\ UNCHANGED <<server, projects, position, process, connected, restarts, troubled>>

\* The next sweep process takes up the CVE again, it has no row.
Restart ==
    /\ pc' = IF restarts < MaxRestarts THEN "start" ELSE "end"
    /\ restarts' = IF restarts < MaxRestarts THEN restarts + 1 ELSE restarts
    /\ side' = "vuln" /\ attempt' = 0
    /\ process' = NoJvm /\ connected' = FALSE
    /\ UNCHANGED <<projects, cve>>

\* The cancelled task does not settle: SystemExit(124).
GiveUpOnHungTask ==
    /\ pc = "cancelled"
    /\ Reap
    /\ Restart
    /\ UNCHANGED troubled

\* The sweep process is killed; its servers are not.
Crash ==
    /\ pc # "end" /\ restarts < MaxRestarts
    /\ Restart
    /\ troubled' = TRUE
    /\ UNCHANGED server

-----------------------------------------------------------------------------
(* Connecting: JoernClient.__init__, connect; create_backend; IRView.create *)

\* The attempt ends before the runtime has its backend: stop() has nothing to
\* disconnect, whatever server the client started.
AttemptFails ==
    /\ pc' = "stop"
    /\ troubled' = TRUE
    /\ UNCHANGED connected

\* (mutant) the port is not checked
ConstructUnchecked ==
    /\ pc = "construct"
    /\ pc' = "spawn"
    /\ UNCHANGED <<server, projects, position, process, connected, restarts, troubled>>

\* "Port ... is already in use."
Construct ==
    /\ pc = "construct"
    /\ IF port # NoJvm THEN AttemptFails ELSE pc' = "spawn" /\ UNCHANGED <<connected, troubled>>
    /\ UNCHANGED <<server, projects, position, process, restarts>>

StartServer ==
    /\ pc = "spawn"
    /\ \E j \in Jvm :
         /\ jvm[j] = "gone"
         /\ jvm' = [jvm EXCEPT ![j] = "booting"]
         /\ process' = j
    /\ pc' = "wait"
    /\ UNCHANGED <<port, late, projects, position, connected, restarts, troubled>>

\* _wait_for_port: whoever listens will do.
PortFound ==
    /\ pc = "wait" /\ port # NoJvm
    /\ pc' = "workspace"
    /\ UNCHANGED <<server, projects, position, process, connected, restarts, troubled>>

\* (mutant) the wait has no deadline once the server is gone
WaitGivesUpLate ==
    /\ pc = "wait" /\ port = NoJvm
    /\ SlowBoot /\ jvm[process] = "booting"
    /\ Die({process})
    /\ process' = NoJvm
    /\ AttemptFails
    /\ UNCHANGED <<projects, position, restarts>>

\* After 60 s: terminate() ends the start script; the JVM is a child of it and
\* may go on booting.
WaitGivesUp ==
    /\ pc = "wait" /\ port = NoJvm
    /\ SlowBoot \/ jvm[process] = "gone"
    /\ \/ Die({process})
       \/ UNCHANGED server
    /\ process' = NoJvm
    /\ AttemptFails
    /\ UNCHANGED <<projects, position, restarts>>

\* A query is answered by the server that holds the port, if there is one.
Answered(at, next) ==
    /\ pc = at /\ port # NoJvm
    /\ pc' = next
    /\ UNCHANGED <<server, position, process, restarts, troubled>>

\* switchWorkspace, projects.exists.  An import that was cut short has made the
\* project's directory; whether Joern lists the project is up to Joern.
OpenWorkspace ==
    \/ /\ Answered("workspace", "import")
       /\ projects[Here] # "complete"
       /\ projects' = [projects EXCEPT ![Here] = "partial"]
       /\ UNCHANGED connected
    \/ /\ Answered("workspace", "load")
       /\ projects[Here] # "absent"
       /\ UNCHANGED <<projects, connected>>

ImportCode == Answered("import", "overlay") /\ UNCHANGED <<projects, connected>>

\* run.controlflow, run.callgraph
RunOverlays ==
    /\ Answered("overlay", "prepare")
    /\ projects' = [projects EXCEPT ![Here] = "complete"]
    /\ UNCHANGED connected

LoadProject == Answered("load", "prepare") /\ UNCHANGED <<projects, connected>>

\* Warm-up, predefined scripts: the backend is ready.
Prepare == Answered("prepare", "preload") /\ connected' = TRUE /\ UNCHANGED projects

PreloadView == Answered("preload", "scan") /\ UNCHANGED <<projects, connected>>

ConnectQueryFails ==
    /\ pc \in {"workspace", "import", "overlay", "load", "prepare", "preload"}
    /\ AttemptFails
    /\ UNCHANGED <<server, projects, position, process, restarts>>

-----------------------------------------------------------------------------
(* The arm's iterations, and AnalysisRuntime.stop() *)

Scan ==
    /\ pc = "scan" /\ port # NoJvm
    /\ pc' = "stop" /\ attempt' = 0
    /\ UNCHANGED <<server, projects, cve, side, process, connected, restarts, troubled>>

\* A query of an iteration raises: the arm logs it and goes on to its finally.
ScanFails ==
    /\ pc = "scan"
    /\ pc' = "stop" /\ attempt' = 0 /\ troubled' = TRUE
    /\ UNCHANGED <<server, projects, cve, side, process, connected, restarts>>

\* (mutant) one attempt too many
AfterStopRetryingTwice ==
    IF attempt \in {1, 2} THEN pc' = "sleep" /\ UNCHANGED attempt
    ELSE pc' = "ran" /\ UNCHANGED attempt

\* Where the caller of stop() goes on: a second attempt (its runtime and client
\* are new), a second stop() when that failed too, or the end of the run.
AfterStop ==
    IF attempt = 1 THEN pc' = "sleep" /\ UNCHANGED attempt
    ELSE IF attempt = 2 THEN pc' = "stop" /\ attempt' = 0
    ELSE pc' = "ran" /\ UNCHANGED attempt

\* (mutant) only the client's state is reset, its process is not terminated
DisconnectKeepingServer ==
    /\ pc = "stop" /\ connected /\ port # NoJvm
    /\ process' = NoJvm /\ connected' = FALSE
    /\ AfterStop
    /\ UNCHANGED <<server, projects, cve, side, restarts, troubled>>

\* backend.disconnect: four queries, then the client's own process is killed.
Disconnect ==
    /\ pc = "stop" /\ connected /\ port # NoJvm
    /\ Die({process})
    /\ process' = NoJvm /\ connected' = FALSE
    /\ AfterStop
    /\ UNCHANGED <<projects, cve, side, restarts, troubled>>

\* One of the queries raises, and client.disconnect is never reached.
DisconnectFails ==
    /\ pc = "stop" /\ connected
    /\ AfterStop
    /\ troubled' = TRUE
    /\ UNCHANGED <<server, projects, cve, side, process, connected, restarts>>

NothingToDisconnect ==
    /\ pc = "stop" /\ ~connected
    /\ AfterStop
    /\ UNCHANGED <<server, projects, cve, side, process, connected, restarts, troubled>>

Retry ==
    /\ pc = "sleep"
    /\ pc' = "construct" /\ attempt' = attempt + 1
    /\ process' = NoJvm /\ connected' = FALSE
    /\ UNCHANGED <<server, projects, cve, side, restarts, troubled>>

-----------------------------------------------------------------------------

Init ==
    /\ jvm = [j \in Jvm |-> "gone"] /\ port = NoJvm /\ late = {}
    /\ projects = [p \in Project |-> "absent"]
    /\ cve = 1 /\ side = "vuln" /\ attempt = 0
    /\ pc = "start" /\ process = NoJvm /\ connected = FALSE
    /\ restarts = 0 /\ troubled = FALSE

Progress ==
    \/ StartCve \/ EndSweep \/ NextRun \/ Finally
    \/ BudgetExceeded \/ Settled \/ GiveUpOnHungTask
    \/ Construct \/ StartServer \/ PortFound \/ WaitGivesUp
    \/ OpenWorkspace \/ ImportCode \/ RunOverlays \/ LoadProject \/ Prepare \/ PreloadView
    \/ ConnectQueryFails \/ Scan \/ ScanFails
    \/ Disconnect \/ DisconnectFails \/ NothingToDisconnect \/ Retry
    \/ \E j \in Jvm : Bind(j)

Next == Progress \/ Crash \/ \E j \in Jvm : JvmDies(j)

Spec == Init /\ [][Next]_vars

\* The sweep process runs, its budgets expire and booting servers come up;
\* nothing makes a query be answered.
FairSpec == Spec /\ WF_vars(Progress)

-----------------------------------------------------------------------------
(* Properties *)

TypeOK ==
    /\ jvm \in [Jvm -> {"gone", "booting", "listening"}]
    /\ port \in Jvm \cup {NoJvm}
    /\ \A j \in Jvm : jvm[j] = "listening" <=> j = port
    /\ projects \in [Project -> {"absent", "partial", "complete"}]
    /\ cve \in 1..Len(Cves) + 1
    /\ side \in {"vuln", "patched"}
    /\ attempt \in 0..2
    /\ pc \in {"start", "construct", "spawn", "wait", "workspace", "import", "overlay", "load", "prepare",
               "preload", "scan", "stop", "sleep", "cancelled", "ran", "finally", "end"}
    /\ process \in Jvm \cup {NoJvm}
    /\ connected \in BOOLEAN
    /\ restarts \in 0..MaxRestarts
    /\ late \subseteq Jvm \cap {port}
    /\ troubled \in BOOLEAN

\* "Reap it once before we start so the first CVE has a clean slate", and again
\* at each CVE, which "turns `port already in use' cascades into a
\* deterministic short wait" (run_evaluation.py:608 and 643): whatever earlier
\* runs, hangs and crashes left behind, the first attempt of a CVE does not
\* find the port taken, unless by a server that came up after its client was
\* gone: while it boots, the check of the port does not see it.
NoPortCascade ==
    pc = "construct" /\ side = "vuln" /\ attempt = 1 => port \in {NoJvm} \cup late

\* A client takes any listener for its server.  What answers its queries is the
\* process it started, or else one of those latecomers: never a server that an
\* earlier run, with another project loaded, forgot to stop.
OwnServer ==
    pc \in {"workspace", "import", "overlay", "load", "prepare", "preload", "scan"} =>
        port \in {NoJvm, process} \cup late

\* Without any failure, the pipeline itself stops every server it started: the
\* harness's reaping is only for what went wrong.
CleanRunLeavesNothing ==
    pc \in {"ran", "finally"} /\ ~troubled =>
        \A j \in Jvm \ late : jvm[j] # "listening"

\* Whatever hangs, fails or dies, the sweep comes to its end.
SweepEnds == <>(pc = "end")

\* "Disconnect backend: CRITICAL - must always execute" (runtime.py:131): when
\* stop() returned, the server the client was connected to is gone.
StopReleasesServer ==
    pc = "ran" /\ connected => jvm[process] = "gone"

\* The CPG cache is "a transparent improvement, never a regression"
\* (pipeline.py:791): what is scanned is a completely imported project.
ScansCompleteProject == pc = "scan" => projects[Here] = "complete"
=============================================================================
