-------------------------- MODULE PassCoordination --------------------------
(***************************************************************************)
(* A run of xdd with several targets: the main thread starts the Target    *)
(* Threads one by one and then the results manager (xint_plan_start); the  *)
(* Target Threads make their passes together (xdd_target_thread); and the  *)
(* results manager processes the results of each pass while the targets    *)
(* are parked between two of its barriers (xdd_results_manager).           *)
(*                                                                         *)
(* A barrier is taken to be what xdd_barrier promises: everybody in it     *)
(* leaves once all its parties are in.  What a target does during a pass   *)
(* is WorkerPool's subject; here it is what the run sees of it: I/O errors *)
(* that stop the target, cancellation, the end of the run time.  Left out: *)
(* dry runs, interactive mode, heartbeat and restart monitors, end-to-end. *)
(***************************************************************************)
EXTENDS Integers

CONSTANTS NumTargets,   \* planp->number_of_targets
          Passes,       \* -passes
          StopOnError,  \* -stoponerror
          RunTime,      \* -runtime was given: passes are made until it is over
          InitMayFail,  \* a target's initialization may fail
          MayCancel,    \* a worker may cancel the run
          ReopenMayFail,\* the open between two passes may fail
          MaxPass       \* bound: the run time is over in this pass at the latest

ASSUME CoordAssumption ==
  /\ NumTargets \in Nat \ {0} /\ Passes \in Nat \ {0}
  /\ MaxPass \in Nat /\ MaxPass >= Passes
  /\ StopOnError \in BOOLEAN /\ RunTime \in BOOLEAN /\ InitMayFail \in BOOLEAN
  /\ MayCancel \in BOOLEAN /\ ReopenMayFail \in BOOLEAN

Targets == 1..NumTargets

VARIABLES
  main,        \* where the main thread is
  created,     \* how many Target Threads it has created
  tpc,         \* where each Target Thread is
  rpc,         \* where the results manager is
  passes,      \* planp->passes
  loaded,      \* what a target read of it in planp->passes++
  pass,        \* tc_pass_number of each target
  currentPass, \* planp->current_pass_number, the passes processed
  tdAbort,     \* td_abort of each target
  working,     \* some Worker Thread of the target has a task
  abort, canceled, runTimeExpired, runComplete,  \* in xgp
  exitStatus,  \* the status main returns, or Running
  stopped      \* an I/O error has stopped a target (history)

globals == <<passes, abort, canceled, runTimeExpired, runComplete>>
tdata == <<loaded, pass, tdAbort, working, stopped>>
vars == <<main, created, tpc, rpc, currentPass, exitStatus, globals, tdata>>

Running == "RUNNING"

Init ==
  /\ main = "create" /\ created = 0 /\ rpc = "none"
  /\ tpc = [t \in Targets |-> "none"]
  /\ passes = Passes /\ currentPass = 0
  /\ loaded = [t \in Targets |-> 0]
  /\ pass = [t \in Targets |-> 1]
  /\ tdAbort = [t \in Targets |-> FALSE]
  /\ working = [t \in Targets |-> FALSE]
  /\ abort = FALSE /\ canceled = FALSE
  /\ runTimeExpired = FALSE /\ runComplete = FALSE
  /\ exitStatus = Running /\ stopped = FALSE

\* When main has returned, the process has ended, and with it every thread.
Alive == exitStatus = Running
At(t, place) == Alive /\ tpc[t] = place
Goto(t, place) == tpc' = [tpc EXCEPT ![t] = place]

-----------------------------------------------------------------------------
(* Decisions, each after the form a plausible slip would give it.           *)

MoreTargetsLate == created <= NumTargets     \* slip: off by one
MoreTargets == created < NumTargets

LastPass(t) == pass[t] >= passes

AfterRunningCanceled == IF canceled THEN "after_pass" ELSE "end"  \* slip: a
AfterRunning == "end"                        \* canceled target does not wait

AfterEndpassAtOnce == "after_pass"           \* slip: no display barrier
AfterEndpass == "disp"

NoAbortFromTargets == abort                  \* slip: td_abort is not looked at
AbortFromTargets == abort \/ \E t \in Targets : tdAbort[t]

AfterRunResultsAtOnce == "final"             \* slip: cleanup is not waited for
AfterRunResults == "cleanup_wait"

CompletesUnlessCanceled == ~canceled         \* slip: set only on a normal end
Completes == TRUE

-----------------------------------------------------------------------------
(* The main thread. *)

ReturnTargetStartFailure ==
  /\ exitStatus' = "TARGET_START_FAILURE"
  /\ main' = "exited"

\* xint_plan_start_targets creates the next target, or is through with them.
Create ==
  /\ main = "create"
  /\ IF MoreTargets
       THEN /\ created' = created + 1
            /\ Goto(created + 1, "init")
            /\ main' = "gen_init"
            /\ UNCHANGED rpc
       ELSE /\ rpc' = "gen_init"
            /\ main' = "gen_init_results"
            /\ UNCHANGED <<created, tpc>>
  /\ UNCHANGED <<currentPass, exitStatus, globals, tdata>>

\* pthread_create may fail.
CreateFails ==
  /\ main = "create" /\ MoreTargets /\ InitMayFail
  /\ ReturnTargetStartFailure
  /\ UNCHANGED <<created, tpc, rpc, currentPass, globals, tdata>>

\* main_general_init_barrier, with the target just created.
OpenInitTarget ==
  /\ main = "gen_init" /\ tpc[created] = "gen_init"
  /\ main' = "init_check"
  /\ Goto(created, "init_check")
  /\ UNCHANGED <<created, rpc, currentPass, exitStatus, globals, tdata>>

MainInitCheck ==
  /\ main = "init_check"
  /\ IF abort THEN ReturnTargetStartFailure
              ELSE main' = "create" /\ UNCHANGED exitStatus
  /\ UNCHANGED <<created, tpc, rpc, currentPass, globals, tdata>>

\* main_general_init_barrier, with the results manager.
OpenInitResults ==
  /\ main = "gen_init_results" /\ rpc = "gen_init"
  /\ main' = "wait_start"
  /\ rpc' = "start"
  /\ UNCHANGED <<created, tpc, currentPass, exitStatus, globals, tdata>>

\* main_targets_waitforstart_barrier
OpenWaitForStart ==
  /\ main = "wait_start" /\ \A t \in Targets : tpc[t] = "wait_start"
  /\ main' = "final"
  /\ tpc' = [t \in Targets |-> "start"]
  /\ UNCHANGED <<created, rpc, currentPass, exitStatus, globals, tdata>>

\* main_results_final_barrier, after which main decides on its exit status.
\* No target_errno is ever set (WorkerPool, TargetIoStatus).
OpenFinal ==
  /\ main = "final" /\ rpc = "final"
  /\ main' = "exited"
  /\ rpc' = "done"
  /\ exitStatus' = IF canceled THEN "CANCELED" ELSE IF abort THEN "IOERROR" ELSE "SUCCESS"
  /\ UNCHANGED <<created, tpc, currentPass, globals, tdata>>

-----------------------------------------------------------------------------
(* The barriers between the targets and the results manager.  A target is   *)
(* in a barrier when it is at one of its two places for it.                 *)

Barriers == {"startpass", "endpass", "display", "waitforcleanup"}
TargetPlaces(b) == CASE b = "startpass" -> {"start", "start_final"}
                     [] b = "endpass" -> {"end", "end_final"}
                     [] b = "display" -> {"disp", "disp_final"}
                     [] b = "waitforcleanup" -> {"cleanup_wait"}
ManagerPlaces(b) == CASE b = "startpass" -> {"start"}
                      [] b = "endpass" -> {"end"}
                      [] b = "display" -> {"disp", "disp_final", "disp_abort"}
                      [] b = "waitforcleanup" -> {"cleanup_wait"}

TargetLeavesTo(place) == CASE place = "start" -> "started"
                           [] place = "end" -> AfterEndpass
                           [] place = "disp" -> "after_pass"
                           [] place = "start_final" -> "end_final"
                           [] place = "end_final" -> "disp_final"
                           [] place = "disp_final" -> "cleanup"
                           [] place = "cleanup_wait" -> "done"
ManagerLeavesTo(place) == CASE place = "start" -> "end"
                            [] place = "end" -> "collect"
                            [] place = "disp" -> "start"
                            [] place = "disp_final" -> AfterRunResults
                            [] place = "disp_abort" -> "done"
                            [] place = "cleanup_wait" -> "final"

Open(b) ==
  /\ Alive /\ rpc \in ManagerPlaces(b)
  /\ \A t \in Targets : tpc[t] \in TargetPlaces(b)
  /\ rpc' = ManagerLeavesTo(rpc)
  /\ tpc' = [t \in Targets |-> TargetLeavesTo(tpc[t])]
  /\ UNCHANGED <<main, created, currentPass, exitStatus, globals, tdata>>

\* Between endpass and display: the results of the run, if it is over, or of
\* the pass.
Collect ==
  /\ Alive /\ rpc = "collect"
  /\ IF abort \/ runComplete
       THEN /\ abort' = AbortFromTargets
            /\ rpc' = IF abort THEN "disp_abort" ELSE "disp_final"
            /\ UNCHANGED currentPass
       ELSE /\ currentPass' = currentPass + 1
            /\ rpc' = "disp"
            /\ UNCHANGED abort
  /\ UNCHANGED <<main, created, tpc, exitStatus, passes, canceled, runTimeExpired,
                 runComplete, tdata>>

-----------------------------------------------------------------------------
(* A Target Thread. *)

TargetInit(t) ==
  /\ At(t, "init")
  /\ \E fails \in BOOLEAN : /\ fails => InitMayFail
                           /\ abort' = (abort \/ fails)
  /\ Goto(t, "gen_init")
  /\ UNCHANGED <<main, created, rpc, currentPass, exitStatus, passes, canceled,
                 runTimeExpired, runComplete, tdata>>

TargetInitCheck(t) ==
  /\ At(t, "init_check")
  /\ Goto(t, IF abort THEN "left" ELSE "wait_start")
  /\ UNCHANGED <<main, created, rpc, currentPass, exitStatus, globals, tdata>>

\* xdd_target_pass returns at once, without the other two barriers, when the
\* run was aborted or is complete.
Started(t) ==
  /\ At(t, "started")
  /\ Goto(t, IF abort THEN "after_pass" ELSE "complete_check")
  /\ UNCHANGED <<main, created, rpc, currentPass, exitStatus, globals, tdata>>

CompleteCheck(t) ==
  /\ At(t, "complete_check")
  /\ IF runComplete
       THEN /\ Goto(t, "after_pass")
            /\ UNCHANGED <<tdAbort, working>>
       ELSE /\ Goto(t, "running")
            /\ tdAbort' = [tdAbort EXCEPT ![t] = FALSE]
            /\ working' = [working EXCEPT ![t] = TRUE]
  /\ UNCHANGED <<main, created, rpc, currentPass, exitStatus, globals, loaded, pass, stopped>>

\* An I/O error with -stoponerror.
WorkerStops(t) ==
  /\ Alive /\ working[t] /\ StopOnError /\ ~tdAbort[t]
  /\ tdAbort' = [tdAbort EXCEPT ![t] = TRUE]
  /\ stopped' = TRUE
  /\ UNCHANGED <<main, created, tpc, rpc, currentPass, exitStatus, globals, loaded,
                 pass, working>>

WorkerCancels(t) ==
  /\ Alive /\ working[t] /\ MayCancel /\ ~canceled
  /\ canceled' = TRUE
  /\ UNCHANGED <<main, created, tpc, rpc, currentPass, exitStatus, passes, abort,
                 runTimeExpired, runComplete, tdata>>

\* xdd_runtime_before_io_op
RunTimeExpires(t) ==
  /\ At(t, "running") /\ RunTime /\ ~runTimeExpired
  /\ runTimeExpired' = TRUE
  /\ UNCHANGED <<main, created, tpc, rpc, currentPass, exitStatus, passes, abort,
                 canceled, runComplete, tdata>>

\* The pass is over.  A canceled target does not wait for its workers.
EndPass(t) ==
  /\ At(t, "running")
  /\ RunTime /\ pass[t] >= MaxPass => runTimeExpired
  /\ \E left \in BOOLEAN : /\ left => canceled
                          /\ working' = [working EXCEPT ![t] = left]
  /\ Goto(t, AfterRunning)
  /\ UNCHANGED <<main, created, rpc, currentPass, exitStatus, globals, loaded, pass,
                 tdAbort, stopped>>

AfterPass(t) ==
  /\ At(t, "after_pass")
  /\ Goto(t, IF canceled \/ abort \/ tdAbort[t] THEN "finish" ELSE "run_time")
  /\ UNCHANGED <<main, created, rpc, currentPass, exitStatus, globals, tdata>>

\* With -runtime the last pass is followed by another until the time is over.
RunTimeTest(t) ==
  /\ At(t, "run_time")
  /\ Goto(t, IF RunTime /\ runTimeExpired THEN "finish"
             ELSE IF RunTime /\ pass[t] = passes THEN "extend" ELSE "last_pass")
  /\ UNCHANGED <<main, created, rpc, currentPass, exitStatus, globals, tdata>>

\* planp->passes++ by several targets at once: a load and a store.
ExtendLoad(t) ==
  /\ At(t, "extend")
  /\ loaded' = [loaded EXCEPT ![t] = passes]
  /\ Goto(t, "extend_store")
  /\ UNCHANGED <<main, created, rpc, currentPass, exitStatus, globals, pass, tdAbort,
                 working, stopped>>

ExtendStore(t) ==
  /\ At(t, "extend_store")
  /\ passes' = loaded[t] + 1
  /\ Goto(t, "last_pass")
  /\ UNCHANGED <<main, created, rpc, currentPass, exitStatus, abort, canceled,
                 runTimeExpired, runComplete, tdata>>

\* Either this was the last pass, or the target goes on to the next one.
NextPass(t) ==
  /\ At(t, "last_pass")
  /\ IF LastPass(t)
       THEN /\ Goto(t, "finish")
            /\ UNCHANGED <<pass, abort>>
       ELSE /\ pass' = [pass EXCEPT ![t] = @ + 1]
            /\ \E fails \in BOOLEAN : /\ fails => ReopenMayFail
                                     /\ abort' = (abort \/ fails)
            /\ Goto(t, "start")
  /\ UNCHANGED <<main, created, rpc, currentPass, exitStatus, passes, canceled,
                 runTimeExpired, runComplete, loaded, tdAbort, working, stopped>>

Finish(t) ==
  /\ At(t, "finish")
  /\ runComplete' = (runComplete \/ Completes)
  /\ Goto(t, "start_final")
  /\ UNCHANGED <<main, created, rpc, currentPass, exitStatus, passes, abort, canceled,
                 runTimeExpired, tdata>>

\* The STOP tasks, each given to a worker that has come back to its barrier.
Cleanup(t) ==
  /\ At(t, "cleanup")
  /\ working' = [working EXCEPT ![t] = FALSE]
  /\ Goto(t, "cleanup_wait")
  /\ UNCHANGED <<main, created, rpc, currentPass, exitStatus, globals, loaded, pass,
                 tdAbort, stopped>>

-----------------------------------------------------------------------------
MainStep == \/ Create \/ CreateFails \/ OpenInitTarget \/ MainInitCheck
            \/ OpenInitResults \/ OpenWaitForStart \/ OpenFinal
ManagerStep == Collect \/ \E b \in Barriers : Open(b)
TargetStep(t) == \/ TargetInit(t) \/ TargetInitCheck(t) \/ Started(t) \/ CompleteCheck(t)
                 \/ RunTimeExpires(t) \/ EndPass(t) \/ AfterPass(t) \/ RunTimeTest(t)
                 \/ ExtendLoad(t) \/ ExtendStore(t) \/ NextPass(t) \/ Finish(t)
                 \/ Cleanup(t)
WorkerStep(t) == WorkerStops(t) \/ WorkerCancels(t)

Exited == ~Alive /\ UNCHANGED vars

Next == \/ MainStep \/ ManagerStep
        \/ \E t \in Targets : TargetStep(t) \/ WorkerStep(t)
        \/ Exited

Spec == Init /\ [][Next]_vars

\* Every thread that can run does; nothing obliges an I/O to fail.
FairSpec == /\ Spec
            /\ WF_vars(MainStep) /\ WF_vars(ManagerStep)
            /\ \A t \in Targets : WF_vars(TargetStep(t))
-----------------------------------------------------------------------------
(* Properties. *)

\* Where a Target Thread can be.
Places == {"none", "init", "gen_init", "init_check", "left", "wait_start", "start", "started",
           "complete_check", "running", "end", "disp", "after_pass", "run_time", "extend",
           "extend_store", "last_pass", "finish", "start_final", "end_final", "disp_final",
           "cleanup", "cleanup_wait", "done"}

TypeOK ==
  /\ main \in {"create", "gen_init", "init_check", "gen_init_results", "wait_start",
              "final", "exited"}
  /\ created \in 0..NumTargets
  /\ tpc \in [Targets -> Places]
  /\ rpc \in {"none", "gen_init", "start", "end", "collect", "disp", "disp_final",
             "disp_abort", "cleanup_wait", "final", "done"}
  /\ passes \in Nat /\ loaded \in [Targets -> Nat]
  /\ pass \in [Targets -> Nat \ {0}] /\ currentPass \in Nat
  /\ tdAbort \in [Targets -> BOOLEAN] /\ working \in [Targets -> BOOLEAN]
  /\ abort \in BOOLEAN /\ canceled \in BOOLEAN /\ stopped \in BOOLEAN
  /\ runTimeExpired \in BOOLEAN /\ runComplete \in BOOLEAN
  /\ exitStatus \in {Running, "TARGET_START_FAILURE", "CANCELED", "IOERROR", "SUCCESS"}

\* While the results manager reads the targets' counters, every target is
\* parked in the display barrier with the counters of the pass the manager
\* is about to count, and no worker changes them unless the run was canceled.
ResultsOfOnePass ==
  rpc = "collect" => \A t \in Targets :
    /\ tpc[t] \in {"disp", "disp_final"}
    /\ pass[t] = IF runComplete THEN currentPass ELSE currentPass + 1
    /\ working[t] => canceled

\* The targets decide alike: none is on its way out of the run while another
\* is still, or again, in a pass.  A run where they differ can never end.
Leaving(t) == tpc[t] \in {"finish", "start_final", "end_final", "disp_final"}
InPass(t) == tpc[t] \in {"start", "started", "complete_check", "running", "end", "disp"}
PassLockstep == \A t, u \in Targets : ~(Leaving(t) /\ InPass(u))

\* What the exit status says is so: success means that no I/O error stopped a
\* target and that every pass was made and processed; a run an error stopped
\* ends with the I/O error status unless it was canceled.
ExitStatusTells ==
  /\ exitStatus = "SUCCESS" => /\ ~stopped /\ ~canceled
                               /\ IF RunTime THEN runTimeExpired ELSE currentPass = Passes
  /\ exitStatus = "IOERROR" => stopped
  /\ exitStatus = "CANCELED" => canceled

\* A run that got past its start ends with every target cleaned up and all
\* the Worker Threads stopped.
CleanedUpAtExit ==
  exitStatus \in {"SUCCESS", "IOERROR", "CANCELED"} =>
    \A t \in Targets : tpc[t] = "done" /\ ~working[t]

-----------------------------------------------------------------------------
(* An inductive invariant: which phase of the run everybody is in, and what *)
(* the targets' decisions between two passes depend on.                     *)

\* No failure by which targets can decide differently, see RunResultsShown.
DecideAlike == /\ ~ReopenMayFail
               /\ StopOnError => Passes = 1 /\ ~RunTime

\* What all targets decide by when a pass is over.
GoOn == /\ ~canceled /\ ~(RunTime /\ runTimeExpired)
        /\ RunTime \/ currentPass < Passes

StartingUp ==
  \/ main \in {"create", "gen_init", "init_check", "gen_init_results", "wait_start"}
  \/ exitStatus = "TARGET_START_FAILURE"

StartUpInv == StartingUp =>
  /\ rpc \in {"none", "gen_init", "start"} /\ (main = "wait_start" => rpc = "start")
  /\ abort => main \in {"gen_init", "init_check", "exited"}
  /\ passes = Passes /\ currentPass = 0
  /\ ~canceled /\ ~runTimeExpired /\ ~runComplete /\ ~stopped
  /\ \A t \in Targets :
       /\ tpc[t] \in {"none", "init", "gen_init", "init_check", "left", "wait_start"}
       /\ tpc[t] \in {"init", "gen_init"} => main = "gen_init" /\ t = created
       /\ pass[t] = 1

\* A target that is between two passes, or on its way out of the run.
BetweenPasses(t) ==
  /\ tpc[t] \in {"after_pass", "run_time", "extend", "extend_store", "last_pass", "start",
                "finish", "start_final"}
  /\ pass[t] = IF tpc[t] = "start" THEN currentPass + 1 ELSE currentPass
  /\ tpc[t] \in {"run_time", "extend", "extend_store", "last_pass"} => ~canceled /\ ~tdAbort[t]
  /\ tpc[t] \in {"extend", "extend_store", "last_pass"} /\ RunTime => ~runTimeExpired
  /\ tpc[t] \in {"extend", "extend_store"} => RunTime
  /\ tpc[t] = "extend_store" => loaded[t] >= currentPass
  /\ tpc[t] \in {"last_pass", "start"} /\ RunTime => passes > currentPass
  /\ tpc[t] = "start" => GoOn
  /\ tpc[t] \in {"finish", "start_final"} => ~GoOn
  /\ tpc[t] = "start_final" => runComplete

\* A target in a pass that no target has been through yet.
MakingPass(t) == /\ tpc[t] \in {"started", "complete_check", "running", "end"}
                 /\ pass[t] = currentPass + 1

PhaseInv == ~StartingUp =>
  /\ rpc = "start" => /\ \A t \in Targets : BetweenPasses(t)
                      /\ runComplete => ~GoOn
  /\ rpc = "end" => \/ /\ \A t \in Targets : MakingPass(t)
                       /\ ~runComplete /\ passes > currentPass
                    \/ /\ \A t \in Targets : tpc[t] = "end_final" /\ pass[t] = currentPass
                       /\ runComplete /\ ~GoOn
  /\ rpc = "collect" => \/ /\ \A t \in Targets : tpc[t] = "disp" /\ pass[t] = currentPass + 1
                           /\ ~runComplete /\ passes > currentPass
                        \/ /\ \A t \in Targets : tpc[t] = "disp_final" /\ pass[t] = currentPass
                           /\ runComplete /\ ~GoOn
  /\ rpc = "disp" => /\ \A t \in Targets : tpc[t] = "disp" /\ pass[t] = currentPass
                     /\ ~runComplete
  /\ rpc = "disp_final" => \A t \in Targets : tpc[t] = "disp_final"
  /\ rpc = "cleanup_wait" => \A t \in Targets : tpc[t] \in {"cleanup", "cleanup_wait"}
  /\ rpc \in {"final", "done"} => \A t \in Targets : tpc[t] = "done"

RunInv ==
  /\ main = "exited" <=> exitStatus # Running
  /\ ~StartingUp =>
       /\ rpc \in {"start", "end", "collect", "disp", "disp_final", "cleanup_wait", "final",
                  "done"}
       /\ rpc \in {"start", "end", "collect", "disp"} => ~abort
       /\ rpc \in {"disp_final", "cleanup_wait", "final", "done"} =>
            ~GoOn /\ (abort => stopped) /\ (stopped => abort \/ canceled)
       /\ main = "exited" => rpc = "done"
  /\ passes >= currentPass /\ (~RunTime => passes = Passes)

WorkersInv ==
  /\ \A t \in Targets :
       /\ working[t] => tpc[t] = "running" \/ canceled
       /\ working[t] => tpc[t] \notin {"cleanup_wait", "done"}
       /\ tdAbort[t] => StopOnError /\ stopped
       /\ tdAbort[t] \/ working[t] => ~StartingUp
       /\ tdAbort[t] \/ working[t] => tpc[t] \notin {"start", "started", "complete_check"}
  /\ stopped /\ ~canceled /\ rpc \in {"start", "end", "collect", "disp"} =>
       \E t \in Targets : tdAbort[t]

CoordInv == TypeOK /\ StartUpInv /\ PhaseInv /\ RunInv /\ WorkersInv

\* The run ends.
RunEnds == <>(exitStatus # Running)

\* target_thread.c:136: a target that gets to the end of its run waits there
\* for the others, and then the results manager displays the run results.
RunResultsShown ==
  (\E t \in Targets : tpc[t] = "start_final") ~> (rpc \in {"disp_final", "disp_abort"})
=============================================================================
