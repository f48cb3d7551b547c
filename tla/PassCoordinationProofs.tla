---------------------- MODULE PassCoordinationProofs ----------------------
(***************************************************************************)
(* Proofs about PassCoordination, for every number of targets and passes,  *)
(* with -runtime or without.                                               *)
(*                                                                         *)
(* The argument: the results manager's place tells the phase of the run,   *)
(* and with it where every Target Thread can be (PhaseInv).  Between two   *)
(* passes, each target decides whether to go on; all of them decide by the *)
(* same fact (GoOn), which nothing changes until every target has decided. *)
(* So all meet again in the same barrier, either for another pass or for   *)
(* the results of the run.  RunInv and WorkersInv keep the flags that the  *)
(* exit status is made of, and what the Worker Threads may still do.       *)
(*                                                                         *)
(* DecideAlike is assumed where a theorem says so: without it, targets can *)
(* decide differently and the run hangs, as the run coord_stop_on_error    *)
(* shows.                                                                  *)
(***************************************************************************)
EXTENDS PassCoordination, TLAPS

USE CoordAssumption DEF CoordAssumption, Targets, Running, Alive

\* A Target Thread's place tells where the results manager is.
LEMMA ManagersPlace ==
  ASSUME CoordInv, ~StartingUp, NEW t \in Targets
  PROVE  /\ tpc[t] \notin {"none", "init", "gen_init", "init_check", "left", "wait_start"}
         /\ tpc[t] \in {"after_pass", "run_time", "extend", "extend_store", "last_pass", "start",
                        "finish", "start_final"} => rpc = "start"
         /\ tpc[t] \in {"started", "complete_check", "running", "end"} =>
              rpc = "end" /\ ~runComplete /\ passes > currentPass
                /\ \A u \in Targets : MakingPass(u)
         /\ tpc[t] \in {"cleanup", "cleanup_wait"} => rpc = "cleanup_wait"
BY DEF CoordInv, PhaseInv, RunInv, BetweenPasses, MakingPass

\* Each action keeps every variable's type.
LEMMA TypeStep ==
  ASSUME TypeOK, [Next]_vars
  PROVE  TypeOK'
<1> USE DEF TypeOK, Places, vars, globals, tdata
<1>1. CASE Create
  <2>1. CASE MoreTargets
    <3>1. created' = created + 1 /\ created' \in 0..NumTargets
      BY <1>1, <2>1 DEF Create, MoreTargets
    <3>2. tpc' = [tpc EXCEPT ![created + 1] = "init"] /\ main' = "gen_init" /\ rpc' = rpc
      BY <1>1, <2>1 DEF Create, Goto
    <3>3. UNCHANGED <<currentPass, exitStatus, globals, tdata>>
      BY <1>1 DEF Create
    <3>4. QED
      BY <3>1, <3>2, <3>3
  <2>2. CASE ~MoreTargets
    BY <1>1, <2>2 DEF Create
  <2>3. QED
    BY <2>1, <2>2
<1>2. CASE CreateFails
  BY <1>2 DEF CreateFails, MoreTargets, ReturnTargetStartFailure
<1>3. CASE OpenInitTarget
  <2>1. tpc' = [tpc EXCEPT ![created] = "init_check"] /\ main' = "init_check"
    BY <1>3 DEF OpenInitTarget, Goto
  <2>2. UNCHANGED <<created, rpc, currentPass, exitStatus, globals, tdata>>
    BY <1>3 DEF OpenInitTarget
  <2>3. QED
    BY <2>1, <2>2
<1>4. CASE MainInitCheck
  BY <1>4 DEF MainInitCheck, ReturnTargetStartFailure
<1>5. CASE OpenInitResults
  BY <1>5 DEF OpenInitResults
<1>6. CASE OpenWaitForStart
  BY <1>6 DEF OpenWaitForStart
<1>7. CASE OpenFinal
  BY <1>7 DEF OpenFinal
<1>8. CASE Collect
  BY <1>8 DEF Collect, AbortFromTargets
<1>9. ASSUME NEW b \in Barriers, Open(b)
      PROVE  TypeOK'
  BY <1>9
     DEF Open, Barriers, TargetPlaces, ManagerPlaces, TargetLeavesTo, ManagerLeavesTo,
         AfterEndpass, AfterRunResults, Alive
<1>10. ASSUME NEW t \in Targets, TargetInit(t)
      PROVE  TypeOK'
  BY <1>10 DEF TargetInit, Goto, At
<1>11. ASSUME NEW t \in Targets, TargetInitCheck(t)
      PROVE  TypeOK'
  BY <1>11 DEF TargetInitCheck, Goto, At
<1>12. ASSUME NEW t \in Targets, Started(t)
      PROVE  TypeOK'
  BY <1>12 DEF Started, Goto, At
<1>13. ASSUME NEW t \in Targets, CompleteCheck(t)
      PROVE  TypeOK'
  <2>1. tpc' = [tpc EXCEPT ![t] = "after_pass"] \/ tpc' = [tpc EXCEPT ![t] = "running"]
    BY <1>13 DEF CompleteCheck, Goto
  <2>2. tdAbort' \in [Targets -> BOOLEAN]
    BY <1>13 DEF CompleteCheck
  <2>3. working' \in [Targets -> BOOLEAN]
    BY <1>13 DEF CompleteCheck
  <2>4. UNCHANGED <<main, created, rpc, currentPass, exitStatus, globals, loaded, pass, stopped>>
    BY <1>13 DEF CompleteCheck
  <2>5. tpc' \in [Targets -> Places]
    BY <2>1 DEF Places
  <2>6. QED
    BY <2>2, <2>3, <2>4, <2>5
<1>14. ASSUME NEW t \in Targets, RunTimeExpires(t)
      PROVE  TypeOK'
  BY <1>14 DEF RunTimeExpires, At
<1>15. ASSUME NEW t \in Targets, EndPass(t)
      PROVE  TypeOK'
  BY <1>15 DEF EndPass, AfterRunning, Goto, At
<1>16. ASSUME NEW t \in Targets, AfterPass(t)
      PROVE  TypeOK'
  BY <1>16 DEF AfterPass, Goto, At
<1>17. ASSUME NEW t \in Targets, RunTimeTest(t)
      PROVE  TypeOK'
  BY <1>17 DEF RunTimeTest, Goto, At
<1>18. ASSUME NEW t \in Targets, ExtendLoad(t)
      PROVE  TypeOK'
  BY <1>18 DEF ExtendLoad, Goto, At
<1>19. ASSUME NEW t \in Targets, ExtendStore(t)
      PROVE  TypeOK'
  BY <1>19 DEF ExtendStore, Goto, At
<1>20. ASSUME NEW t \in Targets, NextPass(t)
      PROVE  TypeOK'
  BY <1>20, SMTT(30) DEF NextPass, LastPass, Goto, At, vars
<1>21. ASSUME NEW t \in Targets, Finish(t)
      PROVE  TypeOK'
  BY <1>21 DEF Finish, Completes, Goto, At
<1>22. ASSUME NEW t \in Targets, Cleanup(t)
      PROVE  TypeOK'
  BY <1>22 DEF Cleanup, Goto, At
<1>23. ASSUME NEW t \in Targets, WorkerStops(t)
      PROVE  TypeOK'
  BY <1>23 DEF WorkerStops
<1>24. ASSUME NEW t \in Targets, WorkerCancels(t)
      PROVE  TypeOK'
  BY <1>24 DEF WorkerCancels
<1>25. CASE UNCHANGED vars
  BY <1>25
<1>26. QED
  BY <1>1, <1>2, <1>3, <1>4, <1>5, <1>6, <1>7, <1>8, <1>9, <1>10, <1>11, <1>12, <1>13,
     <1>14, <1>15, <1>16, <1>17, <1>18, <1>19, <1>20, <1>21, <1>22, <1>23, <1>24, <1>25
     DEF Next, MainStep, ManagerStep, TargetStep, WorkerStep, Exited

\* While the main thread creates the targets and waits for their initialization,
\* none is past it: StartUpInv is kept by every action.
LEMMA StartUpStep ==
  ASSUME CoordInv, [Next]_vars
  PROVE  StartUpInv'
<1>1. CASE Create
  BY <1>1
     DEF Create, MoreTargets, Goto, StartUpInv, StartingUp, globals, tdata, CoordInv,
         TypeOK, RunInv
<1>2. CASE CreateFails
  BY <1>2
     DEF CreateFails, MoreTargets, ReturnTargetStartFailure, StartUpInv, StartingUp,
         globals, tdata, CoordInv
<1>3. CASE OpenInitTarget
  BY <1>3 DEF OpenInitTarget, Goto, StartUpInv, StartingUp, globals, tdata, CoordInv, TypeOK
<1>4. CASE MainInitCheck
  BY <1>4
     DEF MainInitCheck, ReturnTargetStartFailure, StartUpInv, StartingUp, globals, tdata,
         CoordInv
<1>5. CASE OpenInitResults
  BY <1>5 DEF OpenInitResults, StartUpInv, StartingUp, globals, tdata, CoordInv
<1>6. CASE OpenWaitForStart
  BY <1>6 DEF OpenWaitForStart, StartUpInv, StartingUp, CoordInv, RunInv
<1>7. CASE OpenFinal
  BY <1>7 DEF OpenFinal, StartUpInv, StartingUp
<1>8. CASE Collect
  BY <1>8 DEF Collect, AbortFromTargets, StartUpInv, StartingUp, CoordInv
<1>9. ASSUME NEW b \in Barriers, Open(b)
      PROVE  StartUpInv'
  <2>1. ~StartingUp
    BY <1>9, 1 \in Targets DEF CoordInv, StartUpInv, Open, Barriers, TargetPlaces
  <2>2. ~StartingUp'
    BY <1>9, <2>1 DEF StartingUp, Open
  <2>3. QED
    BY <2>2 DEF StartUpInv
<1>10. ASSUME NEW t \in Targets, TargetInit(t)
      PROVE  StartUpInv'
  BY <1>10 DEF TargetInit, Goto, At, StartUpInv, StartingUp, tdata, CoordInv
<1>11. ASSUME NEW t \in Targets, TargetInitCheck(t)
      PROVE  StartUpInv'
  BY <1>11 DEF TargetInitCheck, Goto, At, StartUpInv, StartingUp, globals, tdata, CoordInv
<1>12. ASSUME NEW t \in Targets, Started(t)
      PROVE  StartUpInv'
  <2>1. ~StartingUp
    BY <1>12 DEF CoordInv, StartUpInv, Started, At
  <2>2. ~StartingUp'
    BY <1>12, <2>1 DEF StartingUp, Started, globals, tdata
  <2>3. QED
    BY <2>2 DEF StartUpInv
<1>13. ASSUME NEW t \in Targets, CompleteCheck(t)
      PROVE  StartUpInv'
  <2>1. ~StartingUp
    BY <1>13 DEF CoordInv, StartUpInv, CompleteCheck, At
  <2>2. ~StartingUp'
    BY <1>13, <2>1 DEF StartingUp, CompleteCheck, globals, tdata
  <2>3. QED
    BY <2>2 DEF StartUpInv
<1>14. ASSUME NEW t \in Targets, RunTimeExpires(t)
      PROVE  StartUpInv'
  <2>1. ~StartingUp
    BY <1>14 DEF CoordInv, StartUpInv, RunTimeExpires, At
  <2>2. ~StartingUp'
    BY <1>14, <2>1 DEF StartingUp, RunTimeExpires, globals, tdata
  <2>3. QED
    BY <2>2 DEF StartUpInv
<1>15. ASSUME NEW t \in Targets, EndPass(t)
      PROVE  StartUpInv'
  <2>1. ~StartingUp
    BY <1>15 DEF CoordInv, StartUpInv, EndPass, AfterRunning, At
  <2>2. ~StartingUp'
    BY <1>15, <2>1 DEF StartingUp, EndPass, globals, tdata
  <2>3. QED
    BY <2>2 DEF StartUpInv
<1>16. ASSUME NEW t \in Targets, AfterPass(t)
      PROVE  StartUpInv'
  <2>1. ~StartingUp
    BY <1>16 DEF CoordInv, StartUpInv, AfterPass, At
  <2>2. ~StartingUp'
    BY <1>16, <2>1 DEF StartingUp, AfterPass, globals, tdata
  <2>3. QED
    BY <2>2 DEF StartUpInv
<1>17. ASSUME NEW t \in Targets, RunTimeTest(t)
      PROVE  StartUpInv'
  <2>1. ~StartingUp
    BY <1>17 DEF CoordInv, StartUpInv, RunTimeTest, At
  <2>2. ~StartingUp'
    BY <1>17, <2>1 DEF StartingUp, RunTimeTest, globals, tdata
  <2>3. QED
    BY <2>2 DEF StartUpInv
<1>18. ASSUME NEW t \in Targets, ExtendLoad(t)
      PROVE  StartUpInv'
  <2>1. ~StartingUp
    BY <1>18 DEF CoordInv, StartUpInv, ExtendLoad, At
  <2>2. ~StartingUp'
    BY <1>18, <2>1 DEF StartingUp, ExtendLoad, globals, tdata
  <2>3. QED
    BY <2>2 DEF StartUpInv
<1>19. ASSUME NEW t \in Targets, ExtendStore(t)
      PROVE  StartUpInv'
  <2>1. ~StartingUp
    BY <1>19 DEF CoordInv, StartUpInv, ExtendStore, At
  <2>2. ~StartingUp'
    BY <1>19, <2>1 DEF StartingUp, ExtendStore, globals, tdata
  <2>3. QED
    BY <2>2 DEF StartUpInv
<1>20. ASSUME NEW t \in Targets, NextPass(t)
      PROVE  StartUpInv'
  <2>1. ~StartingUp
    BY <1>20 DEF CoordInv, StartUpInv, NextPass, LastPass, At
  <2>2. ~StartingUp'
    BY <1>20, <2>1 DEF StartingUp, NextPass, globals, tdata
  <2>3. QED
    BY <2>2 DEF StartUpInv
<1>21. ASSUME NEW t \in Targets, Finish(t)
      PROVE  StartUpInv'
  <2>1. ~StartingUp
    BY <1>21 DEF CoordInv, StartUpInv, Finish, Completes, At
  <2>2. ~StartingUp'
    BY <1>21, <2>1 DEF StartingUp, Finish, globals, tdata
  <2>3. QED
    BY <2>2 DEF StartUpInv
<1>22. ASSUME NEW t \in Targets, Cleanup(t)
      PROVE  StartUpInv'
  <2>1. ~StartingUp
    BY <1>22 DEF CoordInv, StartUpInv, Cleanup, At
  <2>2. ~StartingUp'
    BY <1>22, <2>1 DEF StartingUp, Cleanup, globals, tdata
  <2>3. QED
    BY <2>2 DEF StartUpInv
<1>23. ASSUME NEW t \in Targets, WorkerStops(t)
      PROVE  StartUpInv'
  <2>1. ~StartingUp
    BY <1>23 DEF CoordInv, WorkersInv, WorkerStops
  <2>2. ~StartingUp'
    BY <1>23, <2>1 DEF StartingUp, WorkerStops, globals, tdata
  <2>3. QED
    BY <2>2 DEF StartUpInv
<1>24. ASSUME NEW t \in Targets, WorkerCancels(t)
      PROVE  StartUpInv'
  <2>1. ~StartingUp
    BY <1>24 DEF CoordInv, WorkersInv, WorkerCancels
  <2>2. ~StartingUp'
    BY <1>24, <2>1 DEF StartingUp, WorkerCancels, globals, tdata
  <2>3. QED
    BY <2>2 DEF StartUpInv
<1>25. CASE UNCHANGED vars
  BY <1>25 DEF StartUpInv, StartingUp, globals, tdata, CoordInv, vars
<1>26. QED
  BY <1>1, <1>2, <1>3, <1>4, <1>5, <1>6, <1>7, <1>8, <1>9, <1>10, <1>11, <1>12, <1>13,
     <1>14, <1>15, <1>16, <1>17, <1>18, <1>19, <1>20, <1>21, <1>22, <1>23, <1>24, <1>25
     DEF Next, MainStep, ManagerStep, TargetStep, WorkerStep, Exited

\* The manager's place tells where the targets are: each barrier, opening, takes
\* the manager and all targets to the next phase together (xdd_target_pass).
LEMMA PhaseStep ==
  ASSUME CoordInv, DecideAlike, [Next]_vars
  PROVE  PhaseInv'
<1>1. CASE Create
  BY <1>1 DEF Create, MoreTargets, Goto, PhaseInv, StartingUp
<1>2. CASE CreateFails
  BY <1>2 DEF CreateFails, MoreTargets, ReturnTargetStartFailure, PhaseInv, StartingUp
<1>3. CASE OpenInitTarget
  BY <1>3 DEF OpenInitTarget, Goto, PhaseInv, StartingUp
<1>4. CASE MainInitCheck
  BY <1>4 DEF MainInitCheck, ReturnTargetStartFailure, PhaseInv, StartingUp
<1>5. CASE OpenInitResults
  BY <1>5 DEF OpenInitResults, PhaseInv, StartingUp
<1>6. CASE OpenWaitForStart
  <2>1. StartingUp /\ main = "wait_start" /\ ~abort
    BY <1>6 DEF StartingUp, OpenWaitForStart, CoordInv, StartUpInv
  <2>2. rpc' = "start" /\ GoOn' /\ ~runComplete' /\ passes' > currentPass'
    BY <1>6, <2>1 DEF CoordInv, StartUpInv, GoOn, OpenWaitForStart, globals
  <2>3. \A t \in Targets : BetweenPasses(t)'
    BY <1>6, <2>1, <2>2
       DEF CoordInv, StartUpInv, BetweenPasses, OpenWaitForStart, globals, tdata
  <2>4. QED
    BY <2>2, <2>3 DEF PhaseInv
<1>7. CASE OpenFinal
  BY <1>7 DEF OpenFinal, PhaseInv, CoordInv, StartUpInv
<1>8. CASE Collect
  BY <1>8 DEF Collect, AbortFromTargets, PhaseInv, StartingUp, tdata, CoordInv
<1>9. ASSUME NEW b \in Barriers, Open(b)
      PROVE  PhaseInv'
  <2>1. ~StartingUp /\ ~StartingUp'
    BY <1>9, 1 \in Targets
       DEF CoordInv, StartUpInv, Open, Barriers, TargetPlaces, StartingUp
  <2>2. /\ UNCHANGED <<pass, currentPass, passes, runComplete, canceled, runTimeExpired>>
        /\ GoOn' <=> GoOn
    BY <1>9 DEF Open, globals, tdata, GoOn
  <2>3. /\ rpc \in ManagerPlaces(b) /\ rpc' = ManagerLeavesTo(rpc)
        /\ \A t \in Targets : tpc[t] \in TargetPlaces(b) /\ tpc'[t] = TargetLeavesTo(tpc[t])
    BY <1>9 DEF Open
  <2>4. CASE b = "startpass"
    <3>1. rpc = "start" /\ rpc' = "end" /\ (runComplete => ~GoOn)
      BY <2>1, <2>3, <2>4 DEF ManagerPlaces, ManagerLeavesTo, CoordInv, PhaseInv
    <3>2. \A t \in Targets :
            /\ BetweenPasses(t) /\ tpc[t] \in {"start", "start_final"}
            /\ tpc'[t] = TargetLeavesTo(tpc[t])
      BY <2>1, <2>3, <2>4, <3>1 DEF TargetPlaces, CoordInv, PhaseInv
    <3>3. CASE GoOn
      <4>1. \A t \in Targets : tpc[t] = "start" /\ tpc'[t] = "started" /\ pass[t] = currentPass + 1
        BY <3>2, <3>3 DEF BetweenPasses, TargetLeavesTo
      <4>2. passes > currentPass
        <5>1. CASE RunTime
          BY <4>1, <3>2, <5>1, 1 \in Targets DEF BetweenPasses
        <5>2. CASE ~RunTime
          BY <3>3, <5>2 DEF GoOn, CoordInv, RunInv
        <5>3. QED
          BY <5>1, <5>2
      <4>3. QED
        BY <2>1, <2>2, <3>1, <3>3, <4>1, <4>2 DEF PhaseInv, MakingPass
    <3>4. CASE ~GoOn
      <4>1. \A t \in Targets :
              /\ tpc[t] = "start_final" /\ tpc'[t] = "end_final"
              /\ pass[t] = currentPass /\ runComplete
        BY <3>2, <3>4 DEF BetweenPasses, TargetLeavesTo
      <4>2. runComplete
        BY <4>1, 1 \in Targets
      <4>3. QED
        BY <2>1, <2>2, <3>1, <3>4, <4>1, <4>2 DEF PhaseInv
    <3>5. QED
      BY <3>3, <3>4
  <2>5. CASE b = "endpass"
    <3>1. rpc = "end" /\ rpc' = "collect"
      BY <2>3, <2>5 DEF ManagerPlaces, ManagerLeavesTo
    <3>2. \A t \in Targets : /\ tpc[t] = "end" => tpc'[t] = "disp"
                             /\ tpc[t] = "end_final" => tpc'[t] = "disp_final"
      BY <2>3 DEF TargetLeavesTo, AfterEndpass
    <3>3. \A t \in Targets : tpc[t] \in {"end", "end_final"}
      BY <2>3, <2>5 DEF TargetPlaces
    <3>4. QED
      BY <2>1, <2>2, <3>1, <3>2, <3>3 DEF CoordInv, PhaseInv, MakingPass
  <2>6. CASE b = "display"
    <3>1. CASE rpc = "disp"
      <4>1. /\ rpc' = "start" /\ ~runComplete
            /\ \A t \in Targets : tpc'[t] = "after_pass" /\ pass[t] = currentPass
        BY <2>1, <2>3, <3>1 DEF ManagerLeavesTo, TargetLeavesTo, CoordInv, PhaseInv
      <4>2. QED
        BY <2>1, <2>2, <4>1 DEF PhaseInv, BetweenPasses
    <3>2. CASE rpc = "disp_final"
      <4>1. rpc' = "cleanup_wait" /\ \A t \in Targets : tpc'[t] = "cleanup"
        BY <2>1, <2>3, <3>2
           DEF ManagerLeavesTo, AfterRunResults, TargetLeavesTo, CoordInv, PhaseInv
      <4>2. QED
        BY <2>1, <4>1 DEF PhaseInv
    <3>3. QED
      BY <2>1, <2>3, <2>6, <3>1, <3>2 DEF ManagerPlaces, CoordInv, RunInv
  <2>7. CASE b = "waitforcleanup"
    <3>1. rpc' = "final" /\ \A t \in Targets : tpc'[t] = "done"
      BY <2>3, <2>7 DEF ManagerPlaces, ManagerLeavesTo, TargetPlaces, TargetLeavesTo
    <3>2. QED
      BY <2>1, <3>1 DEF PhaseInv
  <2>8. QED
    BY <2>4, <2>5, <2>6, <2>7 DEF Barriers
<1>10. ASSUME NEW t \in Targets, TargetInit(t)
      PROVE  PhaseInv'
  <2>1. StartingUp
    BY <1>10, ManagersPlace DEF CoordInv, TargetInit, At
  <2>2. StartingUp'
    BY <1>10, <2>1 DEF StartingUp, TargetInit
  <2>3. QED
    BY <2>2 DEF PhaseInv
<1>11. ASSUME NEW t \in Targets, TargetInitCheck(t)
      PROVE  PhaseInv'
  <2>1. StartingUp
    BY <1>11, ManagersPlace DEF CoordInv, TargetInitCheck, At
  <2>2. StartingUp'
    BY <1>11, <2>1 DEF StartingUp, TargetInitCheck
  <2>3. QED
    BY <2>2 DEF PhaseInv
<1>12. ASSUME NEW t \in Targets, Started(t)
      PROVE  PhaseInv'
  <2>1. ~StartingUp /\ tpc[t] = "started"
    BY <1>12 DEF CoordInv, StartUpInv, Started, At
  <2>2. rpc = "end" /\ ~runComplete /\ passes > currentPass /\ \A u \in Targets : MakingPass(u)
    BY <2>1, ManagersPlace
  <2>3. tpc' = [tpc EXCEPT ![t] = "complete_check"]
    BY <1>12, <2>1, <2>2 DEF Started, Goto, CoordInv, RunInv
  <2>4. UNCHANGED <<main, exitStatus, rpc, pass, currentPass, passes, runComplete>>
    BY <1>12 DEF Started, globals, tdata
  <2>5. \A u \in Targets : MakingPass(u)'
    BY <2>2, <2>3, <2>4 DEF MakingPass, CoordInv, TypeOK
  <2>6. QED
    BY <2>1, <2>2, <2>4, <2>5 DEF PhaseInv, StartingUp
<1>13. ASSUME NEW t \in Targets, CompleteCheck(t)
      PROVE  PhaseInv'
  <2>1. ~StartingUp /\ tpc[t] = "complete_check"
    BY <1>13 DEF CoordInv, StartUpInv, CompleteCheck, At
  <2>2. rpc = "end" /\ ~runComplete /\ passes > currentPass /\ \A u \in Targets : MakingPass(u)
    BY <2>1, ManagersPlace
  <2>3. tpc' = [tpc EXCEPT ![t] = "running"]
    BY <1>13, <2>2 DEF CompleteCheck, Goto
  <2>4. UNCHANGED <<main, exitStatus, rpc, pass, currentPass, passes, runComplete>>
    BY <1>13 DEF CompleteCheck, globals
  <2>5. \A u \in Targets : MakingPass(u)'
    BY <2>2, <2>3, <2>4 DEF MakingPass, CoordInv, TypeOK
  <2>6. QED
    BY <2>1, <2>2, <2>4, <2>5 DEF PhaseInv, StartingUp
<1>14. ASSUME NEW t \in Targets, RunTimeExpires(t)
      PROVE  PhaseInv'
  <2>1. ~StartingUp /\ tpc[t] = "running"
    BY <1>14 DEF CoordInv, StartUpInv, WorkersInv, RunTimeExpires, At
  <2>2. rpc = "end" /\ ~runComplete /\ passes > currentPass /\ \A u \in Targets : MakingPass(u)
    BY <2>1, ManagersPlace
  <2>3. UNCHANGED <<main, exitStatus, rpc, tpc, pass, currentPass, passes, runComplete>>
    BY <1>14 DEF tdata, RunTimeExpires
  <2>4. \A u \in Targets : MakingPass(u)'
    BY <2>2, <2>3 DEF MakingPass
  <2>5. QED
    BY <2>1, <2>2, <2>3, <2>4 DEF PhaseInv, StartingUp
<1>15. ASSUME NEW t \in Targets, EndPass(t)
      PROVE  PhaseInv'
  <2>1. ~StartingUp /\ tpc[t] = "running"
    BY <1>15 DEF CoordInv, StartUpInv, EndPass, At
  <2>2. rpc = "end" /\ ~runComplete /\ passes > currentPass /\ \A u \in Targets : MakingPass(u)
    BY <2>1, ManagersPlace
  <2>3. tpc' = [tpc EXCEPT ![t] = "end"]
    BY <1>15 DEF EndPass, Goto, AfterRunning
  <2>4. UNCHANGED <<main, exitStatus, rpc, pass, currentPass, passes, runComplete>>
    BY <1>15 DEF EndPass, globals
  <2>5. \A u \in Targets : MakingPass(u)'
    BY <2>2, <2>3, <2>4 DEF MakingPass, CoordInv, TypeOK
  <2>6. QED
    BY <2>1, <2>2, <2>4, <2>5 DEF PhaseInv, StartingUp
<1>16. ASSUME NEW t \in Targets, AfterPass(t)
      PROVE  PhaseInv'
  <2>1. /\ ~StartingUp /\ rpc = "start" /\ ~abort
        /\ \A u \in Targets : BetweenPasses(u)
        /\ runComplete => ~GoOn
    BY <1>16, ManagersPlace DEF CoordInv, StartUpInv, PhaseInv, RunInv, AfterPass, At
  <2>2. ~StartingUp' /\ rpc' = "start" /\ (GoOn' <=> GoOn)
    BY <1>16, <2>1 DEF StartingUp, GoOn, globals, tdata, AfterPass
  <2>3. BetweenPasses(t)'
    BY <1>16, <2>1, <2>2
       DEF CoordInv, TypeOK, WorkersInv, DecideAlike, BetweenPasses, GoOn, globals, tdata,
           AfterPass, Goto, At
  <2>4. \A u \in Targets : u # t => BetweenPasses(u)'
    BY <1>16, <2>1, <2>2 DEF BetweenPasses, globals, tdata, AfterPass, Goto, At
  <2>5. runComplete' => ~GoOn'
    BY <1>16, <2>1, <2>2 DEF BetweenPasses, globals, tdata, AfterPass, At
  <2>6. QED
    BY <2>1, <2>2, <2>3, <2>4, <2>5 DEF PhaseInv
<1>17. ASSUME NEW t \in Targets, RunTimeTest(t)
      PROVE  PhaseInv'
  <2>1. /\ ~StartingUp /\ rpc = "start" /\ ~abort
        /\ \A u \in Targets : BetweenPasses(u)
        /\ runComplete => ~GoOn
    BY <1>17, ManagersPlace DEF CoordInv, StartUpInv, PhaseInv, RunInv, RunTimeTest, At
  <2>2. ~StartingUp' /\ rpc' = "start" /\ (GoOn' <=> GoOn)
    BY <1>17, <2>1 DEF StartingUp, GoOn, globals, tdata, RunTimeTest
  <2>3. BetweenPasses(t)'
    BY <1>17, <2>1, <2>2
       DEF RunTimeTest, Goto, At, BetweenPasses, GoOn, globals, tdata, CoordInv, TypeOK,
           RunInv
  <2>4. \A u \in Targets : u # t => BetweenPasses(u)'
    BY <1>17, <2>1, <2>2 DEF BetweenPasses, globals, tdata, RunTimeTest, Goto, At
  <2>5. runComplete' => ~GoOn'
    BY <1>17, <2>1, <2>2 DEF BetweenPasses, globals, tdata, RunTimeTest, At
  <2>6. QED
    BY <2>1, <2>2, <2>3, <2>4, <2>5 DEF PhaseInv
<1>18. ASSUME NEW t \in Targets, ExtendLoad(t)
      PROVE  PhaseInv'
  <2>1. /\ ~StartingUp /\ rpc = "start" /\ ~abort
        /\ \A u \in Targets : BetweenPasses(u)
        /\ runComplete => ~GoOn
    BY <1>18, ManagersPlace DEF CoordInv, StartUpInv, PhaseInv, RunInv, ExtendLoad, At
  <2>2. ~StartingUp' /\ rpc' = "start" /\ (GoOn' <=> GoOn)
    BY <1>18, <2>1 DEF StartingUp, GoOn, globals, tdata, ExtendLoad
  <2>3. BetweenPasses(t)'
    BY <1>18, <2>1, <2>2
       DEF ExtendLoad, Goto, At, BetweenPasses, globals, CoordInv, TypeOK, RunInv
  <2>4. \A u \in Targets : u # t => BetweenPasses(u)'
    BY <1>18, <2>1, <2>2 DEF BetweenPasses, globals, ExtendLoad, Goto, At
  <2>5. runComplete' => ~GoOn'
    BY <1>18, <2>1, <2>2 DEF BetweenPasses, globals, tdata, ExtendLoad, At
  <2>6. QED
    BY <2>1, <2>2, <2>3, <2>4, <2>5 DEF PhaseInv
<1>19. ASSUME NEW t \in Targets, ExtendStore(t)
      PROVE  PhaseInv'
  <2>1. /\ ~StartingUp /\ rpc = "start" /\ ~abort
        /\ \A u \in Targets : BetweenPasses(u)
        /\ runComplete => ~GoOn
    BY <1>19, ManagersPlace DEF CoordInv, StartUpInv, PhaseInv, RunInv, ExtendStore, At
  <2>2. ~StartingUp' /\ rpc' = "start" /\ (GoOn' <=> GoOn)
    BY <1>19, <2>1 DEF StartingUp, GoOn, globals, tdata, ExtendStore
  <2>3. BetweenPasses(t)'
    BY <1>19, <2>1, <2>2 DEF ExtendStore, Goto, At, BetweenPasses, tdata, CoordInv, TypeOK
  <2>4. \A u \in Targets : u # t => BetweenPasses(u)'
    BY <1>19, <2>1, <2>2 DEF CoordInv, TypeOK, BetweenPasses, tdata, ExtendStore, Goto, At
  <2>5. runComplete' => ~GoOn'
    BY <1>19, <2>1, <2>2 DEF BetweenPasses, globals, tdata, ExtendStore, At
  <2>6. QED
    BY <2>1, <2>2, <2>3, <2>4, <2>5 DEF PhaseInv
<1>20. ASSUME NEW t \in Targets, NextPass(t)
      PROVE  PhaseInv'
  <2>1. /\ ~StartingUp /\ rpc = "start" /\ ~abort
        /\ \A u \in Targets : BetweenPasses(u)
        /\ runComplete => ~GoOn
    BY <1>20, ManagersPlace DEF CoordInv, StartUpInv, PhaseInv, RunInv, NextPass, At
  <2>2. ~StartingUp' /\ rpc' = "start" /\ (GoOn' <=> GoOn)
    BY <1>20, <2>1 DEF StartingUp, GoOn, globals, tdata, NextPass
  <2>3. BetweenPasses(t)'
    <3>1. tpc[t] = "last_pass" /\ pass[t] = currentPass /\ ~canceled /\ ~(RunTime /\ runTimeExpired)
      BY <1>20, <2>1 DEF BetweenPasses, NextPass, At
    <3>2. RunTime => passes > currentPass
      BY <2>1, <3>1 DEF BetweenPasses
    <3>3. CASE LastPass(t)
      <4>1. ~GoOn /\ tpc'[t] = "finish" /\ pass'[t] = currentPass
        BY <1>20, <3>1, <3>2, <3>3
           DEF CoordInv, TypeOK, RunInv, GoOn, NextPass, Goto, LastPass
      <4>2. QED
        BY <1>20, <2>2, <4>1 DEF BetweenPasses, NextPass
    <3>4. CASE ~LastPass(t)
      <4>1. GoOn /\ tpc'[t] = "start" /\ pass'[t] = currentPass + 1
        BY <1>20, <3>1, <3>2, <3>4
           DEF CoordInv, TypeOK, RunInv, GoOn, NextPass, Goto, LastPass
      <4>2. QED
        BY <1>20, <2>2, <3>2, <4>1 DEF BetweenPasses, NextPass
    <3>5. QED
      BY <3>3, <3>4
  <2>4. \A u \in Targets : u # t => BetweenPasses(u)'
    BY <1>20, <2>1, <2>2 DEF CoordInv, TypeOK, BetweenPasses, NextPass, LastPass, Goto, At
  <2>5. runComplete' => ~GoOn'
    BY <1>20, <2>1, <2>2 DEF BetweenPasses, globals, tdata, NextPass, At
  <2>6. QED
    BY <2>1, <2>2, <2>3, <2>4, <2>5 DEF PhaseInv
<1>21. ASSUME NEW t \in Targets, Finish(t)
      PROVE  PhaseInv'
  <2>1. /\ ~StartingUp /\ rpc = "start" /\ ~abort
        /\ \A u \in Targets : BetweenPasses(u)
        /\ runComplete => ~GoOn
    BY <1>21, ManagersPlace DEF CoordInv, StartUpInv, PhaseInv, RunInv, Finish, At
  <2>2. ~StartingUp' /\ rpc' = "start" /\ (GoOn' <=> GoOn)
    BY <1>21, <2>1 DEF StartingUp, GoOn, globals, tdata, Finish
  <2>3. BetweenPasses(t)'
    <3>1. tpc[t] = "finish" /\ pass[t] = currentPass /\ ~GoOn
      BY <1>21, <2>1 DEF BetweenPasses, Finish, At
    <3>2. tpc'[t] = "start_final" /\ runComplete' /\ pass' = pass /\ currentPass' = currentPass
      BY <1>21 DEF CoordInv, TypeOK, Finish, Completes, Goto, tdata
    <3>3. QED
      BY <2>2, <3>1, <3>2 DEF BetweenPasses
  <2>4. \A u \in Targets : u # t => BetweenPasses(u)'
    BY <1>21, <2>1, <2>2
       DEF CoordInv, TypeOK, BetweenPasses, tdata, Finish, Completes, Goto, At
  <2>5. runComplete' => ~GoOn'
    BY <1>21, <2>1, <2>2 DEF BetweenPasses, globals, tdata, Finish, At
  <2>6. QED
    BY <2>1, <2>2, <2>3, <2>4, <2>5 DEF PhaseInv
<1>22. ASSUME NEW t \in Targets, Cleanup(t)
      PROVE  PhaseInv'
  <2>1. ~StartingUp /\ tpc[t] = "cleanup"
    BY <1>22 DEF CoordInv, StartUpInv, Cleanup, At
  <2>2. rpc = "cleanup_wait" /\ \A u \in Targets : tpc[u] \in {"cleanup", "cleanup_wait"}
    BY <2>1, ManagersPlace DEF CoordInv, PhaseInv
  <2>3. tpc' = [tpc EXCEPT ![t] = "cleanup_wait"]
    BY <1>22 DEF Cleanup, Goto
  <2>4. UNCHANGED <<main, exitStatus, rpc>>
    BY <1>22 DEF Cleanup
  <2>5. \A u \in Targets : tpc'[u] \in {"cleanup", "cleanup_wait"}
    BY <2>2, <2>3 DEF CoordInv, TypeOK
  <2>6. QED
    BY <2>1, <2>2, <2>4, <2>5 DEF PhaseInv, StartingUp
<1>23. ASSUME NEW t \in Targets, WorkerStops(t)
      PROVE  PhaseInv'
  BY <1>23
     DEF WorkerStops, PhaseInv, BetweenPasses, MakingPass, GoOn, globals, CoordInv,
         WorkersInv
<1>24. ASSUME NEW t \in Targets, WorkerCancels(t)
      PROVE  PhaseInv'
  <2>1. ~StartingUp /\ tpc[t] = "running"
    BY <1>24 DEF CoordInv, StartUpInv, WorkersInv, WorkerCancels, At
  <2>2. rpc = "end" /\ ~runComplete /\ passes > currentPass /\ \A u \in Targets : MakingPass(u)
    BY <2>1, ManagersPlace
  <2>3. UNCHANGED <<main, exitStatus, rpc, tpc, pass, currentPass, passes, runComplete>>
    BY <1>24 DEF tdata, WorkerCancels
  <2>4. \A u \in Targets : MakingPass(u)'
    BY <2>2, <2>3 DEF MakingPass
  <2>5. QED
    BY <2>1, <2>2, <2>3, <2>4 DEF PhaseInv, StartingUp
<1>25. CASE UNCHANGED vars
  BY <1>25
     DEF PhaseInv, StartingUp, BetweenPasses, MakingPass, GoOn, globals, tdata, CoordInv,
         vars
<1>26. QED
  BY <1>1, <1>2, <1>3, <1>4, <1>5, <1>6, <1>7, <1>8, <1>9, <1>10, <1>11, <1>12, <1>13,
     <1>14, <1>15, <1>16, <1>17, <1>18, <1>19, <1>20, <1>21, <1>22, <1>23, <1>24, <1>25
     DEF Next, MainStep, ManagerStep, TargetStep, WorkerStep, Exited

\* The flags of the run against the manager's phase: abort is not set before the
\* results of the run, and then only for an error that stopped a target.
LEMMA RunStep ==
  ASSUME CoordInv, DecideAlike, [Next]_vars
  PROVE  RunInv'
<1>1. CASE Create
  BY <1>1 DEF Create, MoreTargets, Goto, RunInv, StartingUp, globals, CoordInv
<1>2. CASE CreateFails
  BY <1>2
     DEF CreateFails, MoreTargets, ReturnTargetStartFailure, RunInv, StartingUp, globals,
         CoordInv
<1>3. CASE OpenInitTarget
  BY <1>3 DEF OpenInitTarget, Goto, RunInv, StartingUp, globals, CoordInv
<1>4. CASE MainInitCheck
  BY <1>4 DEF MainInitCheck, ReturnTargetStartFailure, RunInv, StartingUp, globals, CoordInv
<1>5. CASE OpenInitResults
  BY <1>5 DEF OpenInitResults, RunInv, StartingUp, globals, CoordInv
<1>6. CASE OpenWaitForStart
  BY <1>6 DEF OpenWaitForStart, RunInv, StartingUp, globals, CoordInv, StartUpInv
<1>7. CASE OpenFinal
  BY <1>7 DEF OpenFinal, RunInv, StartingUp, GoOn, globals, tdata, CoordInv
<1>8. CASE Collect
  BY <1>8
     DEF Collect, AbortFromTargets, CoordInv, TypeOK, StartUpInv, RunInv, tdata, PhaseInv,
         GoOn, WorkersInv
<1>9. ASSUME NEW b \in Barriers, Open(b)
      PROVE  RunInv'
  BY <1>9
     DEF Open, Barriers, TargetPlaces, ManagerPlaces, TargetLeavesTo, ManagerLeavesTo,
         AfterEndpass, AfterRunResults, Alive, RunInv, StartingUp, GoOn, globals, tdata,
         CoordInv
<1>10. ASSUME NEW t \in Targets, TargetInit(t)
      PROVE  RunInv'
  <2>1. StartingUp
    BY <1>10, ManagersPlace DEF CoordInv, TargetInit, At
  <2>2. StartingUp' /\ UNCHANGED <<main, exitStatus, passes, currentPass>>
    BY <1>10, <2>1 DEF StartingUp, TargetInit
  <2>3. QED
    BY <2>2 DEF CoordInv, RunInv
<1>11. ASSUME NEW t \in Targets, TargetInitCheck(t)
      PROVE  RunInv'
  BY <1>11 DEF TargetInitCheck, Goto, At, RunInv, StartingUp, GoOn, globals, tdata, CoordInv
<1>12. ASSUME NEW t \in Targets, Started(t)
      PROVE  RunInv'
  BY <1>12 DEF Started, Goto, At, RunInv, StartingUp, GoOn, globals, tdata, CoordInv
<1>13. ASSUME NEW t \in Targets, CompleteCheck(t)
      PROVE  RunInv'
  BY <1>13 DEF CompleteCheck, Goto, At, RunInv, StartingUp, GoOn, globals, CoordInv
<1>14. ASSUME NEW t \in Targets, RunTimeExpires(t)
      PROVE  RunInv'
  BY <1>14 DEF RunTimeExpires, At, RunInv, StartingUp, GoOn, tdata, CoordInv
<1>15. ASSUME NEW t \in Targets, EndPass(t)
      PROVE  RunInv'
  BY <1>15 DEF EndPass, AfterRunning, Goto, At, RunInv, StartingUp, GoOn, globals, CoordInv
<1>16. ASSUME NEW t \in Targets, AfterPass(t)
      PROVE  RunInv'
  BY <1>16 DEF AfterPass, Goto, At, RunInv, StartingUp, GoOn, globals, tdata, CoordInv
<1>17. ASSUME NEW t \in Targets, RunTimeTest(t)
      PROVE  RunInv'
  BY <1>17 DEF RunTimeTest, Goto, At, RunInv, StartingUp, GoOn, globals, tdata, CoordInv
<1>18. ASSUME NEW t \in Targets, ExtendLoad(t)
      PROVE  RunInv'
  BY <1>18 DEF ExtendLoad, Goto, At, RunInv, StartingUp, GoOn, globals, CoordInv
<1>19. ASSUME NEW t \in Targets, ExtendStore(t)
      PROVE  RunInv'
  <2>1. ~StartingUp /\ rpc = "start"
    BY <1>19, ManagersPlace DEF CoordInv, StartUpInv, ExtendStore, At
  <2>2. passes' >= currentPass' /\ RunTime
    BY <1>19, <2>1 DEF CoordInv, TypeOK, PhaseInv, BetweenPasses, ExtendStore, At, Goto
  <2>3. UNCHANGED <<main, exitStatus, rpc, currentPass, abort, canceled, runTimeExpired, stopped>>
    BY <1>19 DEF ExtendStore, tdata
  <2>4. QED
    BY <2>1, <2>2, <2>3 DEF CoordInv, RunInv, StartingUp, GoOn
<1>20. ASSUME NEW t \in Targets, NextPass(t)
      PROVE  RunInv'
  BY <1>20
     DEF NextPass, LastPass, Goto, At, CoordInv, DecideAlike, TypeOK, StartingUp, RunInv,
         GoOn
<1>21. ASSUME NEW t \in Targets, Finish(t)
      PROVE  RunInv'
  BY <1>21 DEF Finish, Completes, Goto, At, RunInv, StartingUp, GoOn, tdata, CoordInv
<1>22. ASSUME NEW t \in Targets, Cleanup(t)
      PROVE  RunInv'
  BY <1>22 DEF Cleanup, Goto, At, RunInv, StartingUp, GoOn, globals, CoordInv
<1>23. ASSUME NEW t \in Targets, WorkerStops(t)
      PROVE  RunInv'
  BY <1>23 DEF WorkerStops, CoordInv, RunInv, globals, PhaseInv, GoOn, WorkersInv
<1>24. ASSUME NEW t \in Targets, WorkerCancels(t)
      PROVE  RunInv'
  BY <1>24 DEF WorkerCancels, RunInv, StartingUp, GoOn, tdata, CoordInv
<1>25. CASE UNCHANGED vars
  BY <1>25 DEF RunInv, StartingUp, GoOn, globals, tdata, CoordInv, vars
<1>26. QED
  BY <1>1, <1>2, <1>3, <1>4, <1>5, <1>6, <1>7, <1>8, <1>9, <1>10, <1>11, <1>12, <1>13,
     <1>14, <1>15, <1>16, <1>17, <1>18, <1>19, <1>20, <1>21, <1>22, <1>23, <1>24, <1>25
     DEF Next, MainStep, ManagerStep, TargetStep, WorkerStep, Exited

\* What the Worker Threads may do: none works on once its target is cleaned up,
\* and td_abort tells of every error that stopped a target until it is collected.
LEMMA WorkersStep ==
  ASSUME CoordInv, DecideAlike, [Next]_vars
  PROVE  WorkersInv'
<1>1. CASE Create
  BY <1>1 DEF Create, MoreTargets, Goto, WorkersInv, StartingUp, globals, tdata, CoordInv
<1>2. CASE CreateFails
  BY <1>2
     DEF CreateFails, MoreTargets, ReturnTargetStartFailure, WorkersInv, StartingUp,
         globals, tdata, CoordInv
<1>3. CASE OpenInitTarget
  BY <1>3 DEF OpenInitTarget, Goto, WorkersInv, StartingUp, globals, tdata, CoordInv
<1>4. CASE MainInitCheck
  BY <1>4
     DEF MainInitCheck, ReturnTargetStartFailure, WorkersInv, StartingUp, globals, tdata,
         CoordInv
<1>5. CASE OpenInitResults
  BY <1>5 DEF OpenInitResults, WorkersInv, StartingUp, tdata, CoordInv, StartUpInv
<1>6. CASE OpenWaitForStart
  BY <1>6 DEF OpenWaitForStart, WorkersInv, StartingUp, globals, tdata, CoordInv
<1>7. CASE OpenFinal
  BY <1>7 DEF OpenFinal, WorkersInv, StartingUp, globals, tdata, CoordInv
<1>8. CASE Collect
  BY <1>8 DEF Collect, AbortFromTargets, WorkersInv, StartingUp, tdata, CoordInv
<1>9. ASSUME NEW b \in Barriers, Open(b)
      PROVE  WorkersInv'
  <2>1. \A t \in Targets : /\ tpc[t] \in TargetPlaces(b) /\ tpc'[t] = TargetLeavesTo(tpc[t])
    BY <1>9 DEF Open
  <2>2. UNCHANGED <<main, exitStatus, canceled, stopped, working, tdAbort>>
    BY <1>9 DEF Open, globals, tdata
  <2>3. \A t \in Targets :
        /\ tpc[t] # "running"
        /\ (tpc'[t] = "done" => tpc[t] = "cleanup_wait")
        /\ (tpc'[t] = "started" => tpc[t] = "start")
        /\ tpc'[t] \notin {"start", "complete_check", "cleanup_wait"}
    BY <2>1 DEF Barriers, TargetPlaces, TargetLeavesTo, AfterEndpass
  <2>4. rpc' \in {"start", "end", "collect", "disp"} => rpc \in {"start", "end", "collect", "disp"}
    BY <1>9 DEF Open, Barriers, ManagerPlaces, ManagerLeavesTo, AfterRunResults
  <2>5. \A t \in Targets : working'[t] => tpc'[t] = "running" \/ canceled'
    BY <2>2, <2>3 DEF CoordInv, TypeOK, WorkersInv
  <2>6. \A t \in Targets : working'[t] => tpc'[t] \notin {"cleanup_wait", "done"}
    BY <2>2, <2>3 DEF CoordInv, TypeOK, WorkersInv
  <2>7. \A t \in Targets :
          tdAbort'[t] \/ working'[t] => tpc'[t] \notin {"start", "started", "complete_check"}
    BY <2>2, <2>3 DEF CoordInv, TypeOK, WorkersInv
  <2>8. QED
    BY <2>2, <2>4, <2>5, <2>6, <2>7 DEF CoordInv, WorkersInv, StartingUp
<1>10. ASSUME NEW t \in Targets, TargetInit(t)
      PROVE  WorkersInv'
  BY <1>10 DEF TargetInit, Goto, At, WorkersInv, StartingUp, tdata, CoordInv
<1>11. ASSUME NEW t \in Targets, TargetInitCheck(t)
      PROVE  WorkersInv'
  BY <1>11 DEF TargetInitCheck, Goto, At, WorkersInv, StartingUp, globals, tdata, CoordInv
<1>12. ASSUME NEW t \in Targets, Started(t)
      PROVE  WorkersInv'
  BY <1>12 DEF Started, Goto, At, WorkersInv, StartingUp, globals, tdata, CoordInv
<1>13. ASSUME NEW t \in Targets, CompleteCheck(t)
      PROVE  WorkersInv'
  <2>1. ~tdAbort[t] /\ ~StartingUp
    BY <1>13 DEF CoordInv, WorkersInv, StartUpInv, CompleteCheck, At
  <2>2. tdAbort' = tdAbort
    BY <1>13, <2>1 DEF CoordInv, TypeOK, CompleteCheck
  <2>3. \A u \in Targets : working'[u] => tpc'[u] = "running" \/ canceled'
    BY <1>13 DEF CoordInv, TypeOK, WorkersInv, CompleteCheck, Goto, At, globals
  <2>4. \A u \in Targets : working'[u] => tpc'[u] \notin {"cleanup_wait", "done"}
    BY <1>13 DEF CoordInv, TypeOK, WorkersInv, CompleteCheck, Goto, At
  <2>5. \A u \in Targets :
          tdAbort[u] \/ working'[u] => tpc'[u] \notin {"start", "started", "complete_check"}
    BY <1>13 DEF CoordInv, TypeOK, WorkersInv, CompleteCheck, Goto, At
  <2>6. UNCHANGED <<main, exitStatus, rpc, canceled, stopped>>
    BY <1>13 DEF CompleteCheck, globals
  <2>7. QED
    BY <2>1, <2>2, <2>3, <2>4, <2>5, <2>6 DEF CoordInv, WorkersInv, StartingUp
<1>14. ASSUME NEW t \in Targets, RunTimeExpires(t)
      PROVE  WorkersInv'
  BY <1>14 DEF RunTimeExpires, At, WorkersInv, StartingUp, tdata, CoordInv
<1>15. ASSUME NEW t \in Targets, EndPass(t)
      PROVE  WorkersInv'
  BY <1>15
     DEF EndPass, AfterRunning, Goto, At, WorkersInv, StartingUp, globals, CoordInv,
         TypeOK, StartUpInv
<1>16. ASSUME NEW t \in Targets, AfterPass(t)
      PROVE  WorkersInv'
  BY <1>16 DEF AfterPass, Goto, At, WorkersInv, StartingUp, globals, tdata, CoordInv
<1>17. ASSUME NEW t \in Targets, RunTimeTest(t)
      PROVE  WorkersInv'
  BY <1>17 DEF RunTimeTest, Goto, At, WorkersInv, StartingUp, globals, tdata, CoordInv
<1>18. ASSUME NEW t \in Targets, ExtendLoad(t)
      PROVE  WorkersInv'
  BY <1>18 DEF ExtendLoad, Goto, At, WorkersInv, StartingUp, globals, CoordInv
<1>19. ASSUME NEW t \in Targets, ExtendStore(t)
      PROVE  WorkersInv'
  BY <1>19 DEF ExtendStore, Goto, At, WorkersInv, StartingUp, tdata, CoordInv
<1>20. ASSUME NEW t \in Targets, NextPass(t)
      PROVE  WorkersInv'
  BY <1>20
     DEF NextPass, LastPass, Goto, At, CoordInv, DecideAlike, TypeOK, StartingUp, RunInv,
         PhaseInv, BetweenPasses, MakingPass, WorkersInv
<1>21. ASSUME NEW t \in Targets, Finish(t)
      PROVE  WorkersInv'
  BY <1>21 DEF Finish, Completes, Goto, At, WorkersInv, StartingUp, tdata, CoordInv
<1>22. ASSUME NEW t \in Targets, Cleanup(t)
      PROVE  WorkersInv'
  BY <1>22 DEF Cleanup, Goto, At, WorkersInv, StartingUp, globals, CoordInv, TypeOK
<1>23. ASSUME NEW t \in Targets, WorkerStops(t)
      PROVE  WorkersInv'
  <2>1. /\ ~StartingUp /\ ~tdAbort[t] /\ StopOnError
        /\ tdAbort' = [tdAbort EXCEPT ![t] = TRUE] /\ stopped'
    BY <1>23 DEF CoordInv, TypeOK, WorkersInv, WorkerStops
  <2>2. UNCHANGED <<main, exitStatus, rpc, tpc, canceled, working>>
    BY <1>23 DEF WorkerStops, globals
  <2>3. tdAbort'[t] /\ \A u \in Targets : u # t => tdAbort'[u] = tdAbort[u]
    BY <2>1 DEF CoordInv, TypeOK
  <2>4. tpc[t] \notin {"start", "started", "complete_check"}
    BY <1>23 DEF WorkerStops, CoordInv, WorkersInv
  <2>5. QED
    BY <2>1, <2>2, <2>3, <2>4 DEF CoordInv, WorkersInv, StartingUp
<1>24. ASSUME NEW t \in Targets, WorkerCancels(t)
      PROVE  WorkersInv'
  BY <1>24 DEF WorkerCancels, WorkersInv, StartingUp, tdata, CoordInv
<1>25. CASE UNCHANGED vars
  BY <1>25 DEF WorkersInv, StartingUp, globals, tdata, CoordInv, vars
<1>26. QED
  BY <1>1, <1>2, <1>3, <1>4, <1>5, <1>6, <1>7, <1>8, <1>9, <1>10, <1>11, <1>12, <1>13,
     <1>14, <1>15, <1>16, <1>17, <1>18, <1>19, <1>20, <1>21, <1>22, <1>23, <1>24, <1>25
     DEF Next, MainStep, ManagerStep, TargetStep, WorkerStep, Exited

-----------------------------------------------------------------------------
\* The state main starts in: no thread created yet.
LEMMA Initially == Init => CoordInv
<1> SUFFICES ASSUME Init
             PROVE  CoordInv
  OBVIOUS
<1>1. TypeOK
  <2>1. tpc \in [Targets -> Places] /\ "none" \in Places
    BY DEF Init, Places
  <2>2. /\ loaded \in [Targets -> Nat] /\ pass \in [Targets -> Nat \ {0}]
        /\ tdAbort \in [Targets -> BOOLEAN] /\ working \in [Targets -> BOOLEAN]
    BY DEF Init
  <2>3. created \in 0..NumTargets /\ passes \in Nat /\ currentPass \in Nat
    BY DEF Init
  <2>4. QED
    BY <2>1, <2>2, <2>3 DEF Init, TypeOK
<1>2. StartingUp
  BY DEF Init, StartingUp
<1>3. StartUpInv /\ PhaseInv
  BY <1>2 DEF Init, StartUpInv, PhaseInv
<1>4. RunInv
  BY <1>2 DEF Init, RunInv
<1>5. WorkersInv
  BY DEF Init, WorkersInv
<1>6. QED
  BY <1>1, <1>3, <1>4, <1>5 DEF CoordInv

\* Every variable keeps its type, whatever fails: no target is created but the
\* NumTargets ones, and no thread leaves a barrier to a place it does not have.
THEOREM CoordTypes == Spec => []TypeOK
<1>1. Init => TypeOK
  BY Initially DEF CoordInv
<1>2. TypeOK /\ [Next]_vars => TypeOK'
  BY TypeStep
<1>3. QED
  BY <1>1, <1>2, PTL DEF Spec

\* The inductive invariant: the phase of the run, and what the targets' decisions
\* between two passes (xdd_target_thread) depend on.
THEOREM CoordInvariant ==
  ASSUME DecideAlike
  PROVE  Spec => []CoordInv
<1>1. Init => CoordInv
  BY Initially
<1>2. CoordInv /\ [Next]_vars => CoordInv'
  BY TypeStep, StartUpStep, PhaseStep, RunStep, WorkersStep DEF CoordInv
<1>3. QED
  BY <1>1, <1>2, PTL DEF Spec

\* No target is on its way out of the run (xdd_target_thread, after its loop) while
\* another is in a pass: what keeps the barriers they share from blocking for ever.
THEOREM TargetsInStep ==
  ASSUME DecideAlike
  PROVE  Spec => []PassLockstep
<1>1. CoordInv => PassLockstep
  <2>1. SUFFICES ASSUME CoordInv, NEW t \in Targets, NEW u \in Targets, Leaving(t), InPass(u)
                 PROVE  FALSE
    BY DEF PassLockstep
  <2>2. ~StartingUp
    BY <2>1 DEF CoordInv, StartUpInv, Leaving
  <2>3. rpc # "start"
    BY <2>1, <2>2 DEF CoordInv, PhaseInv, BetweenPasses, Leaving, InPass
  <2>4. rpc \notin {"end", "collect", "disp"}
    BY <2>1, <2>2 DEF CoordInv, PhaseInv, MakingPass, Leaving, InPass
  <2>5. QED
    BY <2>1, <2>2, <2>3, <2>4 DEF CoordInv, PhaseInv, RunInv, Leaving, InPass
<1>2. QED
  BY <1>1, CoordInvariant, PTL

\* While xdd_process_pass_results reads the counters of the targets, all of them are
\* parked with the counters of one and the same pass.
THEOREM ResultsAreOfOnePass ==
  ASSUME DecideAlike
  PROVE  Spec => []ResultsOfOnePass
<1>1. CoordInv => ResultsOfOnePass
  <2>1. SUFFICES ASSUME CoordInv, rpc = "collect", NEW t \in Targets
                 PROVE  /\ tpc[t] \in {"disp", "disp_final"}
                        /\ pass[t] = IF runComplete THEN currentPass ELSE currentPass + 1
                        /\ working[t] => canceled
    BY DEF ResultsOfOnePass
  <2>2. ~StartingUp
    BY <2>1 DEF CoordInv, StartUpInv
  <2>3. /\ tpc[t] \in {"disp", "disp_final"}
        /\ pass[t] = IF runComplete THEN currentPass ELSE currentPass + 1
    BY <2>1, <2>2 DEF CoordInv, PhaseInv
  <2>4. QED
    BY <2>1, <2>3 DEF CoordInv, WorkersInv
<1>2. QED
  BY <1>1, CoordInvariant, PTL

\* When main returns from a run that got past its start, the results manager has let
\* every target through its cleanup, and no Worker Thread has a task any more.
THEOREM CleanedUp ==
  ASSUME DecideAlike
  PROVE  Spec => []CleanedUpAtExit
<1>1. CoordInv => CleanedUpAtExit
  <2>1. SUFFICES ASSUME CoordInv, exitStatus \in {"SUCCESS", "IOERROR", "CANCELED"}
                 PROVE  \A t \in Targets : tpc[t] = "done" /\ ~working[t]
    BY DEF CleanedUpAtExit
  <2>2. main = "exited" /\ ~StartingUp
    BY <2>1 DEF CoordInv, RunInv, StartingUp
  <2>3. \A t \in Targets : tpc[t] = "done"
    BY <2>1, <2>2 DEF CoordInv, RunInv, PhaseInv
  <2>4. QED
    BY <2>1, <2>3 DEF CoordInv, WorkersInv
<1>2. QED
  BY <1>1, CoordInvariant, PTL

\* The exit status main computes in its last step is true of the run.
LEMMA ExitStatusStep ==
  ASSUME CoordInv, ExitStatusTells, [Next]_vars
  PROVE  ExitStatusTells'
<1>1. CASE ~Alive
  <2>1. main = "exited"
    BY <1>1 DEF CoordInv, RunInv
  <2>2. ~MainStep
    BY <2>1
       DEF MainStep, Create, CreateFails, OpenInitTarget, MainInitCheck, OpenInitResults,
           OpenWaitForStart, OpenFinal
  <2>3. ~ManagerStep
    BY <1>1 DEF ManagerStep, Collect, Open
  <2>4. \A t \in Targets : ~TargetStep(t) /\ ~WorkerStep(t)
    BY <1>1
       DEF TargetStep, WorkerStep, At, TargetInit, TargetInitCheck, Started, CompleteCheck,
           RunTimeExpires, EndPass, AfterPass, RunTimeTest, ExtendLoad, ExtendStore,
           NextPass, Finish, Cleanup, WorkerStops, WorkerCancels
  <2>5. UNCHANGED vars
    BY <2>2, <2>3, <2>4 DEF Next, Exited
  <2>6. QED
    BY <2>5 DEF ExitStatusTells, vars, globals, tdata
<1>2. CASE Alive /\ OpenFinal
  <2>1. ~StartingUp /\ rpc = "final"
    BY <1>2 DEF OpenFinal, StartingUp
  <2>2. ~GoOn /\ (abort => stopped) /\ (stopped => abort \/ canceled)
    BY <2>1 DEF CoordInv, RunInv
  <2>3. passes >= currentPass /\ (~RunTime => passes = Passes)
    BY DEF CoordInv, RunInv
  <2>4. exitStatus' = IF canceled THEN "CANCELED" ELSE IF abort THEN "IOERROR" ELSE "SUCCESS"
    BY <1>2 DEF OpenFinal
  <2>5. UNCHANGED <<canceled, stopped, runTimeExpired, currentPass>>
    BY <1>2 DEF OpenFinal, globals, tdata
  <2>6. ~canceled => IF RunTime THEN runTimeExpired ELSE currentPass = Passes
    BY <2>2, <2>3 DEF GoOn, CoordInv, TypeOK
  <2>7. QED
    BY <2>2, <2>4, <2>5, <2>6 DEF ExitStatusTells
<1>3. CASE Alive /\ ~OpenFinal
  <2>1. exitStatus' \in {Running, "TARGET_START_FAILURE"}
    <3>1. CASE MainStep
      BY <1>3, <3>1
         DEF MainStep, Create, CreateFails, OpenInitTarget, MainInitCheck, OpenInitResults,
             OpenWaitForStart, ReturnTargetStartFailure
    <3>2. CASE ManagerStep
      BY <1>3, <3>2 DEF ManagerStep, Collect, Open
    <3>3. CASE \E t \in Targets : TargetStep(t) \/ WorkerStep(t)
      BY <1>3, <3>3
         DEF TargetStep, WorkerStep, At, TargetInit, TargetInitCheck, Started,
             CompleteCheck, RunTimeExpires, EndPass, AfterPass, RunTimeTest, ExtendLoad,
             ExtendStore, NextPass, Finish, Cleanup, WorkerStops, WorkerCancels
    <3>4. CASE UNCHANGED vars
      BY <1>3, <3>4 DEF vars
    <3>5. QED
      BY <1>3, <3>1, <3>2, <3>3, <3>4 DEF Next, Exited
  <2>2. QED
    BY <2>1 DEF ExitStatusTells
<1>4. QED
  BY <1>1, <1>2, <1>3

\* What the exit status of main says is so: success only after every pass was made
\* and processed and no error stopped a target; the I/O error status only after one did.
THEOREM ExitStatusIsTrue ==
  ASSUME DecideAlike
  PROVE  Spec => []ExitStatusTells
<1>1. Init => ExitStatusTells
  BY DEF Init, ExitStatusTells
<1>2. CoordInv /\ ExitStatusTells /\ [Next]_vars => ExitStatusTells'
  BY ExitStatusStep
<1>3. QED
  BY <1>1, <1>2, CoordInvariant, PTL DEF Spec

=============================================================================
