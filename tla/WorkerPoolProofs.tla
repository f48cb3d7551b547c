-------------------------- MODULE WorkerPoolProofs --------------------------
(***************************************************************************)
(* Proofs about WorkerPool for every queue depth, transfer size, number of *)
(* passes and combination of options.  PoolInv is inductive; each lemma    *)
(* shows that one group of its conjuncts survives every step.  With the    *)
(* account of a pass on top of it, the pool implements TaskDispatch, and a *)
(* pass that ends undisturbed has performed all of its operations.         *)
(***************************************************************************)
EXTENDS WorkerPool, WellFoundedInduction, TLAPS

USE PoolAssumption DEF PoolAssumption, Workers, Free, Target

\* Counting one more at a place keeps a function to Nat, in its domain or not.
LEMMA CountedOnce ==
  ASSUME NEW S, NEW f \in [S -> Nat], NEW x
  PROVE  [f EXCEPT ![x] = f[x] + 1] \in [S -> Nat]
<1>1. \A y \in S : [f EXCEPT ![x] = f[x] + 1][y] \in Nat
  <2>1. TAKE y \in S
  <2>2. CASE y = x
    BY <2>2
  <2>3. CASE y # x
    BY <2>3
  <2>4. QED
    BY <2>2, <2>3
<1>2. QED
  BY <1>1

\* Types.
LEMMA TypeStep ==
  ASSUME TypeOK, WalkRange, [Next]_vars
  PROVE  TypeOK'
<1> USE DEF TypeOK, WalkRange, Choosing, Waiting, Requests,
            vars, tvars, counters, flags, sync, wvars
<1>1. CASE BeforePass
  <2>1. remaining' \in Nat /\ tries' \in [0..NumOps-1 -> Nat]
    BY <1>1 DEF BeforePass
  <2>2. UNCHANGED <<wdp, walk, tload, pass, targetErrno, canceled, sync,
                    task, wpc, ioGood, wload>>
    BY <1>1 DEF BeforePass
  <2>3. /\ tpc' = "loop" /\ nextOp' = 0 /\ issued' = 0 /\ completed' = 0 /\ errors' = 0
        /\ expired' = FALSE /\ tdAbort' = FALSE
    BY <1>1 DEF BeforePass
  <2>4. QED
    BY <2>1, <2>2, <2>3
<1>2. CASE LoopTest
  BY <1>2, SMTT(20) DEF LoopTest, MoreToIssue
<1>3. CASE Locate
  BY <1>3, SMTT(20) DEF Locate, NoneAvailable
<1>4. CASE SpuriousWakeup
  BY <1>4, SMTT(20) DEF SpuriousWakeup
<1>5. CASE ScanBusy
  BY <1>5, SMTT(20) DEF ScanBusy
<1>6. CASE ScanTake
  BY <1>6, SMTT(20) DEF ScanTake
<1>7. CASE ScanNone
  BY <1>7, SMTT(20) DEF ScanNone
<1>8. CASE BeforeIoOp
  <2>1. busy' \in [Workers -> BOOLEAN]
    BY <1>8 DEF BeforeIoOp
  <2>2. expired' \in BOOLEAN
    BY <1>8 DEF BeforeIoOp
  <2>3. tpc' \in {"loop_done", "setup"}
    BY <1>8 DEF BeforeIoOp
  <2>4. UNCHANGED <<wdp, walk, tload, pass, targetErrno, counters, tdAbort, canceled,
                    available, anyMutex, waiting, wvars>>
    BY <1>8 DEF BeforeIoOp
  <2>5. QED
    BY <2>1, <2>2, <2>3, <2>4
<1>9. CASE TaskSetup
  BY <1>9, SMTT(20) DEF TaskSetup
<1>10. CASE ReleaseWorker
  BY <1>10, SMTT(20) DEF ReleaseWorker
<1>11. CASE LoopDone
  BY <1>11, SMTT(20) DEF LoopDone, LeavesAtOnce
<1>12. CASE GetSpecific
  <2>1. waiting' \in [Workers -> BOOLEAN]
    BY <1>12 DEF GetSpecific, WakeupRequested
  <2>2. busy' \in [Workers -> BOOLEAN]
    BY <1>12 DEF GetSpecific
  <2>3. tpc' \in {"spec_wait", "mark"}
    BY <1>12 DEF GetSpecific
  <2>4. UNCHANGED <<wdp, walk, tload, pass, targetErrno, counters, flags,
                    available, anyMutex, wvars>>
    BY <1>12 DEF GetSpecific
  <2>5. QED
    BY <2>1, <2>2, <2>3, <2>4
<1>13. CASE MarkLoad
  BY <1>13, SMTT(20) DEF MarkLoad
<1>14. CASE MarkStore
  BY <1>14, SMTT(20) DEF MarkStore, AllWaitedFor, TargetIoStatus
<1>15. CASE AfterPass
  BY <1>15, SMTT(20) DEF AfterPass
<1>16. CASE StopRequest
  <2>1. task' \in [Workers -> [req : Requests, op : Nat, size : Nat]]
    BY <1>16 DEF StopRequest
  <2>2. tpc' = "stop"
    BY <1>16 DEF StopRequest
  <2>3. UNCHANGED <<wdp, walk, tload, pass, targetErrno, counters, flags, sync,
                    wpc, ioGood, wload, tries>>
    BY <1>16 DEF StopRequest
  <2>4. QED
    BY <2>1, <2>2, <2>3
<1>16a. CASE StopWorker
  BY <1>16a, SMTT(20) DEF StopWorker
<1>16b. ASSUME NEW w \in Workers, WorkerRead(w)
      PROVE  TypeOK'
  BY <1>16b, SMTT(20) DEF WorkerRead
<1>17. ASSUME NEW w \in Workers, WorkerBeforeIo(w)
      PROVE  TypeOK'
  BY <1>17, SMTT(20) DEF WorkerBeforeIo
<1>18. ASSUME NEW w \in Workers, WorkerCheck(w)
      PROVE  TypeOK'
  BY <1>18, SMTT(20) DEF WorkerCheck
<1>19. ASSUME NEW w \in Workers, WorkerIo(w)
      PROVE  TypeOK'
  <2>1. ioGood' \in [Workers -> BOOLEAN]
    BY <1>19 DEF WorkerIo
  <2>2. tdAbort' \in BOOLEAN
    BY <1>19 DEF WorkerIo
  <2>3. tries' \in [0..NumOps-1 -> Nat]
    <3>1. tries' = [tries EXCEPT ![task[w].op] = tries[task[w].op] + 1]
      BY <1>19, Zenon DEF WorkerIo
    <3>2. tries \in [0..NumOps-1 -> Nat]
      OBVIOUS
    <3>3. QED
      BY <3>1, <3>2, CountedOnce
  <2>4. wpc' = [wpc EXCEPT ![w] = "count"]
    BY <1>19 DEF WorkerIo
  <2>5. UNCHANGED <<tvars, counters, expired, canceled, sync, task, wload>>
    BY <1>19 DEF WorkerIo
  <2>6. QED
    BY <1>19, <2>1, <2>2, <2>3, <2>4, <2>5
<1>20. ASSUME NEW w \in Workers, WorkerCount(w)
      PROVE  TypeOK'
  <2>1. task[w].size \in Nat
    OBVIOUS
  <2>2. completed' \in Nat
    <3>1. completed' \in {completed, completed + task[w].size}
      BY <1>20, Zenon DEF WorkerCount
    <3>2. QED
      BY <2>1, <3>1
  <2>3. errors' \in Nat
    <3>1. errors' \in {errors, errors + 1}
      BY <1>20, Zenon DEF WorkerCount
    <3>2. QED
      BY <3>1
  <2>4. wpc' \in [Workers -> {"wait_task", "read", "before_io", "check", "io",
                             "count", "after_io", "clear", "post", "post_store", "stopped"}]
    BY <1>20 DEF WorkerCount
  <2>5. UNCHANGED <<tvars, nextOp, remaining, issued, flags, sync, task, ioGood, wload, tries>>
    BY <1>20, Zenon DEF WorkerCount
  <2>6. tries' \in [0..NumOps-1 -> Nat]
    BY <2>5, Zenon
  <2>7. QED
    BY <2>2, <2>3, <2>4, <2>5, <2>6, SMTT(30)
<1>21. ASSUME NEW w \in Workers, WorkerAfterIo(w)
      PROVE  TypeOK'
  BY <1>21, SMTT(20) DEF WorkerAfterIo
<1>22. ASSUME NEW w \in Workers, WorkerClear(w)
      PROVE  TypeOK'
  BY <1>22, SMTT(20) DEF WorkerClear, WakesTarget
<1>23. ASSUME NEW w \in Workers, WorkerPostLoad(w)
      PROVE  TypeOK'
  BY <1>23, SMTT(20) DEF WorkerPostLoad
<1>24. ASSUME NEW w \in Workers, WorkerPostStore(w)
      PROVE  TypeOK'
  BY <1>24, SMTT(20) DEF WorkerPostStore, WakesLocator
<1>25. CASE UNCHANGED vars
  BY <1>25
<1>26. QED
  BY <1>1, <1>2, <1>3, <1>4, <1>5, <1>6, <1>7, <1>8, <1>9, <1>10, <1>11, <1>12, <1>13,
     <1>14, <1>15, <1>16, <1>16a, <1>16b, <1>17, <1>18, <1>19, <1>20, <1>21, <1>22, <1>23, <1>24, <1>25
  DEF Next, TargetStep, WorkerStep, Finished

\* The workers the Target Thread points at.
LEMMA WalkStep ==
  ASSUME TypeOK, WalkRange, BusyMeaning, RequestMeaning, [Next]_vars
  PROVE  WalkRange'
<1> USE DEF Cleaning, TypeOK, WalkRange, BusyMeaning, Working, Choosing, Waiting,
            vars, tvars, counters, flags, sync, wvars
<1>1. CASE BeforePass
  BY <1>1, SMTT(20) DEF BeforePass
<1>2. CASE LoopTest
  BY <1>2, SMTT(20) DEF LoopTest, MoreToIssue
<1>3. CASE Locate
  BY <1>3, SMTT(20) DEF Locate, NoneAvailable
<1>4. CASE SpuriousWakeup
  BY <1>4, SMTT(20) DEF SpuriousWakeup
<1>5. CASE ScanBusy
  BY <1>5, SMTT(20) DEF ScanBusy
<1>6. CASE ScanTake
  BY <1>6, SMTT(20) DEF ScanTake
<1>7. CASE ScanNone
  BY <1>7, SMTT(20) DEF ScanNone
<1>8. CASE BeforeIoOp
  BY <1>8, SMTT(20) DEF BeforeIoOp
<1>9. CASE TaskSetup
  BY <1>9, SMTT(20) DEF TaskSetup, RequestMeaning
<1>10. CASE ReleaseWorker
  BY <1>10, SMTT(20) DEF ReleaseWorker
<1>11. CASE LoopDone
  BY <1>11, SMTT(20) DEF LoopDone, LeavesAtOnce
<1>12. CASE GetSpecific
  BY <1>12, SMTT(20) DEF GetSpecific, MustWaitFor, WakeupRequested
<1>13. CASE MarkLoad
  BY <1>13, SMTT(20) DEF MarkLoad
<1>14. CASE MarkStore
  BY <1>14, SMTT(20) DEF MarkStore, AllWaitedFor, TargetIoStatus
<1>15. CASE AfterPass
  BY <1>15, SMTT(20) DEF AfterPass
<1>16. CASE StopRequest
  BY <1>16, SMTT(20) DEF StopRequest, Cleaning
<1>16a. CASE StopWorker
  <2>1. /\ tpc = "stop" /\ walk \in Workers /\ walk' = walk + 1
        /\ wpc' = [wpc EXCEPT ![walk] = "read"] /\ task' = task
        /\ tpc' = IF walk = QueueDepth THEN "done" ELSE "cleanup"
    BY <1>16a DEF StopWorker
  <2>2. UNCHANGED <<wdp, busy>>
    BY <1>16a DEF StopWorker
  <2>3. QED
    BY <2>1, <2>2
<1>16b. ASSUME NEW w \in Workers, WorkerRead(w)
      PROVE  WalkRange'
  BY <1>16b, SMTT(20) DEF WorkerRead, RequestMeaning
<1>17. ASSUME NEW w \in Workers, WorkerBeforeIo(w)
      PROVE  WalkRange'
  BY <1>17, SMTT(20) DEF WorkerBeforeIo
<1>18. ASSUME NEW w \in Workers, WorkerCheck(w)
      PROVE  WalkRange'
  BY <1>18, SMTT(20) DEF WorkerCheck
<1>19. ASSUME NEW w \in Workers, WorkerIo(w)
      PROVE  WalkRange'
  BY <1>19, SMTT(20) DEF WorkerIo
<1>20. ASSUME NEW w \in Workers, WorkerCount(w)
      PROVE  WalkRange'
  BY <1>20, SMTT(20) DEF WorkerCount
<1>21. ASSUME NEW w \in Workers, WorkerAfterIo(w)
      PROVE  WalkRange'
  BY <1>21, SMTT(20) DEF WorkerAfterIo
<1>22. ASSUME NEW w \in Workers, WorkerClear(w)
      PROVE  WalkRange'
  BY <1>22, SMTT(20) DEF WorkerClear, WakesTarget
<1>23. ASSUME NEW w \in Workers, WorkerPostLoad(w)
      PROVE  WalkRange'
  BY <1>23, SMTT(20) DEF WorkerPostLoad
<1>24. ASSUME NEW w \in Workers, WorkerPostStore(w)
      PROVE  WalkRange'
  BY <1>24, SMTT(20) DEF WorkerPostStore, WakesLocator
<1>25. CASE UNCHANGED vars
  BY <1>25
<1>26. QED
  BY <1>1, <1>2, <1>3, <1>4, <1>5, <1>6, <1>7, <1>8, <1>9, <1>10, <1>11, <1>12, <1>13,
     <1>14, <1>15, <1>16, <1>16a, <1>16b, <1>17, <1>18, <1>19, <1>20, <1>21, <1>22, <1>23, <1>24, <1>25
  DEF Next, TargetStep, WorkerStep, Finished

\* The meaning of the BUSY flags.
LEMMA BusyStep ==
  ASSUME TypeOK, WalkRange, BusyMeaning, RequestMeaning, [Next]_vars
  PROVE  BusyMeaning'
<1> USE DEF Cleaning, TypeOK, WalkRange, BusyMeaning, Working, Choosing, Waiting,
            vars, tvars, counters, flags, sync, wvars
<1>1. CASE BeforePass
  BY <1>1, SMTT(20) DEF BeforePass
<1>2. CASE LoopTest
  BY <1>2, SMTT(20) DEF LoopTest, MoreToIssue
<1>3. CASE Locate
  BY <1>3, SMTT(20) DEF Locate, NoneAvailable
<1>4. CASE SpuriousWakeup
  BY <1>4, SMTT(20) DEF SpuriousWakeup
<1>5. CASE ScanBusy
  BY <1>5, SMTT(20) DEF ScanBusy
<1>6. CASE ScanTake
  BY <1>6, SMTT(20) DEF ScanTake
<1>7. CASE ScanNone
  BY <1>7, SMTT(20) DEF ScanNone
<1>8. CASE BeforeIoOp
  BY <1>8, SMTT(20) DEF BeforeIoOp
<1>9. CASE TaskSetup
  BY <1>9, SMTT(20) DEF TaskSetup, RequestMeaning
<1>10. CASE ReleaseWorker
  BY <1>10, SMTT(20) DEF ReleaseWorker, RequestMeaning
<1>11. CASE LoopDone
  BY <1>11, SMTT(20) DEF LoopDone, LeavesAtOnce
<1>12. CASE GetSpecific
  BY <1>12, SMTT(20) DEF GetSpecific, MustWaitFor, WakeupRequested
<1>13. CASE MarkLoad
  BY <1>13, SMTT(20) DEF MarkLoad
<1>14. CASE MarkStore
  BY <1>14, SMTT(20) DEF MarkStore, AllWaitedFor, TargetIoStatus
<1>15. CASE AfterPass
  BY <1>15, SMTT(20) DEF AfterPass
<1>16. CASE StopRequest
  BY <1>16, SMTT(20) DEF StopRequest, Cleaning
<1>16a. CASE StopWorker
  BY <1>16a, SMTT(20) DEF StopWorker
<1>16b. ASSUME NEW w \in Workers, WorkerRead(w)
      PROVE  BusyMeaning'
  BY <1>16b, SMTT(20) DEF WorkerRead, RequestMeaning
<1>17. ASSUME NEW w \in Workers, WorkerBeforeIo(w)
      PROVE  BusyMeaning'
  BY <1>17, SMTT(20) DEF WorkerBeforeIo
<1>18. ASSUME NEW w \in Workers, WorkerCheck(w)
      PROVE  BusyMeaning'
  BY <1>18, SMTT(20) DEF WorkerCheck
<1>19. ASSUME NEW w \in Workers, WorkerIo(w)
      PROVE  BusyMeaning'
  BY <1>19, SMTT(20) DEF WorkerIo
<1>20. ASSUME NEW w \in Workers, WorkerCount(w)
      PROVE  BusyMeaning'
  BY <1>20, SMTT(20) DEF WorkerCount
<1>21. ASSUME NEW w \in Workers, WorkerAfterIo(w)
      PROVE  BusyMeaning'
  BY <1>21, SMTT(20) DEF WorkerAfterIo
<1>22. ASSUME NEW w \in Workers, WorkerClear(w)
      PROVE  BusyMeaning'
  BY <1>22, SMTT(20) DEF WorkerClear, WakesTarget
<1>23. ASSUME NEW w \in Workers, WorkerPostLoad(w)
      PROVE  BusyMeaning'
  BY <1>23, SMTT(20) DEF WorkerPostLoad
<1>24. ASSUME NEW w \in Workers, WorkerPostStore(w)
      PROVE  BusyMeaning'
  BY <1>24, SMTT(20) DEF WorkerPostStore, WakesLocator
<1>25. CASE UNCHANGED vars
  BY <1>25
<1>26. QED
  BY <1>1, <1>2, <1>3, <1>4, <1>5, <1>6, <1>7, <1>8, <1>9, <1>10, <1>11, <1>12, <1>13,
     <1>14, <1>15, <1>16, <1>16a, <1>16b, <1>17, <1>18, <1>19, <1>20, <1>21, <1>22, <1>23, <1>24, <1>25
  DEF Next, TargetStep, WorkerStep, Finished

\* Before the cleanup no worker has stopped or is about to.
LEMMA NoneStopped ==
  ASSUME RequestMeaning, ~Cleaning, NEW w \in Workers
  PROVE  wpc[w] # "stopped" /\ (wpc[w] = "read" => task[w].req = "IO")
BY DEF RequestMeaning

\* A step of one worker that has read its request.
RequestSame(w) ==
  /\ wpc'[w] \notin {"read", "stopped"}
  /\ wpc[w] \in {"wait_task", "post", "post_store"} => wpc'[w] \in {"wait_task", "post", "post_store"}
  /\ \A v \in Workers : v # w => wpc'[v] = wpc[v]
  /\ UNCHANGED <<wdp, walk, task>>
  /\ \/ tpc' = tpc
     \/ tpc' \in {"spec_test", "locate"} /\ tpc \in {"spec_wait", "any_wait"}
  /\ ~canceled' => ~canceled

LEMMA RequestFrame ==
  ASSUME RequestMeaning, NEW w \in Workers, RequestSame(w)
  PROVE  RequestMeaning'
<1>1. \A v \in Workers : wpc'[v] # wpc[v] => v = w
  BY DEF RequestSame
<1>2. ~Cleaning' => ~Cleaning
  BY DEF RequestSame, Cleaning
<1>3. QED
  BY <1>1, <1>2 DEF RequestMeaning, RequestSame, Returning

\* What a worker finds when it reads its request.
LEMMA RequestStep ==
  ASSUME TypeOK, WalkRange, PassDrained, RequestMeaning, [Next]_vars
  PROVE  RequestMeaning'
<1> USE DEF Cleaning, TypeOK, WalkRange, Returning, Choosing, Waiting,
            vars, tvars, counters, flags, sync, wvars
<1>1. CASE BeforePass
  BY <1>1, SMTT(20) DEF BeforePass, RequestMeaning
<1>2. CASE LoopTest
  BY <1>2, SMTT(20) DEF LoopTest, MoreToIssue, RequestMeaning
<1>3. CASE Locate
  BY <1>3, SMTT(20) DEF Locate, NoneAvailable, RequestMeaning
<1>4. CASE SpuriousWakeup
  BY <1>4, SMTT(20) DEF SpuriousWakeup, RequestMeaning
<1>5. CASE ScanBusy
  BY <1>5, SMTT(20) DEF ScanBusy, RequestMeaning
<1>6. CASE ScanTake
  BY <1>6, SMTT(20) DEF ScanTake, RequestMeaning
<1>7. CASE ScanNone
  BY <1>7, SMTT(20) DEF ScanNone, RequestMeaning
<1>8. CASE BeforeIoOp
  BY <1>8, SMTT(20) DEF BeforeIoOp, RequestMeaning
<1>9. CASE TaskSetup
  BY <1>9, SMTT(20) DEF TaskSetup, RequestMeaning
<1>10. CASE ReleaseWorker
  BY <1>10, SMTT(20) DEF ReleaseWorker, RequestMeaning
<1>11. CASE LoopDone
  BY <1>11, SMTT(20) DEF LoopDone, LeavesAtOnce, RequestMeaning
<1>12. CASE GetSpecific
  BY <1>12, SMTT(20) DEF GetSpecific, MustWaitFor, WakeupRequested, RequestMeaning
<1>13. CASE MarkLoad
  BY <1>13, SMTT(20) DEF MarkLoad, RequestMeaning
<1>14. CASE MarkStore
  BY <1>14, SMTT(20) DEF MarkStore, AllWaitedFor, TargetIoStatus, RequestMeaning
<1>15. CASE AfterPass
  <2>1. /\ tpc = "after_pass" /\ walk' = 1 /\ tpc' \in {"cleanup", "before_pass"}
        /\ UNCHANGED <<wpc, task, canceled>>
    BY <1>15 DEF AfterPass
  <2>2. ~Cleaning /\ PassDrained /\ (tpc = "after_pass")
    BY <2>1
  <2>3a. ASSUME NEW w \in Workers
        PROVE  wpc[w] # "stopped" /\ (wpc[w] = "read" => task[w].req = "IO")
    BY <2>2, NoneStopped
  <2>3. ASSUME ~canceled, NEW w \in Workers
        PROVE  wpc[w] = "wait_task" \/ Returning(w)
    BY <2>2, <2>3, <2>3a DEF PassDrained, Working
  <2>4. QED
    BY <2>1, <2>3, <2>3a DEF RequestMeaning
<1>16. CASE StopRequest
  BY <1>16, SMTT(20) DEF StopRequest, Cleaning, RequestMeaning
<1>16a. CASE StopWorker
  <2>1. /\ tpc = "stop" /\ tpc' \in {"cleanup", "done"} /\ walk \in Workers /\ walk' = walk + 1
        /\ wpc' = [wpc EXCEPT ![walk] = "read"] /\ UNCHANGED <<wdp, task, canceled>>
    BY <1>16a DEF StopWorker
  <2>2. task[walk].req = "STOP"
    BY <2>1 DEF RequestMeaning
  <2>3. \A w \in Workers : w >= walk' => w # walk /\ w >= walk
    BY <2>1
  <2>4. QED
    BY <2>1, <2>2, <2>3 DEF RequestMeaning
<1>16b. ASSUME NEW w \in Workers, WorkerRead(w)
      PROVE  RequestMeaning'
  <2>1. /\ wpc[w] = "read" /\ UNCHANGED <<tpc, wdp, walk, task, canceled>>
        /\ wpc' = [wpc EXCEPT ![w] = IF task[w].req = "STOP" THEN "stopped" ELSE "before_io"]
    BY <1>16b DEF WorkerRead
  <2>2. ~Cleaning => wpc'[w] = "before_io"
    BY <2>1 DEF RequestMeaning
  <2>3. QED
    BY <2>1, <2>2 DEF RequestMeaning
<1>17. ASSUME NEW w \in Workers, WorkerBeforeIo(w)
      PROVE  RequestMeaning'
  <2>1. RequestSame(w)
    BY <1>17 DEF WorkerBeforeIo, RequestSame
  <2>2. QED
    BY <2>1, RequestFrame
<1>18. ASSUME NEW w \in Workers, WorkerCheck(w)
      PROVE  RequestMeaning'
  <2>1. RequestSame(w)
    BY <1>18 DEF WorkerCheck, RequestSame
  <2>2. QED
    BY <2>1, RequestFrame
<1>19. ASSUME NEW w \in Workers, WorkerIo(w)
      PROVE  RequestMeaning'
  <2>1. RequestSame(w)
    BY <1>19 DEF WorkerIo, RequestSame
  <2>2. QED
    BY <2>1, RequestFrame
<1>20. ASSUME NEW w \in Workers, WorkerCount(w)
      PROVE  RequestMeaning'
  <2>1. RequestSame(w)
    BY <1>20 DEF WorkerCount, RequestSame
  <2>2. QED
    BY <2>1, RequestFrame
<1>21. ASSUME NEW w \in Workers, WorkerAfterIo(w)
      PROVE  RequestMeaning'
  <2>1. RequestSame(w)
    BY <1>21 DEF WorkerAfterIo, RequestSame
  <2>2. QED
    BY <2>1, RequestFrame
<1>22. ASSUME NEW w \in Workers, WorkerClear(w)
      PROVE  RequestMeaning'
  <2>1. RequestSame(w)
    BY <1>22 DEF WorkerClear, RequestSame, WakesTarget
  <2>2. QED
    BY <2>1, RequestFrame
<1>23. ASSUME NEW w \in Workers, WorkerPostLoad(w)
      PROVE  RequestMeaning'
  <2>1. RequestSame(w)
    BY <1>23 DEF WorkerPostLoad, RequestSame
  <2>2. QED
    BY <2>1, RequestFrame
<1>24. ASSUME NEW w \in Workers, WorkerPostStore(w)
      PROVE  RequestMeaning'
  <2>1. RequestSame(w)
    BY <1>24 DEF WorkerPostStore, RequestSame, WakesLocator
  <2>2. QED
    BY <2>1, RequestFrame
<1>25. CASE UNCHANGED vars
  BY <1>25 DEF RequestMeaning
<1>26. QED
  BY <1>1, <1>2, <1>3, <1>4, <1>5, <1>6, <1>7, <1>8, <1>9, <1>10, <1>11, <1>12, <1>13,
     <1>14, <1>15, <1>16, <1>16a, <1>16b, <1>17, <1>18, <1>19, <1>20, <1>21, <1>22, <1>23, <1>24, <1>25
  DEF Next, TargetStep, WorkerStep, Finished

\* The workers the final wait is through with stay drained.
LEMMA DrainStep ==
  ASSUME TypeOK, WalkRange, BusyMeaning, RequestMeaning, DrainedSoFar, PassDrained, [Next]_vars
  PROVE  DrainedSoFar' /\ PassDrained'
<1> USE DEF Cleaning, TypeOK, WalkRange, BusyMeaning, DrainedSoFar, PassDrained, Working, Choosing, Waiting,
            vars, tvars, counters, flags, sync, wvars
<1>1. CASE BeforePass
  BY <1>1, SMTT(20) DEF BeforePass
<1>2. CASE LoopTest
  BY <1>2, SMTT(20) DEF LoopTest, MoreToIssue
<1>3. CASE Locate
  BY <1>3, SMTT(20) DEF Locate, NoneAvailable
<1>4. CASE SpuriousWakeup
  BY <1>4, SMTT(20) DEF SpuriousWakeup
<1>5. CASE ScanBusy
  BY <1>5, SMTT(20) DEF ScanBusy
<1>6. CASE ScanTake
  BY <1>6, SMTT(20) DEF ScanTake
<1>7. CASE ScanNone
  BY <1>7, SMTT(20) DEF ScanNone
<1>8. CASE BeforeIoOp
  BY <1>8, SMTT(20) DEF BeforeIoOp
<1>9. CASE TaskSetup
  BY <1>9, SMTT(20) DEF TaskSetup, RequestMeaning
<1>10. CASE ReleaseWorker
  BY <1>10, SMTT(20) DEF ReleaseWorker
<1>11. CASE LoopDone
  BY <1>11, SMTT(20) DEF LoopDone, LeavesAtOnce
<1>12. CASE GetSpecific
  BY <1>12, SMTT(20) DEF GetSpecific, MustWaitFor, WakeupRequested
<1>13. CASE MarkLoad
  BY <1>13, SMTT(20) DEF MarkLoad
<1>14. CASE MarkStore
  BY <1>14, SMTT(20) DEF MarkStore, AllWaitedFor, TargetIoStatus
<1>15. CASE AfterPass
  BY <1>15, SMTT(20) DEF AfterPass
<1>16. CASE StopRequest
  BY <1>16, SMTT(20) DEF StopRequest, Cleaning
<1>16a. CASE StopWorker
  BY <1>16a, SMTT(20) DEF StopWorker
<1>16b. ASSUME NEW w \in Workers, WorkerRead(w)
      PROVE  DrainedSoFar' /\ PassDrained'
  BY <1>16b, SMTT(20) DEF WorkerRead, RequestMeaning
<1>17. ASSUME NEW w \in Workers, WorkerBeforeIo(w)
      PROVE  DrainedSoFar' /\ PassDrained'
  BY <1>17, SMTT(20) DEF WorkerBeforeIo
<1>18. ASSUME NEW w \in Workers, WorkerCheck(w)
      PROVE  DrainedSoFar' /\ PassDrained'
  BY <1>18, SMTT(20) DEF WorkerCheck
<1>19. ASSUME NEW w \in Workers, WorkerIo(w)
      PROVE  DrainedSoFar' /\ PassDrained'
  BY <1>19, SMTT(20) DEF WorkerIo
<1>20. ASSUME NEW w \in Workers, WorkerCount(w)
      PROVE  DrainedSoFar' /\ PassDrained'
  BY <1>20, SMTT(20) DEF WorkerCount
<1>21. ASSUME NEW w \in Workers, WorkerAfterIo(w)
      PROVE  DrainedSoFar' /\ PassDrained'
  BY <1>21, SMTT(20) DEF WorkerAfterIo
<1>22. ASSUME NEW w \in Workers, WorkerClear(w)
      PROVE  DrainedSoFar' /\ PassDrained'
  BY <1>22, SMTT(20) DEF WorkerClear, WakesTarget
<1>23. ASSUME NEW w \in Workers, WorkerPostLoad(w)
      PROVE  DrainedSoFar' /\ PassDrained'
  BY <1>23, SMTT(20) DEF WorkerPostLoad
<1>24. ASSUME NEW w \in Workers, WorkerPostStore(w)
      PROVE  DrainedSoFar' /\ PassDrained'
  BY <1>24, SMTT(20) DEF WorkerPostStore, WakesLocator
<1>25. CASE UNCHANGED vars
  BY <1>25
<1>26. QED
  BY <1>1, <1>2, <1>3, <1>4, <1>5, <1>6, <1>7, <1>8, <1>9, <1>10, <1>11, <1>12, <1>13,
     <1>14, <1>15, <1>16, <1>16a, <1>16b, <1>17, <1>18, <1>19, <1>20, <1>21, <1>22, <1>23, <1>24, <1>25
  DEF Next, TargetStep, WorkerStep, Finished

\* What the locator knows while it holds the counter's mutex.
LEMMA ScanStep ==
  ASSUME TypeOK, WalkRange, BusyMeaning, RequestMeaning, ScanMeaning, [Next]_vars
  PROVE  ScanMeaning'
<1> USE DEF Cleaning, TypeOK, WalkRange, BusyMeaning, ScanMeaning, Working, Choosing, Waiting,
            vars, tvars, counters, flags, sync, wvars
<1>1. CASE BeforePass
  BY <1>1, SMTT(20) DEF BeforePass
<1>2. CASE LoopTest
  BY <1>2, SMTT(20) DEF LoopTest, MoreToIssue
<1>3. CASE Locate
  BY <1>3, SMTT(20) DEF Locate, NoneAvailable
<1>4. CASE SpuriousWakeup
  BY <1>4, SMTT(20) DEF SpuriousWakeup
<1>5. CASE ScanBusy
  BY <1>5, SMTT(20) DEF ScanBusy
<1>6. CASE ScanTake
  BY <1>6, SMTT(20) DEF ScanTake
<1>7. CASE ScanNone
  BY <1>7, SMTT(20) DEF ScanNone
<1>8. CASE BeforeIoOp
  BY <1>8, SMTT(20) DEF BeforeIoOp
<1>9. CASE TaskSetup
  BY <1>9, SMTT(20) DEF TaskSetup, RequestMeaning
<1>10. CASE ReleaseWorker
  BY <1>10, SMTT(20) DEF ReleaseWorker
<1>11. CASE LoopDone
  BY <1>11, SMTT(20) DEF LoopDone, LeavesAtOnce
<1>12. CASE GetSpecific
  BY <1>12, SMTT(20) DEF GetSpecific, MustWaitFor, WakeupRequested
<1>13. CASE MarkLoad
  BY <1>13, SMTT(20) DEF MarkLoad
<1>14. CASE MarkStore
  BY <1>14, SMTT(20) DEF MarkStore, AllWaitedFor, TargetIoStatus
<1>15. CASE AfterPass
  BY <1>15, SMTT(20) DEF AfterPass
<1>16. CASE StopRequest
  BY <1>16, SMTT(20) DEF StopRequest, Cleaning
<1>16a. CASE StopWorker
  BY <1>16a, SMTT(20) DEF StopWorker
<1>16b. ASSUME NEW w \in Workers, WorkerRead(w)
      PROVE  ScanMeaning'
  BY <1>16b, SMTT(20) DEF WorkerRead, RequestMeaning
<1>17. ASSUME NEW w \in Workers, WorkerBeforeIo(w)
      PROVE  ScanMeaning'
  BY <1>17, SMTT(20) DEF WorkerBeforeIo
<1>18. ASSUME NEW w \in Workers, WorkerCheck(w)
      PROVE  ScanMeaning'
  BY <1>18, SMTT(20) DEF WorkerCheck
<1>19. ASSUME NEW w \in Workers, WorkerIo(w)
      PROVE  ScanMeaning'
  BY <1>19, SMTT(20) DEF WorkerIo
<1>20. ASSUME NEW w \in Workers, WorkerCount(w)
      PROVE  ScanMeaning'
  BY <1>20, SMTT(20) DEF WorkerCount
<1>21. ASSUME NEW w \in Workers, WorkerAfterIo(w)
      PROVE  ScanMeaning'
  BY <1>21, SMTT(20) DEF WorkerAfterIo
<1>22. ASSUME NEW w \in Workers, WorkerClear(w)
      PROVE  ScanMeaning'
  BY <1>22, SMTT(20) DEF WorkerClear, WakesTarget
<1>23. ASSUME NEW w \in Workers, WorkerPostLoad(w)
      PROVE  ScanMeaning'
  BY <1>23, SMTT(20) DEF WorkerPostLoad
<1>24. ASSUME NEW w \in Workers, WorkerPostStore(w)
      PROVE  ScanMeaning'
  BY <1>24, SMTT(20) DEF WorkerPostStore, WakesLocator
<1>25. CASE UNCHANGED vars
  BY <1>25
<1>26. QED
  BY <1>1, <1>2, <1>3, <1>4, <1>5, <1>6, <1>7, <1>8, <1>9, <1>10, <1>11, <1>12, <1>13,
     <1>14, <1>15, <1>16, <1>16a, <1>16b, <1>17, <1>18, <1>19, <1>20, <1>21, <1>22, <1>23, <1>24, <1>25
  DEF Next, TargetStep, WorkerStep, Finished

\* A request for a wake-up is not lost.
LEMMA WakeStep ==
  ASSUME TypeOK, WalkRange, BusyMeaning, RequestMeaning, SpecificWoken, [Next]_vars
  PROVE  SpecificWoken'
<1> USE DEF Cleaning, TypeOK, WalkRange, BusyMeaning, SpecificWoken, Working, Choosing, Waiting,
            vars, tvars, counters, flags, sync, wvars
<1>1. CASE BeforePass
  BY <1>1, SMTT(20) DEF BeforePass
<1>2. CASE LoopTest
  BY <1>2, SMTT(20) DEF LoopTest, MoreToIssue
<1>3. CASE Locate
  BY <1>3, SMTT(20) DEF Locate, NoneAvailable
<1>4. CASE SpuriousWakeup
  BY <1>4, SMTT(20) DEF SpuriousWakeup
<1>5. CASE ScanBusy
  BY <1>5, SMTT(20) DEF ScanBusy
<1>6. CASE ScanTake
  BY <1>6, SMTT(20) DEF ScanTake
<1>7. CASE ScanNone
  BY <1>7, SMTT(20) DEF ScanNone
<1>8. CASE BeforeIoOp
  BY <1>8, SMTT(20) DEF BeforeIoOp
<1>9. CASE TaskSetup
  BY <1>9, SMTT(20) DEF TaskSetup, RequestMeaning
<1>10. CASE ReleaseWorker
  BY <1>10, SMTT(20) DEF ReleaseWorker
<1>11. CASE LoopDone
  BY <1>11, SMTT(20) DEF LoopDone, LeavesAtOnce
<1>12. CASE GetSpecific
  BY <1>12, SMTT(20) DEF GetSpecific, MustWaitFor, WakeupRequested
<1>13. CASE MarkLoad
  BY <1>13, SMTT(20) DEF MarkLoad
<1>14. CASE MarkStore
  BY <1>14, SMTT(20) DEF MarkStore, AllWaitedFor, TargetIoStatus
<1>15. CASE AfterPass
  BY <1>15, SMTT(20) DEF AfterPass
<1>16. CASE StopRequest
  BY <1>16, SMTT(20) DEF StopRequest, Cleaning
<1>16a. CASE StopWorker
  BY <1>16a, SMTT(20) DEF StopWorker
<1>16b. ASSUME NEW w \in Workers, WorkerRead(w)
      PROVE  SpecificWoken'
  BY <1>16b, SMTT(20) DEF WorkerRead, RequestMeaning
<1>17. ASSUME NEW w \in Workers, WorkerBeforeIo(w)
      PROVE  SpecificWoken'
  BY <1>17, SMTT(20) DEF WorkerBeforeIo
<1>18. ASSUME NEW w \in Workers, WorkerCheck(w)
      PROVE  SpecificWoken'
  BY <1>18, SMTT(20) DEF WorkerCheck
<1>19. ASSUME NEW w \in Workers, WorkerIo(w)
      PROVE  SpecificWoken'
  BY <1>19, SMTT(20) DEF WorkerIo
<1>20. ASSUME NEW w \in Workers, WorkerCount(w)
      PROVE  SpecificWoken'
  BY <1>20, SMTT(20) DEF WorkerCount
<1>21. ASSUME NEW w \in Workers, WorkerAfterIo(w)
      PROVE  SpecificWoken'
  BY <1>21, SMTT(20) DEF WorkerAfterIo
<1>22. ASSUME NEW w \in Workers, WorkerClear(w)
      PROVE  SpecificWoken'
  BY <1>22, SMTT(20) DEF WorkerClear, WakesTarget
<1>23. ASSUME NEW w \in Workers, WorkerPostLoad(w)
      PROVE  SpecificWoken'
  BY <1>23, SMTT(20) DEF WorkerPostLoad
<1>24. ASSUME NEW w \in Workers, WorkerPostStore(w)
      PROVE  SpecificWoken'
  BY <1>24, SMTT(20) DEF WorkerPostStore, WakesLocator
<1>25. CASE UNCHANGED vars
  BY <1>25
<1>26. QED
  BY <1>1, <1>2, <1>3, <1>4, <1>5, <1>6, <1>7, <1>8, <1>9, <1>10, <1>11, <1>12, <1>13,
     <1>14, <1>15, <1>16, <1>16a, <1>16b, <1>17, <1>18, <1>19, <1>20, <1>21, <1>22, <1>23, <1>24, <1>25
  DEF Next, TargetStep, WorkerStep, Finished

\* The counter is positive or will be incremented.
LEMMA CountStep ==
  ASSUME TypeOK, WalkRange, BusyMeaning, RequestMeaning, ScanMeaning, CountOrPoster, [Next]_vars
  PROVE  CountOrPoster'
<1> USE DEF Cleaning, TypeOK, WalkRange, BusyMeaning, ScanMeaning, CountOrPoster, Working, Returning, Choosing, Waiting,
            vars, tvars, counters, flags, sync, wvars
<1>1. CASE BeforePass
  BY <1>1, SMTT(20) DEF BeforePass
<1>2. CASE LoopTest
  BY <1>2, SMTT(20) DEF LoopTest, MoreToIssue
<1>3. CASE Locate
  BY <1>3, SMTT(20) DEF Locate, NoneAvailable
<1>4. CASE SpuriousWakeup
  BY <1>4, SMTT(20) DEF SpuriousWakeup
<1>5. CASE ScanBusy
  BY <1>5, SMTT(20) DEF ScanBusy
<1>6. CASE ScanTake
  BY <1>6, SMTT(20) DEF ScanTake
<1>7. CASE ScanNone
  BY <1>7, SMTT(20) DEF ScanNone
<1>8. CASE BeforeIoOp
  BY <1>8, SMTT(20) DEF BeforeIoOp
<1>9. CASE TaskSetup
  BY <1>9 DEF TaskSetup
<1>10. CASE ReleaseWorker
  BY <1>10, SMTT(20) DEF ReleaseWorker, RequestMeaning
<1>11. CASE LoopDone
  BY <1>11, SMTT(20) DEF LoopDone, LeavesAtOnce
<1>12. CASE GetSpecific
  BY <1>12, SMTT(20) DEF GetSpecific, MustWaitFor, WakeupRequested
<1>13. CASE MarkLoad
  BY <1>13, SMTT(20) DEF MarkLoad
<1>14. CASE MarkStore
  BY <1>14, SMTT(20) DEF MarkStore, AllWaitedFor, TargetIoStatus
<1>15. CASE AfterPass
  BY <1>15, SMTT(20) DEF AfterPass
<1>16. CASE StopRequest
  BY <1>16, SMTT(20) DEF StopRequest, Cleaning
<1>16a. CASE StopWorker
  BY <1>16a, SMTT(20) DEF StopWorker
<1>16b. ASSUME NEW w \in Workers, WorkerRead(w)
      PROVE  CountOrPoster'
  BY <1>16b, SMTT(20) DEF WorkerRead, RequestMeaning
<1>17. ASSUME NEW w \in Workers, WorkerBeforeIo(w)
      PROVE  CountOrPoster'
  BY <1>17, SMTT(20) DEF WorkerBeforeIo
<1>18. ASSUME NEW w \in Workers, WorkerCheck(w)
      PROVE  CountOrPoster'
  BY <1>18, SMTT(20) DEF WorkerCheck
<1>19. ASSUME NEW w \in Workers, WorkerIo(w)
      PROVE  CountOrPoster'
  BY <1>19, SMTT(20) DEF WorkerIo
<1>20. ASSUME NEW w \in Workers, WorkerCount(w)
      PROVE  CountOrPoster'
  BY <1>20, SMTT(20) DEF WorkerCount
<1>21. ASSUME NEW w \in Workers, WorkerAfterIo(w)
      PROVE  CountOrPoster'
  BY <1>21, SMTT(20) DEF WorkerAfterIo
<1>22. ASSUME NEW w \in Workers, WorkerClear(w)
      PROVE  CountOrPoster'
  BY <1>22, SMTT(20) DEF WorkerClear, WakesTarget
<1>23. ASSUME NEW w \in Workers, WorkerPostLoad(w)
      PROVE  CountOrPoster'
  BY <1>23, SMTT(20) DEF WorkerPostLoad
<1>24. ASSUME NEW w \in Workers, WorkerPostStore(w)
      PROVE  CountOrPoster'
  BY <1>24, SMTT(20) DEF WorkerPostStore, WakesLocator
<1>25. CASE UNCHANGED vars
  BY <1>25
<1>26. QED
  BY <1>1, <1>2, <1>3, <1>4, <1>5, <1>6, <1>7, <1>8, <1>9, <1>10, <1>11, <1>12, <1>13,
     <1>14, <1>15, <1>16, <1>16a, <1>16b, <1>17, <1>18, <1>19, <1>20, <1>21, <1>22, <1>23, <1>24, <1>25
  DEF Next, TargetStep, WorkerStep, Finished

\* Somebody is left to wake a sleeping locator.
LEMMA LocatorStep ==
  ASSUME TypeOK, BusyMeaning, RequestMeaning, CountOrPoster, LocatorWoken, [Next]_vars
  PROVE  LocatorWoken'
<1> USE DEF Cleaning, TypeOK, BusyMeaning, CountOrPoster, LocatorWoken, Working, Returning, Choosing, Waiting,
            vars, tvars, counters, flags, sync, wvars
<1>1. CASE BeforePass
  BY <1>1, SMTT(20) DEF BeforePass
<1>2. CASE LoopTest
  BY <1>2, SMTT(20) DEF LoopTest, MoreToIssue
<1>3. CASE Locate
  BY <1>3, SMTT(20) DEF Locate, NoneAvailable
<1>4. CASE SpuriousWakeup
  BY <1>4, SMTT(20) DEF SpuriousWakeup
<1>5. CASE ScanBusy
  BY <1>5, SMTT(20) DEF ScanBusy
<1>6. CASE ScanTake
  BY <1>6, SMTT(20) DEF ScanTake
<1>7. CASE ScanNone
  BY <1>7, SMTT(20) DEF ScanNone
<1>8. CASE BeforeIoOp
  BY <1>8, SMTT(20) DEF BeforeIoOp
<1>9. CASE TaskSetup
  BY <1>9, SMTT(20) DEF TaskSetup, RequestMeaning
<1>10. CASE ReleaseWorker
  BY <1>10, SMTT(20) DEF ReleaseWorker
<1>11. CASE LoopDone
  BY <1>11, SMTT(20) DEF LoopDone, LeavesAtOnce
<1>12. CASE GetSpecific
  BY <1>12, SMTT(20) DEF GetSpecific, MustWaitFor, WakeupRequested
<1>13. CASE MarkLoad
  BY <1>13, SMTT(20) DEF MarkLoad
<1>14. CASE MarkStore
  BY <1>14, SMTT(20) DEF MarkStore, AllWaitedFor, TargetIoStatus
<1>15. CASE AfterPass
  BY <1>15, SMTT(20) DEF AfterPass
<1>16. CASE StopRequest
  BY <1>16, SMTT(20) DEF StopRequest, Cleaning
<1>16a. CASE StopWorker
  BY <1>16a, SMTT(20) DEF StopWorker
<1>16b. ASSUME NEW w \in Workers, WorkerRead(w)
      PROVE  LocatorWoken'
  BY <1>16b, SMTT(20) DEF WorkerRead, RequestMeaning
<1>17. ASSUME NEW w \in Workers, WorkerBeforeIo(w)
      PROVE  LocatorWoken'
  BY <1>17, SMTT(20) DEF WorkerBeforeIo
<1>18. ASSUME NEW w \in Workers, WorkerCheck(w)
      PROVE  LocatorWoken'
  BY <1>18, SMTT(20) DEF WorkerCheck
<1>19. ASSUME NEW w \in Workers, WorkerIo(w)
      PROVE  LocatorWoken'
  BY <1>19, SMTT(20) DEF WorkerIo
<1>20. ASSUME NEW w \in Workers, WorkerCount(w)
      PROVE  LocatorWoken'
  BY <1>20, SMTT(20) DEF WorkerCount
<1>21. ASSUME NEW w \in Workers, WorkerAfterIo(w)
      PROVE  LocatorWoken'
  BY <1>21, SMTT(20) DEF WorkerAfterIo
<1>22. ASSUME NEW w \in Workers, WorkerClear(w)
      PROVE  LocatorWoken'
  BY <1>22, SMTT(20) DEF WorkerClear, WakesTarget
<1>23. ASSUME NEW w \in Workers, WorkerPostLoad(w)
      PROVE  LocatorWoken'
  BY <1>23, SMTT(20) DEF WorkerPostLoad
<1>24. ASSUME NEW w \in Workers, WorkerPostStore(w)
      PROVE  LocatorWoken'
  BY <1>24, SMTT(20) DEF WorkerPostStore, WakesLocator
<1>25. CASE UNCHANGED vars
  BY <1>25
<1>26. QED
  BY <1>1, <1>2, <1>3, <1>4, <1>5, <1>6, <1>7, <1>8, <1>9, <1>10, <1>11, <1>12, <1>13,
     <1>14, <1>15, <1>16, <1>16a, <1>16b, <1>17, <1>18, <1>19, <1>20, <1>21, <1>22, <1>23, <1>24, <1>25
  DEF Next, TargetStep, WorkerStep, Finished

\* The initial state.
LEMMA Initially == Init => PoolInv
<1> SUFFICES ASSUME Init PROVE PoolInv
  OBVIOUS
<1>1. TypeOK
  <2>1. /\ task \in [Workers -> [req : Requests, op : Nat, size : Nat]]
        /\ tries \in [0..NumOps-1 -> Nat]
    BY DEF Init, Requests
  <2>2. /\ busy \in [Workers -> BOOLEAN] /\ waiting \in [Workers -> BOOLEAN]
        /\ ioGood \in [Workers -> BOOLEAN] /\ wload \in [Workers -> Nat]
    BY DEF Init, Requests
  <2>3. wpc \in [Workers -> {"wait_task", "read", "before_io", "check", "io", "count",
                            "after_io", "clear", "post", "post_store", "stopped"}]
    BY DEF Init, Requests
  <2>4. /\ expired \in BOOLEAN /\ tdAbort \in BOOLEAN /\ canceled \in BOOLEAN
        /\ targetErrno \in BOOLEAN
    BY DEF Init
  <2>5. /\ tpc = "before_pass" /\ wdp = Free /\ anyMutex = Free
        /\ walk \in 1..(QueueDepth + 1)
        /\ tload \in Nat /\ pass \in Nat /\ available \in Nat
        /\ nextOp \in Nat /\ remaining \in Nat /\ issued \in Nat
        /\ completed \in Nat /\ errors \in Nat
    BY DEF Init
  <2>6. QED
    BY <2>1, <2>2, <2>3, <2>4, <2>5, Zenon DEF TypeOK
<1>2. BusyMeaning /\ WalkRange /\ RequestMeaning
  BY DEF Init, BusyMeaning, WalkRange, RequestMeaning, Cleaning, Working, Choosing, Waiting
<1>3. DrainedSoFar /\ ScanMeaning /\ PassDrained /\ SpecificWoken /\ LocatorWoken
  BY DEF Init, DrainedSoFar, ScanMeaning, PassDrained, SpecificWoken, LocatorWoken,
         Working, Waiting
<1>4. CountOrPoster
  BY DEF Init, CountOrPoster
<1>5. QED
  BY <1>1, <1>2, <1>3, <1>4 DEF PoolInv

\* PoolInv holds in every reachable state, for every queue depth, transfer
\* size, number of passes and combination of options.
THEOREM PoolInvariant == Spec => []PoolInv
<1>1. ASSUME PoolInv, [Next]_vars
      PROVE  PoolInv'
  <2>1. TypeOK /\ BusyMeaning /\ WalkRange /\ DrainedSoFar /\ ScanMeaning /\ RequestMeaning
    BY <1>1 DEF PoolInv
  <2>2. CountOrPoster /\ LocatorWoken /\ PassDrained /\ SpecificWoken
    BY <1>1 DEF PoolInv
  <2>3. TypeOK' /\ WalkRange' /\ BusyMeaning' /\ RequestMeaning'
    BY <1>1, <2>1, <2>2, TypeStep, WalkStep, BusyStep, RequestStep
  <2>4. DrainedSoFar' /\ PassDrained'
    BY <1>1, <2>1, <2>2, DrainStep
  <2>5. ScanMeaning' /\ SpecificWoken'
    BY <1>1, <2>1, <2>2, ScanStep, WakeStep
  <2>6. CountOrPoster' /\ LocatorWoken'
    BY <1>1, <2>1, <2>2, CountStep, LocatorStep
  <2>7. QED
    BY <2>3, <2>4, <2>5, <2>6 DEF PoolInv
<1>2. QED
  BY Initially, <1>1, PTL DEF Spec

\* The variables of the pool keep their types: in particular the counter of
\* available workers, which two unsynchronised writers increment and the
\* locator decrements, never goes below zero.
THEOREM PoolTypes == Spec => []TypeOK
<1>1. PoolInv => TypeOK
  BY DEF PoolInv
<1>2. QED
  BY PoolInvariant, <1>1, PTL

\* A worker that is given a task is through with its last one: the target
\* never overwrites a task that is being performed (target_pass.c:112-144).
THEOREM TaskOwned == Spec => []TaskOwnership
<1>1. PoolInv => TaskOwnership
  BY DEF PoolInv, TypeOK, WalkRange, BusyMeaning, TaskOwnership, Choosing, Cleaning
<1>2. QED
  BY PoolInvariant, <1>1, PTL

\* The final wait over the workers (target_pass.c:163-176) is enough: at the
\* end of a pass that was not canceled no worker is still at its I/O.
THEOREM PassIsDrained == Spec => []PassDrained
<1>1. PoolInv => PassDrained
  BY DEF PoolInv
<1>2. QED
  BY PoolInvariant, <1>1, PTL

\* Increments of the counter may be lost, but never so many that the locator
\* sleeps with nobody left to broadcast (target_pass_wt_locator.c:89-94).
THEOREM LocatorIsWoken == Spec => []LocatorWoken
<1>1. PoolInv => LocatorWoken
  BY DEF PoolInv
<1>2. QED
  BY PoolInvariant, <1>1, PTL

\* A target that sleeps on one worker's condition variable has its request
\* seen by that worker (target_pass_wt_locator.c:50-57, worker_thread.c:122-136).
THEOREM SpecificIsWoken == Spec => []SpecificWoken
<1>1. PoolInv => SpecificWoken
  BY DEF PoolInv
<1>2. QED
  BY PoolInvariant, <1>1, PTL

\* Only a cancel can take a worker's unread I/O request away from it and leave the
\* target alone in the task barrier: in any other run the STOP request finds its
\* worker on the way to that barrier (target_cleanup.c:30-33, worker_thread.c:62-65).
THEOREM CancelAloneStrands == Spec => []OnlyCancelStrands
<1>1. PoolInv => OnlyCancelStrands
  <2>1. SUFFICES ASSUME PoolInv, Stranded, ~canceled PROVE FALSE
    BY DEF OnlyCancelStrands
  <2>2. tpc = "stop" /\ wpc[walk] = "stopped"
    BY <2>1 DEF Stranded
  <2>3. walk \in Workers
    BY <2>1, <2>2 DEF PoolInv, WalkRange
  <2>4. wpc[walk] = "wait_task" \/ Returning(walk)
    BY <2>1, <2>2, <2>3 DEF PoolInv, RequestMeaning
  <2>5. QED
    BY <2>2, <2>4 DEF Returning
<1>2. QED
  BY PoolInvariant, <1>1, PTL

-----------------------------------------------------------------------------
(* The pool hands out the operations of a pass as TaskDispatch promises,    *)
(* and every operation is performed.  This adds to PoolInv what the bytes   *)
(* that remain, the operation number and the operations at the workers have *)
(* to do with each other, and what of the bytes the workers have yet to     *)
(* count.                                                                   *)

\* Between the test of the loop and the set-up of a task.
Issuing == tpc \in {"locate", "any_wait", "scan", "before_io", "setup"}
\* From the end of the loop to the end of the pass.
Closing == tpc \in {"loop_done", "spec_test", "spec_wait", "mark", "mark_store", "after_pass"}
\* A worker that has been given an operation and has yet to perform it.
Pending(w) == \/ wpc[w] \in {"before_io", "check", "io"}
              \/ wpc[w] = "read" /\ task[w].req = "IO"
              \/ tpc = "release" /\ wdp = w

\* The bytes that remain and the operation number tell the same story; nothing
\* remains when the loop ends by itself.
Accounted ==
  /\ remaining # 0 => remaining + nextOp * XferSize = BytesPerPass
  /\ tpc # "before_pass" => /\ remaining + nextOp * XferSize >= BytesPerPass
                            /\ issued + remaining = BytesPerPass
  /\ Issuing => remaining # 0
  /\ Closing /\ ~Stopped => remaining = 0

\* No worker is at an operation of the last pass when the next one begins.
FreshStart == tpc = "before_pass" => \A w \in Workers : ~Working(w)

\* What is performed was issued, what is pending was not performed, and no
\* two workers have the same operation pending.
Once ==
  /\ \A n \in 0..NumOps-1 : tries[n] <= 1
  /\ tpc # "before_pass" =>
       /\ nextOp <= NumOps
       /\ \A n \in 0..NumOps-1 : tries[n] # 0 => n < nextOp
       /\ \A w \in Workers : Pending(w) => /\ task[w].op < nextOp
                                           /\ tries[task[w].op] = 0
       /\ \A v, w \in Workers : Pending(v) /\ Pending(w) /\ v # w => task[v].op # task[w].op

\* What was issued is performed or pending, until something stops the pass.
NoneLost ==
  tpc # "before_pass" /\ ~Stopped =>
    \A n \in 0..nextOp-1 : tries[n] = 1 \/ \E w \in Workers : Pending(w) /\ task[w].op = n

IInv == PoolInv /\ Accounted /\ FreshStart /\ Once /\ NoneLost

\* No operation is performed twice in a pass, and a pass that nothing stopped
\* has issued all its bytes and performed every operation.
EveryOperationOnce ==
  /\ \A n \in 0..NumOps-1 : tries[n] <= 1
  /\ tpc = "after_pass" /\ ~Stopped => /\ \A n \in 0..NumOps-1 : tries[n] = 1
                                       /\ issued = BytesPerPass

-----------------------------------------------------------------------------
\* The number of operations is the pass divided by the transfer size, rounded
\* up: operation n exists exactly if it has a first byte in the pass.
LEMMA OperationsCover ==
  /\ NumOps \in Nat
  /\ \A n \in Nat : n < NumOps <=> n * XferSize < BytesPerPass
<1>1. /\ BytesPerPass + XferSize - 1 \in Nat /\ XferSize \in Nat \ {0}
  OBVIOUS
<1>2. /\ NumOps \in Nat
      /\ NumOps * XferSize <= BytesPerPass + XferSize - 1
      /\ BytesPerPass + XferSize - 1 < NumOps * XferSize + XferSize
  BY <1>1, SMTT(30) DEF NumOps
<1>3. ASSUME NEW n \in Nat, n < NumOps
      PROVE  n * XferSize < BytesPerPass
  <2>1. (n + 1) * XferSize <= NumOps * XferSize
    BY <1>2, <1>3, SMTT(30)
  <2>2. (n + 1) * XferSize = n * XferSize + XferSize
    BY SMTT(30)
  <2>3. QED
    BY <1>2, <2>1, <2>2
<1>4. ASSUME NEW n \in Nat, NumOps <= n
      PROVE  BytesPerPass <= n * XferSize
  <2>1. NumOps * XferSize <= n * XferSize
    BY <1>2, <1>4, SMTT(30)
  <2>2. n * XferSize \in Nat /\ NumOps * XferSize \in Nat
    BY <1>2, SMTT(30)
  <2>3. QED
    BY <1>2, <2>1, <2>2
<1>5. QED
  <2>1. ASSUME NEW n \in Nat PROVE n < NumOps <=> n * XferSize < BytesPerPass
    <3>1. n * XferSize \in Nat
      BY SMTT(30)
    <3>2. QED
      BY <1>2, <1>3, <1>4, <3>1
  <2>2. QED
    BY <1>2, <2>1

\* The bytes that remain are accounted for.
LEMMA AccountStep ==
  ASSUME TypeOK, Accounted, [Next]_vars
  PROVE  Accounted'
<1> USE DEF TypeOK, Accounted, Issuing, Closing, Stopped,
            vars, tvars, counters, flags, sync, wvars
<1>1. CASE BeforePass
  <2>1. 0 * XferSize = 0
    BY SMTT(20)
  <2>2. QED
    BY <1>1, <2>1, SMTT(20) DEF BeforePass
<1>2. CASE LoopTest
  BY <1>2, SMTT(20) DEF LoopTest, MoreToIssue
<1>3. CASE Locate
  BY <1>3, SMTT(20) DEF Locate, NoneAvailable
<1>4. CASE SpuriousWakeup
  BY <1>4, SMTT(20) DEF SpuriousWakeup
<1>5. CASE ScanBusy
  BY <1>5, SMTT(20) DEF ScanBusy
<1>6. CASE ScanTake
  BY <1>6, SMTT(20) DEF ScanTake
<1>7. CASE ScanNone
  BY <1>7, SMTT(20) DEF ScanNone
<1>8. CASE BeforeIoOp
  BY <1>8, SMTT(20) DEF BeforeIoOp
<1>9. CASE TaskSetup
  <2>1. (nextOp + 1) * XferSize = nextOp * XferSize + XferSize /\ nextOp * XferSize \in Nat
    BY SMTT(20)
  <2>2. PICK size \in {remaining, XferSize} :
           /\ size = IF remaining < XferSize THEN remaining ELSE XferSize
           /\ issued' = issued + size /\ remaining' = remaining - size
    BY <1>9 DEF TaskSetup
  <2>3. nextOp' = nextOp + 1 /\ tpc = "setup" /\ tpc' = "release"
    BY <1>9 DEF TaskSetup
  <2>4. nextOp' * XferSize = nextOp * XferSize + XferSize
    BY <2>1, <2>3
  <2>5. QED
    BY <2>1, <2>2, <2>3, <2>4, SMTT(20)
<1>10. CASE ReleaseWorker
  BY <1>10, SMTT(20) DEF ReleaseWorker
<1>11. CASE LoopDone
  BY <1>11, SMTT(20) DEF LoopDone, LeavesAtOnce
<1>12. CASE GetSpecific
  BY <1>12, SMTT(20) DEF GetSpecific, MustWaitFor, WakeupRequested
<1>13. CASE MarkLoad
  BY <1>13, SMTT(20) DEF MarkLoad
<1>14. CASE MarkStore
  BY <1>14, SMTT(20) DEF MarkStore, AllWaitedFor, TargetIoStatus
<1>15. CASE AfterPass
  BY <1>15, SMTT(20) DEF AfterPass
<1>16. CASE StopRequest
  BY <1>16, SMTT(20) DEF StopRequest
<1>16a. CASE StopWorker
  BY <1>16a, SMTT(20) DEF StopWorker
<1>16b. ASSUME NEW w \in Workers, WorkerRead(w)
      PROVE  Accounted'
  BY <1>16b, SMTT(20) DEF WorkerRead
<1>17. ASSUME NEW w \in Workers, WorkerBeforeIo(w)
      PROVE  Accounted'
  BY <1>17, SMTT(20) DEF WorkerBeforeIo
<1>18. ASSUME NEW w \in Workers, WorkerCheck(w)
      PROVE  Accounted'
  BY <1>18, SMTT(20) DEF WorkerCheck
<1>19. ASSUME NEW w \in Workers, WorkerIo(w)
      PROVE  Accounted'
  BY <1>19, SMTT(20) DEF WorkerIo
<1>20. ASSUME NEW w \in Workers, WorkerCount(w)
      PROVE  Accounted'
  BY <1>20, SMTT(20) DEF WorkerCount
<1>21. ASSUME NEW w \in Workers, WorkerAfterIo(w)
      PROVE  Accounted'
  BY <1>21, SMTT(20) DEF WorkerAfterIo
<1>22. ASSUME NEW w \in Workers, WorkerClear(w)
      PROVE  Accounted'
  BY <1>22, SMTT(20) DEF WorkerClear, WakesTarget
<1>23. ASSUME NEW w \in Workers, WorkerPostLoad(w)
      PROVE  Accounted'
  BY <1>23, SMTT(20) DEF WorkerPostLoad
<1>24. ASSUME NEW w \in Workers, WorkerPostStore(w)
      PROVE  Accounted'
  BY <1>24, SMTT(20) DEF WorkerPostStore, WakesLocator
<1>25. CASE UNCHANGED vars
  BY <1>25
<1>26. QED
  BY <1>1, <1>2, <1>3, <1>4, <1>5, <1>6, <1>7, <1>8, <1>9, <1>10, <1>11, <1>12, <1>13,
     <1>14, <1>15, <1>16, <1>16a, <1>16b, <1>17, <1>18, <1>19, <1>20, <1>21, <1>22, <1>23, <1>24, <1>25
  DEF Next, TargetStep, WorkerStep, Finished

\* A pass begins only when the last one is drained.
LEMMA FreshStep ==
  ASSUME TypeOK, WalkRange, RequestMeaning, PassDrained, FreshStart, [Next]_vars
  PROVE  FreshStart'
<1> USE DEF TypeOK, WalkRange, PassDrained, FreshStart, Working, Choosing, Waiting,
            vars, tvars, counters, flags, sync, wvars
<1>1. CASE BeforePass
  BY <1>1, SMTT(20) DEF BeforePass
<1>2. CASE LoopTest
  BY <1>2, SMTT(20) DEF LoopTest, MoreToIssue
<1>3. CASE Locate
  BY <1>3, SMTT(20) DEF Locate, NoneAvailable
<1>4. CASE SpuriousWakeup
  BY <1>4, SMTT(20) DEF SpuriousWakeup
<1>5. CASE ScanBusy
  BY <1>5, SMTT(20) DEF ScanBusy
<1>6. CASE ScanTake
  BY <1>6, SMTT(20) DEF ScanTake
<1>7. CASE ScanNone
  BY <1>7, SMTT(20) DEF ScanNone
<1>8. CASE BeforeIoOp
  BY <1>8, SMTT(20) DEF BeforeIoOp
<1>9. CASE TaskSetup
  BY <1>9, SMTT(20) DEF TaskSetup
<1>10. CASE ReleaseWorker
  BY <1>10, SMTT(20) DEF ReleaseWorker
<1>11. CASE LoopDone
  BY <1>11, SMTT(20) DEF LoopDone, LeavesAtOnce
<1>12. CASE GetSpecific
  BY <1>12, SMTT(20) DEF GetSpecific, MustWaitFor, WakeupRequested
<1>13. CASE MarkLoad
  BY <1>13, SMTT(20) DEF MarkLoad
<1>14. CASE MarkStore
  BY <1>14, SMTT(20) DEF MarkStore, AllWaitedFor, TargetIoStatus
<1>15. CASE AfterPass
  BY <1>15, SMTT(20) DEF AfterPass
<1>16. CASE StopRequest
  BY <1>16, SMTT(20) DEF StopRequest
<1>16a. CASE StopWorker
  BY <1>16a, SMTT(20) DEF StopWorker
<1>16b. ASSUME NEW w \in Workers, WorkerRead(w)
      PROVE  FreshStart'
  BY <1>16b, SMTT(20) DEF WorkerRead, RequestMeaning, Cleaning
<1>17. ASSUME NEW w \in Workers, WorkerBeforeIo(w)
      PROVE  FreshStart'
  BY <1>17, SMTT(20) DEF WorkerBeforeIo
<1>18. ASSUME NEW w \in Workers, WorkerCheck(w)
      PROVE  FreshStart'
  BY <1>18, SMTT(20) DEF WorkerCheck
<1>19. ASSUME NEW w \in Workers, WorkerIo(w)
      PROVE  FreshStart'
  BY <1>19, SMTT(20) DEF WorkerIo
<1>20. ASSUME NEW w \in Workers, WorkerCount(w)
      PROVE  FreshStart'
  BY <1>20, SMTT(20) DEF WorkerCount
<1>21. ASSUME NEW w \in Workers, WorkerAfterIo(w)
      PROVE  FreshStart'
  BY <1>21, SMTT(20) DEF WorkerAfterIo
<1>22. ASSUME NEW w \in Workers, WorkerClear(w)
      PROVE  FreshStart'
  BY <1>22, SMTT(20) DEF WorkerClear, WakesTarget
<1>23. ASSUME NEW w \in Workers, WorkerPostLoad(w)
      PROVE  FreshStart'
  BY <1>23, SMTT(20) DEF WorkerPostLoad
<1>24. ASSUME NEW w \in Workers, WorkerPostStore(w)
      PROVE  FreshStart'
  BY <1>24, SMTT(20) DEF WorkerPostStore, WakesLocator
<1>25. CASE UNCHANGED vars
  BY <1>25
<1>26. QED
  BY <1>1, <1>2, <1>3, <1>4, <1>5, <1>6, <1>7, <1>8, <1>9, <1>10, <1>11, <1>12, <1>13,
     <1>14, <1>15, <1>16, <1>16a, <1>16b, <1>17, <1>18, <1>19, <1>20, <1>21, <1>22, <1>23, <1>24, <1>25
  DEF Next, TargetStep, WorkerStep, Finished

\* Who has what to do is left alone: what Once says stays true.
LEMMA OnceFrame ==
  ASSUME Once, UNCHANGED <<tries, nextOp>>,
         tpc' # "before_pass" => tpc # "before_pass",
         \A v \in Workers : Pending(v)' => Pending(v) /\ task'[v].op = task[v].op
  PROVE  Once'
BY DEF Once

\* Likewise what NoneLost says.
LEMMA NoneLostFrame ==
  ASSUME NoneLost, UNCHANGED <<tries, nextOp>>,
         tpc' # "before_pass" => tpc # "before_pass",
         Stopped => Stopped',
         \A v \in Workers : Pending(v) => Pending(v)' /\ task'[v].op = task[v].op
  PROVE  NoneLost'
BY DEF NoneLost

\* A new task is of the next operation, which nobody has performed.
LEMMA SetupOnce ==
  ASSUME TypeOK, WalkRange, Accounted, Once, TaskSetup
  PROVE  Once'
<1>1. nextOp < NumOps
  <2>1. remaining # 0 /\ remaining + nextOp * XferSize = BytesPerPass
    BY DEF TaskSetup, Accounted, Issuing
  <2>2. nextOp * XferSize \in Nat /\ nextOp \in Nat /\ remaining \in Nat
    BY SMTT(20) DEF TypeOK
  <2>3. QED
    BY <2>1, <2>2, OperationsCover
<1>2. /\ tpc = "setup" /\ tpc' = "release" /\ nextOp' = nextOp + 1
      /\ tries' = tries /\ wpc' = wpc /\ wdp' = wdp
  BY DEF TaskSetup, wvars
<1>3. /\ task'[wdp].op = nextOp
      /\ \A v \in Workers : v # wdp => task'[v] = task[v]
  BY DEF TaskSetup, TypeOK, WalkRange, Choosing
<1>4. \A v \in Workers : Pending(v)' <=> Pending(v) \/ v = wdp
  BY <1>2, <1>3 DEF Pending
<1>5. tpc # "before_pass" /\ nextOp \in Nat /\ NumOps \in Nat /\ tries \in [0..NumOps-1 -> Nat]
  BY <1>2, OperationsCover DEF TypeOK
<1>6. \A n \in 0..NumOps-1 : tries[n] <= 1 /\ (tries[n] # 0 => n < nextOp)
  BY <1>5 DEF Once
<1>7. \A v \in Workers : Pending(v) => task[v].op < nextOp /\ tries[task[v].op] = 0
  BY <1>5 DEF Once
<1>8. \A u, v \in Workers : Pending(u) /\ Pending(v) /\ u # v => task[u].op # task[v].op
  BY <1>5 DEF Once
<1>9. \A v \in Workers : task[v].op \in Nat
  BY DEF TypeOK
<1>10. tries[nextOp] = 0
  BY <1>1, <1>5, <1>6
<1>11. ASSUME NEW v \in Workers, Pending(v)'
       PROVE  task'[v].op < nextOp' /\ tries'[task'[v].op] = 0
  <2>1. CASE v = wdp
    BY <1>2, <1>3, <1>5, <1>10, <2>1
  <2>2. CASE v # wdp
    BY <1>2, <1>3, <1>4, <1>5, <1>7, <1>9, <1>11, <2>2
  <2>3. QED
    BY <2>1, <2>2
<1>12. ASSUME NEW u \in Workers, NEW v \in Workers, Pending(u)', Pending(v)', u # v
       PROVE  task'[u].op # task'[v].op
  <2>1. CASE u = wdp
    BY <1>3, <1>4, <1>5, <1>7, <1>9, <1>12, <2>1
  <2>2. CASE v = wdp
    BY <1>3, <1>4, <1>5, <1>7, <1>9, <1>12, <2>2
  <2>3. CASE u # wdp /\ v # wdp
    BY <1>3, <1>4, <1>8, <1>12, <2>3
  <2>4. QED
    BY <2>1, <2>2, <2>3
<1>13. nextOp' <= NumOps /\ \A n \in 0..NumOps-1 : tries'[n] <= 1 /\ (tries'[n] # 0 => n < nextOp')
  BY <1>1, <1>2, <1>5, <1>6
<1>14. QED
  BY <1>11, <1>12, <1>13 DEF Once

\* What a worker performs was pending with it alone, and is pending no more.
LEMMA IoPlace ==
  ASSUME TypeOK, WalkRange, FreshStart, Once, NEW w \in Workers, WorkerIo(w)
  PROVE  /\ tpc # "before_pass" /\ Pending(w) /\ UNCHANGED <<tpc, task, nextOp>>
         /\ NumOps \in Nat /\ nextOp \in 0..NumOps
         /\ task[w].op \in 0..NumOps-1 /\ task[w].op < nextOp /\ tries[task[w].op] = 0
         /\ tries'[task[w].op] = 1
         /\ \A n \in 0..NumOps-1 : n # task[w].op => tries'[n] = tries[n]
         /\ ~Pending(w)'
         /\ \A v \in Workers : v # w => (Pending(v)' <=> Pending(v))
<1>1. /\ wpc[w] = "io" /\ wpc' = [wpc EXCEPT ![w] = "count"]
      /\ tpc' = tpc /\ wdp' = wdp /\ task' = task /\ nextOp' = nextOp
      /\ tries' = [tries EXCEPT ![task[w].op] = tries[task[w].op] + 1]
  BY Zenon DEF WorkerIo, tvars, counters
<1>2. tpc # "before_pass" /\ Pending(w)
  BY <1>1 DEF FreshStart, Working, Pending
<1>3. /\ task[w].op < nextOp /\ tries[task[w].op] = 0 /\ nextOp <= NumOps
      /\ task[w].op \in Nat /\ nextOp \in Nat /\ NumOps \in Nat
  BY <1>2, OperationsCover DEF Once, TypeOK
<1>4. task[w].op \in 0..NumOps-1 /\ nextOp \in 0..NumOps
  BY <1>3
<1>5. /\ tries'[task[w].op] = 1
      /\ \A n \in 0..NumOps-1 : n # task[w].op => tries'[n] = tries[n]
  BY <1>1, <1>3, <1>4 DEF TypeOK
<1>6. wpc'[w] = "count" /\ \A v \in Workers : v # w => wpc'[v] = wpc[v]
  BY <1>1 DEF TypeOK
<1>7. \A v \in Workers : v # w => (Pending(v)' <=> Pending(v))
  BY <1>1, <1>6 DEF Pending
<1>8. ~Pending(w)'
  <2>1. ~(tpc = "release" /\ wdp = w)
    BY <1>1 DEF WalkRange, Choosing, Working
  <2>2. QED
    BY <1>1, <1>6, <2>1 DEF Pending
<1>9. QED
  BY <1>1, <1>2, <1>3, <1>4, <1>5, <1>7, <1>8

\* Performing an operation is the only try at it.
LEMMA IoOnce ==
  ASSUME TypeOK, WalkRange, FreshStart, Once, NEW w \in Workers, WorkerIo(w)
  PROVE  Once'
<1>1. /\ tpc # "before_pass" /\ Pending(w) /\ task' = task /\ nextOp' = nextOp
      /\ task[w].op \in 0..NumOps-1 /\ task[w].op < nextOp
      /\ tries'[task[w].op] = 1
      /\ \A n \in 0..NumOps-1 : n # task[w].op => tries'[n] = tries[n]
      /\ \A v \in Workers : Pending(v)' => Pending(v) /\ v # w
  BY IoPlace
<1>2. NumOps \in Nat /\ nextOp \in Nat /\ nextOp <= NumOps
  BY <1>1, OperationsCover DEF TypeOK, Once
<1>3. \A n \in 0..NumOps-1 : tries'[n] <= 1 /\ (tries'[n] # 0 => n < nextOp)
  BY <1>1, <1>2 DEF Once
<1>4. ASSUME NEW v \in Workers, Pending(v)'
      PROVE  task[v].op < nextOp /\ tries'[task[v].op] = 0
  <2>1. /\ task[v].op < nextOp /\ tries[task[v].op] = 0
        /\ task[v].op # task[w].op
    BY <1>1, <1>4 DEF Once
  <2>2. task[v].op \in 0..NumOps-1
    BY <1>2, <2>1, SMTT(30) DEF TypeOK
  <2>3. QED
    BY <1>1, <2>1, <2>2
<1>5. \A u, v \in Workers : Pending(u)' /\ Pending(v)' /\ u # v => task[u].op # task[v].op
  BY <1>1 DEF Once
<1>6. QED
  BY <1>1, <1>2, <1>3, <1>4, <1>5 DEF Once

\* Performing an operation moves it from pending to performed.
LEMMA IoLosesNothing ==
  ASSUME TypeOK, WalkRange, FreshStart, Once, NoneLost, NEW w \in Workers, WorkerIo(w)
  PROVE  NoneLost'
<1>1. /\ tpc # "before_pass" /\ task' = task /\ nextOp' = nextOp
      /\ NumOps \in Nat /\ nextOp \in 0..NumOps
      /\ tries'[task[w].op] = 1
      /\ \A n \in 0..NumOps-1 : n # task[w].op => tries'[n] = tries[n]
      /\ \A v \in Workers : v # w => (Pending(v)' <=> Pending(v))
  BY IoPlace
<1>2. Stopped => Stopped'
  BY DEF WorkerIo, Stopped
<1>3. ASSUME ~Stopped', NEW n \in 0..nextOp-1
      PROVE  tries'[n] = 1 \/ \E v \in Workers : Pending(v)' /\ task[v].op = n
  <2>1. n \in 0..NumOps-1
    BY <1>1
  <2>2. CASE n = task[w].op
    BY <1>1, <2>2
  <2>3. CASE n # task[w].op
    <3>1. tries[n] = 1 \/ \E v \in Workers : Pending(v) /\ task[v].op = n
      BY <1>1, <1>2, <1>3 DEF NoneLost
    <3>2. CASE tries[n] = 1
      BY <1>1, <2>1, <2>3, <3>2
    <3>3. CASE \E v \in Workers : Pending(v) /\ task[v].op = n
      BY <1>1, <2>3, <3>3
    <3>4. QED
      BY <3>1, <3>2, <3>3
  <2>4. QED
    BY <2>2, <2>3
<1>4. QED
  BY <1>1, <1>3 DEF NoneLost

\* No operation is performed twice.
LEMMA OnceStep ==
  ASSUME TypeOK, WalkRange, RequestMeaning, Accounted, FreshStart, Once, [Next]_vars
  PROVE  Once'
<1> USE DEF TypeOK, WalkRange, FreshStart, Once, Pending, Working, Choosing, Waiting,
            vars, tvars, counters, flags, sync, wvars
<1>1. CASE BeforePass
  <2>1. /\ tpc' = "loop" /\ nextOp' = 0 /\ tries' = [n \in 0..NumOps-1 |-> 0]
        /\ UNCHANGED <<wdp, wpc, task>>
    BY <1>1 DEF BeforePass
  <2>2. \A v \in Workers : ~Pending(v)'
    BY <1>1, <2>1 DEF BeforePass
  <2>3. NumOps \in Nat
    BY OperationsCover
  <2>4. \A n \in 0..NumOps-1 : tries'[n] = 0
    BY <2>1
  <2>5. QED
    BY <2>1, <2>2, <2>3, <2>4
<1>2. CASE LoopTest
  BY <1>2, SMTT(60) DEF LoopTest, MoreToIssue
<1>3. CASE Locate
  BY <1>3, SMTT(60) DEF Locate, NoneAvailable
<1>4. CASE SpuriousWakeup
  BY <1>4, SMTT(60) DEF SpuriousWakeup
<1>5. CASE ScanBusy
  BY <1>5, SMTT(60) DEF ScanBusy
<1>6. CASE ScanTake
  BY <1>6, SMTT(60) DEF ScanTake
<1>7. CASE ScanNone
  BY <1>7, SMTT(60) DEF ScanNone
<1>8. CASE BeforeIoOp
  BY <1>8, SMTT(60) DEF BeforeIoOp
<1>9. CASE TaskSetup
  BY <1>9, SetupOnce
<1>10. CASE ReleaseWorker
  BY <1>10, SMTT(60) DEF ReleaseWorker, RequestMeaning
<1>11. CASE LoopDone
  BY <1>11, SMTT(60) DEF LoopDone, LeavesAtOnce
<1>12. CASE GetSpecific
  BY <1>12, SMTT(60) DEF GetSpecific, MustWaitFor, WakeupRequested
<1>13. CASE MarkLoad
  BY <1>13, SMTT(60) DEF MarkLoad
<1>14. CASE MarkStore
  BY <1>14, SMTT(60) DEF MarkStore, AllWaitedFor, TargetIoStatus
<1>15. CASE AfterPass
  BY <1>15, SMTT(60) DEF AfterPass
<1>16. CASE StopRequest
  <2>1. \A v \in Workers : Pending(v)' => Pending(v)
    BY <1>16 DEF StopRequest
  <2>2. \A v \in Workers : task'[v].op = task[v].op
    BY <1>16 DEF StopRequest
  <2>3. tpc = "cleanup" /\ UNCHANGED <<tries, nextOp>>
    BY <1>16 DEF StopRequest
  <2>4. QED
    BY <2>1, <2>2, <2>3, OnceFrame
<1>16a. CASE StopWorker
  <2>1. /\ tpc = "stop" /\ tpc' \in {"done", "cleanup"} /\ walk \in Workers
        /\ wpc' = [wpc EXCEPT ![walk] = "read"]
        /\ UNCHANGED <<task, tries, nextOp>>
    BY <1>16a DEF StopWorker
  <2>2. task[walk].req = "STOP"
    BY <2>1 DEF RequestMeaning
  <2>3. \A v \in Workers : Pending(v)' => Pending(v)
    BY <2>1, <2>2
  <2>4. QED
    BY <2>1, <2>3, OnceFrame
<1>16b. ASSUME NEW w \in Workers, WorkerRead(w)
      PROVE  Once'
  <2>1. \A v \in Workers : Pending(v)' => Pending(v)
    <3>1. task[w].req \in {"none", "IO", "STOP"} /\ UNCHANGED <<tpc, wdp, task>>
          /\ wpc[w] = "read" /\ (wpc'[w] = "before_io" => task[w].req # "STOP")
          /\ wpc'[w] \in {"before_io", "stopped"}
          /\ \A v \in Workers : v # w => wpc'[v] = wpc[v]
      BY <1>16b DEF WorkerRead, Requests
    <3>2. wpc'[w] = "before_io" => task[w].req = "IO"
      BY <3>1 DEF RequestMeaning
    <3>3. QED
      BY <3>1, <3>2
  <2>2. UNCHANGED <<tpc, task, tries, nextOp>>
    BY <1>16b DEF WorkerRead
  <2>3. QED
    BY <2>1, <2>2, OnceFrame
<1>17. ASSUME NEW w \in Workers, WorkerBeforeIo(w)
      PROVE  Once'
  BY <1>17, SMTT(60) DEF WorkerBeforeIo
<1>18. ASSUME NEW w \in Workers, WorkerCheck(w)
      PROVE  Once'
  BY <1>18, SMTT(60) DEF WorkerCheck
<1>19. ASSUME NEW w \in Workers, WorkerIo(w)
      PROVE  Once'
  BY <1>19, IoOnce
<1>20. ASSUME NEW w \in Workers, WorkerCount(w)
      PROVE  Once'
  BY <1>20, SMTT(60) DEF WorkerCount
<1>21. ASSUME NEW w \in Workers, WorkerAfterIo(w)
      PROVE  Once'
  BY <1>21, SMTT(60) DEF WorkerAfterIo
<1>22. ASSUME NEW w \in Workers, WorkerClear(w)
      PROVE  Once'
  <2>1. \A v \in Workers : Pending(v)' => Pending(v)
    BY <1>22 DEF WorkerClear, WakesTarget
  <2>2. UNCHANGED <<task, tries, nextOp>>
    BY <1>22 DEF WorkerClear
  <2>3. tpc' # "before_pass" => tpc # "before_pass"
    BY <1>22 DEF WorkerClear, WakesTarget
  <2>9. QED
    BY <2>1, <2>2, <2>3, OnceFrame
<1>23. ASSUME NEW w \in Workers, WorkerPostLoad(w)
      PROVE  Once'
  BY <1>23, SMTT(60) DEF WorkerPostLoad
<1>24. ASSUME NEW w \in Workers, WorkerPostStore(w)
      PROVE  Once'
  <2>1. \A v \in Workers : Pending(v)' => Pending(v)
    BY <1>24 DEF WorkerPostStore, WakesLocator
  <2>2. UNCHANGED <<task, tries, nextOp>>
    BY <1>24 DEF WorkerPostStore
  <2>3. tpc' # "before_pass" => tpc # "before_pass"
    BY <1>24 DEF WorkerPostStore, WakesLocator
  <2>9. QED
    BY <2>1, <2>2, <2>3, OnceFrame
<1>25. CASE UNCHANGED vars
  BY <1>25
<1>26. QED
  BY <1>1, <1>2, <1>3, <1>4, <1>5, <1>6, <1>7, <1>8, <1>9, <1>10, <1>11, <1>12, <1>13,
     <1>14, <1>15, <1>16, <1>16a, <1>16b, <1>17, <1>18, <1>19, <1>20, <1>21, <1>22, <1>23, <1>24, <1>25
  DEF Next, TargetStep, WorkerStep, Finished

\* No operation is lost.
LEMMA NoneLostStep ==
  ASSUME TypeOK, WalkRange, RequestMeaning, FreshStart, Once, NoneLost, [Next]_vars
  PROVE  NoneLost'
<1> USE DEF TypeOK, WalkRange, FreshStart, Once, NoneLost, Pending, Working, Stopped, Choosing,
            vars, tvars, counters, flags, sync, wvars
<1>1. CASE BeforePass
  BY <1>1, SMTT(60) DEF BeforePass
<1>2. CASE LoopTest
  BY <1>2, SMTT(60) DEF LoopTest, MoreToIssue
<1>3. CASE Locate
  BY <1>3, SMTT(60) DEF Locate, NoneAvailable
<1>4. CASE SpuriousWakeup
  BY <1>4, SMTT(60) DEF SpuriousWakeup
<1>5. CASE ScanBusy
  BY <1>5, SMTT(60) DEF ScanBusy
<1>6. CASE ScanTake
  BY <1>6, SMTT(60) DEF ScanTake
<1>7. CASE ScanNone
  BY <1>7, SMTT(60) DEF ScanNone
<1>8. CASE BeforeIoOp
  BY <1>8, SMTT(60) DEF BeforeIoOp
<1>9. CASE TaskSetup
  BY <1>9, SMTT(60) DEF TaskSetup
<1>10. CASE ReleaseWorker
  BY <1>10, SMTT(60) DEF ReleaseWorker, RequestMeaning
<1>11. CASE LoopDone
  BY <1>11, SMTT(60) DEF LoopDone, LeavesAtOnce
<1>12. CASE GetSpecific
  BY <1>12, SMTT(60) DEF GetSpecific, MustWaitFor, WakeupRequested
<1>13. CASE MarkLoad
  BY <1>13, SMTT(60) DEF MarkLoad
<1>14. CASE MarkStore
  BY <1>14, SMTT(60) DEF MarkStore, AllWaitedFor, TargetIoStatus
<1>15. CASE AfterPass
  BY <1>15, SMTT(60) DEF AfterPass
<1>16. CASE StopRequest
  <2>1. /\ tpc = "cleanup" /\ tpc' = "stop" /\ task' = [task EXCEPT ![walk].req = "STOP"]
        /\ UNCHANGED <<tries, nextOp, canceled, tdAbort, expired, wpc, wdp, walk>>
    BY <1>16 DEF StopRequest
  <2>2. \A v \in Workers : task'[v].op = task[v].op
    BY <2>1
  <2>3. CASE ~canceled
    <3>1. wpc[walk] = "wait_task" \/ Returning(walk)
      BY <2>1, <2>3 DEF RequestMeaning, Waiting
    <3>2. \A v \in Workers : Pending(v) => Pending(v)'
      BY <2>1, <3>1 DEF Returning
    <3>3. QED
      BY <2>1, <2>2, <3>2, NoneLostFrame
  <2>4. CASE canceled
    BY <2>1, <2>4
  <2>5. QED
    BY <2>3, <2>4
<1>16a. CASE StopWorker
  <2>1. /\ tpc = "stop" /\ walk \in Workers /\ wpc[walk] = "wait_task"
        /\ wpc' = [wpc EXCEPT ![walk] = "read"]
        /\ UNCHANGED <<task, tries, nextOp, canceled, tdAbort, expired>>
    BY <1>16a DEF StopWorker, Waiting
  <2>2. \A v \in Workers : Pending(v) => Pending(v)'
    BY <2>1
  <2>3. QED
    BY <2>1, <2>2, NoneLostFrame
<1>16b. ASSUME NEW w \in Workers, WorkerRead(w)
      PROVE  NoneLost'
  <2>1. /\ wpc[w] = "read" /\ (task[w].req = "IO" => wpc'[w] = "before_io")
        /\ \A v \in Workers : v # w => wpc'[v] = wpc[v]
        /\ UNCHANGED <<tpc, wdp, task, tries, nextOp, canceled, tdAbort, expired>>
    BY <1>16b DEF WorkerRead
  <2>2. \A v \in Workers : Pending(v) => Pending(v)'
    BY <2>1
  <2>3. QED
    BY <2>1, <2>2, NoneLostFrame
<1>17. ASSUME NEW w \in Workers, WorkerBeforeIo(w)
      PROVE  NoneLost'
  BY <1>17, SMTT(60) DEF WorkerBeforeIo
<1>18. ASSUME NEW w \in Workers, WorkerCheck(w)
      PROVE  NoneLost'
  BY <1>18, SMTT(60) DEF WorkerCheck
<1>19. ASSUME NEW w \in Workers, WorkerIo(w)
      PROVE  NoneLost'
  BY <1>19, IoLosesNothing
<1>20. ASSUME NEW w \in Workers, WorkerCount(w)
      PROVE  NoneLost'
  <2>1. \A v \in Workers : Pending(v) => Pending(v)'
    BY <1>20 DEF WorkerCount
  <2>2. UNCHANGED <<task, tries, nextOp>>
    BY <1>20 DEF WorkerCount
  <2>3. tpc' # "before_pass" => tpc # "before_pass"
    BY <1>20 DEF WorkerCount
  <2>4. Stopped => Stopped'
    BY <1>20 DEF WorkerCount
  <2>9. QED
    BY <2>1, <2>2, <2>3, <2>4, NoneLostFrame
<1>21. ASSUME NEW w \in Workers, WorkerAfterIo(w)
      PROVE  NoneLost'
  <2>1. \A v \in Workers : Pending(v) => Pending(v)'
    BY <1>21 DEF WorkerAfterIo
  <2>2. UNCHANGED <<task, tries, nextOp>>
    BY <1>21 DEF WorkerAfterIo
  <2>3. tpc' # "before_pass" => tpc # "before_pass"
    BY <1>21 DEF WorkerAfterIo
  <2>4. Stopped => Stopped'
    BY <1>21 DEF WorkerAfterIo
  <2>9. QED
    BY <2>1, <2>2, <2>3, <2>4, NoneLostFrame
<1>22. ASSUME NEW w \in Workers, WorkerClear(w)
      PROVE  NoneLost'
  <2>1. \A v \in Workers : Pending(v) => Pending(v)'
    BY <1>22 DEF WorkerClear, WakesTarget
  <2>2. UNCHANGED <<task, tries, nextOp>>
    BY <1>22 DEF WorkerClear
  <2>3. tpc' # "before_pass" => tpc # "before_pass"
    BY <1>22 DEF WorkerClear, WakesTarget
  <2>4. Stopped => Stopped'
    BY <1>22 DEF WorkerClear, WakesTarget
  <2>9. QED
    BY <2>1, <2>2, <2>3, <2>4, NoneLostFrame
<1>23. ASSUME NEW w \in Workers, WorkerPostLoad(w)
      PROVE  NoneLost'
  <2>1. \A v \in Workers : Pending(v) => Pending(v)'
    BY <1>23 DEF WorkerPostLoad
  <2>2. UNCHANGED <<task, tries, nextOp>>
    BY <1>23 DEF WorkerPostLoad
  <2>3. tpc' # "before_pass" => tpc # "before_pass"
    BY <1>23 DEF WorkerPostLoad
  <2>4. Stopped => Stopped'
    BY <1>23 DEF WorkerPostLoad
  <2>9. QED
    BY <2>1, <2>2, <2>3, <2>4, NoneLostFrame
<1>24. ASSUME NEW w \in Workers, WorkerPostStore(w)
      PROVE  NoneLost'
  <2>1. \A v \in Workers : Pending(v) => Pending(v)'
    BY <1>24 DEF WorkerPostStore, WakesLocator
  <2>2. UNCHANGED <<task, tries, nextOp>>
    BY <1>24 DEF WorkerPostStore
  <2>3. tpc' # "before_pass" => tpc # "before_pass"
    BY <1>24 DEF WorkerPostStore, WakesLocator
  <2>4. Stopped => Stopped'
    BY <1>24 DEF WorkerPostStore
  <2>9. QED
    BY <2>1, <2>2, <2>3, <2>4, NoneLostFrame
<1>25. CASE UNCHANGED vars
  BY <1>25
<1>26. QED
  BY <1>1, <1>2, <1>3, <1>4, <1>5, <1>6, <1>7, <1>8, <1>9, <1>10, <1>11, <1>12, <1>13,
     <1>14, <1>15, <1>16, <1>16a, <1>16b, <1>17, <1>18, <1>19, <1>20, <1>21, <1>22, <1>23, <1>24, <1>25
  DEF Next, TargetStep, WorkerStep, Finished

-----------------------------------------------------------------------------
\* The inductive invariant: PoolInv with the account of bytes and operations.
THEOREM Inductive == Spec => []IInv
<1>1. Init => IInv
  <2>1. ASSUME Init PROVE IInv
    <3>1. PoolInv
      BY <2>1, Initially
    <3>2. tpc = "before_pass" /\ remaining = 0 /\ tries = [n \in 0..NumOps-1 |-> 0]
          /\ \A w \in Workers : wpc[w] = "wait_task"
      BY <2>1 DEF Init
    <3>3. Accounted /\ FreshStart /\ Once /\ NoneLost
      BY <3>2 DEF Accounted, FreshStart, Once, NoneLost, Issuing, Closing, Working
    <3>4. QED
      BY <3>1, <3>3 DEF IInv
  <2>2. QED
    BY <2>1
<1>2. ASSUME IInv, PoolInv', [Next]_vars
      PROVE  IInv'
  <2>1. TypeOK /\ WalkRange /\ PassDrained /\ RequestMeaning
    BY <1>2 DEF IInv, PoolInv
  <2>2. Accounted' /\ FreshStart' /\ Once' /\ NoneLost'
    BY <1>2, <2>1, AccountStep, FreshStep, OnceStep, NoneLostStep DEF IInv
  <2>3. QED
    BY <1>2, <2>2 DEF IInv
<1>3. QED
  BY PoolInvariant, <1>1, <1>2, PTL DEF Spec

\* No operation is performed twice in a pass, and a pass that neither a cancel,
\* an abort nor the time limit stopped has issued all its bytes and performed
\* every operation (target_pass.c:119-151, 206-242).
THEOREM PerformedOnce == Spec => []EveryOperationOnce
<1>1. ASSUME IInv PROVE EveryOperationOnce
  <2>1. \A n \in 0..NumOps-1 : tries[n] <= 1
    BY <1>1 DEF IInv, Once
  <2>2. ASSUME tpc = "after_pass", ~Stopped
        PROVE  issued = BytesPerPass /\ \A n \in 0..NumOps-1 : tries[n] = 1
    <3>1. remaining = 0 /\ issued = BytesPerPass /\ nextOp * XferSize >= BytesPerPass
      <4>1. remaining = 0 /\ remaining + nextOp * XferSize >= BytesPerPass
            /\ issued + remaining = BytesPerPass
        BY <1>1, <2>2 DEF IInv, Accounted, Closing
      <4>2. nextOp * XferSize \in Nat /\ issued \in Nat
        BY <1>1, SMTT(20) DEF IInv, PoolInv, TypeOK
      <4>3. QED
        BY <4>1, <4>2
    <3>2. nextOp \in Nat /\ NumOps \in Nat
      BY <1>1, OperationsCover DEF IInv, PoolInv, TypeOK
    <3>3. ~(nextOp < NumOps)
      <4>1. nextOp * XferSize \in Nat
        BY <3>2, SMTT(20)
      <4>2. QED
        BY <3>1, <3>2, <4>1, OperationsCover
    <3>4. \A w \in Workers : ~Pending(w)
      BY <1>1, <2>2 DEF IInv, PoolInv, PassDrained, Working, Pending, Stopped
    <3>5. ASSUME NEW n \in 0..NumOps-1 PROVE tries[n] = 1
      <4>1. n \in 0..nextOp-1
        BY <3>2, <3>3
      <4>2. QED
        BY <1>1, <2>2, <3>4, <4>1 DEF IInv, NoneLost
    <3>6. QED
      BY <3>1, <3>5
  <2>3. QED
    BY <2>1, <2>2 DEF EveryOperationOnce
<1>2. QED
  BY Inductive, <1>1, PTL

-----------------------------------------------------------------------------
(* The bytes of a pass.                                                     *)

\* A worker whose task the counters of the target have yet to hear of.
AtIo(w) == \/ wpc[w] \in {"before_io", "check", "io", "count"}
           \/ wpc[w] = "read" /\ task[w].req = "IO"
           \/ tpc = "release" /\ wdp = w
Due(w) == IF AtIo(w) THEN task[w].size ELSE 0

\* sum[w] is what is due from the workers up to w.
Sums(sum) == /\ sum \in [0..QueueDepth -> Int]
             /\ sum[0] = 0
             /\ \A w \in Workers : sum[w] = sum[w - 1] + Due(w)

\* What was issued is completed or due, until something stops the pass or fails.
Exact == tpc # "before_pass" /\ ~Stopped /\ errors = 0
Tallied == Exact => \E sum : Sums(sum) /\ issued = completed + sum[QueueDepth]

\* One worker more or less has something due.
LEMMA SumsMove ==
  ASSUME TypeOK, TypeOK', NEW sum, Sums(sum), NEW w \in Workers, NEW d \in Int,
         Due(w)' = Due(w) + d, \A v \in Workers : v # w => Due(v)' = Due(v)
  PROVE  \E s : Sums(s)' /\ s[QueueDepth] = sum[QueueDepth] + d
<1> DEFINE s == [v \in 0..QueueDepth |-> IF v >= w THEN sum[v] + d ELSE sum[v]]
<1>1. \A v \in 0..QueueDepth : sum[v] \in Int BY DEF Sums
<1>2. \A v \in Workers : Due(v) \in Int /\ Due(v)' \in Int
  <2>1. \A v \in Workers : task[v].size \in Nat /\ task'[v].size \in Nat BY DEF TypeOK
  <2> QED BY <2>1 DEF Due
<1>3. s \in [0..QueueDepth -> Int] /\ s[0] = 0 /\ s[QueueDepth] = sum[QueueDepth] + d
  BY <1>1 DEF Sums
<1>4. ASSUME NEW v \in Workers PROVE s[v] = s[v - 1] + Due(v)'
  <2>1. v \in 0..QueueDepth /\ v - 1 \in 0..QueueDepth /\ sum[v] = sum[v - 1] + Due(v)
    BY DEF Sums
  <2>2. CASE v > w BY <1>1, <1>2, <2>1, <2>2
  <2>3. CASE v = w BY <1>1, <1>2, <2>1, <2>3
  <2>4. CASE v < w BY <1>1, <1>2, <2>1, <2>4
  <2> QED BY <2>2, <2>3, <2>4
<1> HIDE DEF s
<1>5. Sums(s)' BY <1>3, <1>4 DEF Sums
<1> QED BY <1>3, <1>5

\* The order of the naturals, which is well founded.
Below == {ss \in Nat \X Nat : ss[1] < ss[2]}

\* A set of naturals that has 0 and the successor of each of its members is Nat.
LEMMA Induction ==
  ASSUME NEW S, S \subseteq Nat, 0 \in S, \A n \in S : n + 1 \in S
  PROVE  S = Nat
<1> SUFFICES ASSUME Nat \ S # {} PROVE FALSE OBVIOUS
<1>1. IsWellFoundedOn(Below, Nat) BY NatLessThanWellFounded DEF OpToRel, Below
<1>2. PICK x \in Nat \ S : \A y \in Nat \ S : ~ (<<y, x>> \in Below)
  <2>1. Nat \ S \subseteq Nat OBVIOUS
  <2> QED BY <1>1, <2>1, WFMin
<1>3. x # 0 /\ x - 1 \in Nat OBVIOUS
<1>4. x - 1 \in S
  <2>1. <<x - 1, x>> \in Below BY <1>3 DEF Below
  <2> QED BY <1>2, <1>3, <2>1
<1> QED BY <1>3, <1>4

\* The sum is nothing when nothing is due.
LEMMA SumOfNone ==
  ASSUME NEW sum, Sums(sum), \A w \in Workers : Due(w) = 0
  PROVE  sum[QueueDepth] = 0
<1> DEFINE S == {n \in Nat : n <= QueueDepth => sum[n] = 0}
<1>1. 0 \in S BY DEF Sums
<1>2. ASSUME NEW n \in S PROVE n + 1 \in S
  <2> SUFFICES ASSUME n + 1 <= QueueDepth PROVE sum[n + 1] = 0 OBVIOUS
  <2>1. n + 1 \in Workers /\ sum[n] = 0 /\ (n + 1) - 1 = n OBVIOUS
  <2>2. sum[n + 1] = sum[(n + 1) - 1] + Due(n + 1) BY <2>1 DEF Sums
  <2>3. Due(n + 1) = 0 BY <2>1
  <2> QED BY <2>1, <2>2, <2>3
<1>3. S = Nat
  <2> HIDE DEF S
  <2>1. S \subseteq Nat BY DEF S
  <2> QED BY <1>1, <1>2, <2>1, Induction
<1> QED BY <1>3

\* What is due stays, and so does the tally.
LEMMA TallyFrame ==
  ASSUME Tallied, UNCHANGED <<issued, completed>>, Exact' => Exact,
         Exact' => \A w \in Workers : Due(w)' = Due(w)
  PROVE  Tallied'
BY DEF Tallied, Sums

\* Every step keeps the tally.
LEMMA TallyStep ==
  ASSUME IInv, TypeOK', Tallied, [Next]_vars
  PROVE  Tallied'
<1> USE DEF vars, tvars, counters, flags, sync, wvars
<1>0. TypeOK /\ WalkRange /\ RequestMeaning /\ FreshStart BY DEF IInv, PoolInv
<1>1. CASE BeforePass
  <2>1. /\ tpc' = "loop" /\ issued' = 0 /\ completed' = 0
        /\ \A w \in Workers : /\ wpc'[w] \notin {"before_io", "check", "io", "count"}
                              /\ ~(wpc'[w] = "read" /\ task'[w].req = "IO")
    BY <1>0, <1>1 DEF BeforePass, FreshStart, Working
  <2>2. \A w \in Workers : Due(w)' = 0 BY <2>1 DEF Due, AtIo
  <2>3. PICK s : s = [v \in 0..QueueDepth |-> 0] OBVIOUS
  <2>4. Sums(s)' /\ s[QueueDepth] = 0 BY <2>2, <2>3 DEF Sums
  <2> QED BY <2>1, <2>4 DEF Tallied
<1>2. CASE LoopTest \/ Locate \/ SpuriousWakeup \/ ScanBusy \/ ScanTake \/ ScanNone \/ BeforeIoOp
           \/ LoopDone \/ GetSpecific \/ MarkLoad \/ MarkStore \/ AfterPass
  <2>1. /\ tpc \notin {"release", "before_pass"} /\ tpc' # "release"
        /\ UNCHANGED <<issued, completed, task, wpc, errors>> /\ (Stopped => Stopped')
    <3> USE DEF Stopped
    <3>1. CASE LoopTest \/ Locate \/ SpuriousWakeup
      BY <3>1 DEF LoopTest, Locate, SpuriousWakeup
    <3>2. CASE ScanBusy \/ ScanTake \/ ScanNone BY <3>2 DEF ScanBusy, ScanTake, ScanNone
    <3>3. CASE BeforeIoOp BY <3>3 DEF BeforeIoOp
    <3>4. CASE LoopDone \/ GetSpecific \/ MarkLoad BY <3>4 DEF LoopDone, GetSpecific, MarkLoad
    <3>5. CASE MarkStore \/ AfterPass BY <3>5 DEF MarkStore, AfterPass
    <3> QED BY <1>2, <3>1, <3>2, <3>3, <3>4, <3>5
  <2>2. \A w \in Workers : Due(w)' = Due(w) BY <2>1 DEF Due, AtIo
  <2> QED BY <2>1, <2>2, TallyFrame DEF Exact
<1>3. CASE TaskSetup
  <2>1. PICK d \in Nat : issued' = issued + d /\ task' = [task EXCEPT ![wdp] = [req |-> "IO", op |-> nextOp, size |-> d]]
    BY <1>0, <1>3 DEF TaskSetup, TypeOK
  <2>2. /\ tpc = "setup" /\ tpc' = "release" /\ UNCHANGED <<wdp, wpc, completed, errors, flags>>
        /\ wdp \in Workers /\ ~Working(wdp)
    BY <1>0, <1>3 DEF TaskSetup, WalkRange, Choosing
  <2>3. Due(wdp) = 0 BY <2>2 DEF Due, AtIo, Working
  <2>4. Due(wdp)' = d BY <1>0, <2>1, <2>2 DEF Due, AtIo, TypeOK
  <2>5. \A v \in Workers : v # wdp => Due(v)' = Due(v)
    BY <1>0, <2>1, <2>2 DEF Due, AtIo, TypeOK
  <2> SUFFICES ASSUME Exact' PROVE \E s : Sums(s)' /\ issued' = completed' + s[QueueDepth]
    BY DEF Tallied
  <2>6. Exact BY <2>2 DEF Exact, Stopped
  <2>7. PICK sum : Sums(sum) /\ issued = completed + sum[QueueDepth] BY <2>6 DEF Tallied
  <2>8. PICK s : Sums(s)' /\ s[QueueDepth] = sum[QueueDepth] + d
    BY <1>0, <2>2, <2>3, <2>4, <2>5, <2>7, SumsMove
  <2>9. sum[QueueDepth] \in Int /\ completed \in Int BY <1>0, <2>7 DEF Sums, TypeOK
  <2> QED BY <2>1, <2>2, <2>7, <2>8, <2>9
<1>4. CASE ReleaseWorker
  <2>1. /\ tpc = "release" /\ tpc' = "loop" /\ wdp \in Workers /\ wpc[wdp] = "wait_task"
        /\ wpc' = [wpc EXCEPT ![wdp] = "read"] /\ task[wdp].req = "IO"
        /\ UNCHANGED <<wdp, issued, completed, errors, flags, task>>
    BY <1>0, <1>4 DEF ReleaseWorker, WalkRange, Choosing, RequestMeaning
  <2>2. \A w \in Workers : Due(w)' = Due(w) BY <1>0, <2>1 DEF Due, AtIo, TypeOK
  <2> QED BY <2>1, <2>2, TallyFrame DEF Exact, Stopped
<1>5. CASE StopRequest
  <2>1. /\ tpc = "cleanup" /\ tpc' = "stop" /\ walk \in Workers
        /\ UNCHANGED <<issued, completed, errors, flags, wpc>>
        /\ \A w \in Workers : /\ task'[w].size = task[w].size
                              /\ w # walk => task'[w] = task[w]
    BY <1>0, <1>5 DEF StopRequest, WalkRange, TypeOK
  <2>2. ~canceled => wpc[walk] = "wait_task" \/ Returning(walk)
    BY <1>0, <2>1 DEF RequestMeaning
  <2>3. ~canceled => \A w \in Workers : Due(w)' = Due(w)
    BY <2>1, <2>2 DEF Due, AtIo, Returning
  <2> QED BY <2>1, <2>3, TallyFrame DEF Exact, Stopped
<1>5a. CASE StopWorker
  <2>1. /\ tpc = "stop" /\ tpc' # "release" /\ walk \in Workers /\ wpc[walk] = "wait_task"
        /\ wpc' = [wpc EXCEPT ![walk] = "read"] /\ task[walk].req = "STOP"
        /\ UNCHANGED <<issued, completed, errors, flags, task>>
    BY <1>0, <1>5a DEF StopWorker, WalkRange, RequestMeaning
  <2>2. \A w \in Workers : Due(w)' = Due(w) BY <1>0, <2>1 DEF Due, AtIo, TypeOK
  <2> QED BY <2>1, <2>2, TallyFrame DEF Exact, Stopped
<1>5b. ASSUME NEW w \in Workers, WorkerRead(w)
       PROVE  Tallied'
  <2>1. /\ wpc[w] = "read" /\ task[w].req \in Requests
        /\ wpc' = [wpc EXCEPT ![w] = IF task[w].req = "STOP" THEN "stopped" ELSE "before_io"]
        /\ UNCHANGED <<tpc, wdp, issued, completed, errors, flags, task>>
    BY <1>0, <1>5b DEF WorkerRead, TypeOK
  <2>2. task[w].req = "IO" \/ task[w].req = "STOP"
    BY <1>0, <2>1 DEF RequestMeaning, Requests
  <2>3. \A v \in Workers : v # w => Due(v)' = Due(v) BY <1>0, <2>1 DEF Due, AtIo, TypeOK
  <2>4. Due(w)' = Due(w) BY <1>0, <2>1, <2>2 DEF Due, AtIo, TypeOK
  <2> QED BY <2>1, <2>3, <2>4, TallyFrame DEF Exact, Stopped
<1>6. ASSUME NEW w \in Workers, WorkerBeforeIo(w) \/ WorkerCheck(w) \/ WorkerIo(w) \/ WorkerAfterIo(w)
      PROVE  Tallied'
  <2>1. UNCHANGED <<tpc, wdp, issued, completed, errors, task>> /\ (Stopped => Stopped')
    <3>1. CASE WorkerBeforeIo(w) BY <1>0, <3>1 DEF WorkerBeforeIo, TypeOK, Stopped
    <3>2. CASE WorkerCheck(w) BY <3>2 DEF WorkerCheck, Stopped
    <3>3. CASE WorkerIo(w) BY <1>0, <3>3 DEF WorkerIo, TypeOK, Stopped
    <3>4. CASE WorkerAfterIo(w) BY <1>0, <3>4 DEF WorkerAfterIo, TypeOK, Stopped
    <3> QED BY <1>6, <3>1, <3>2, <3>3, <3>4
  <2>2. ASSUME Exact' PROVE \A v \in Workers : Due(v)' = Due(v)
    <3>1. \A v \in Workers : v # w => wpc'[v] = wpc[v]
      BY <1>0, <1>6 DEF WorkerBeforeIo, WorkerCheck, WorkerIo, WorkerAfterIo, TypeOK
    <3>2. \/ wpc[w] \in {"before_io", "check", "io"} /\ wpc'[w] \in {"check", "io", "count"}
          \/ wpc[w] = "after_io" /\ wpc'[w] = "clear"
      BY <1>0, <1>6, <2>2 DEF WorkerBeforeIo, WorkerCheck, WorkerIo, WorkerAfterIo, TypeOK,
                              Exact, Stopped
    <3> QED BY <2>1, <3>1, <3>2 DEF Due, AtIo
  <2> QED BY <2>1, <2>2, TallyFrame DEF Exact
<1>7. ASSUME NEW w \in Workers, WorkerClear(w) \/ WorkerPostLoad(w) \/ WorkerPostStore(w)
      PROVE  Tallied'
  <2>1. /\ UNCHANGED <<wdp, issued, completed, errors, task, flags>>
        /\ tpc' = "release" <=> tpc = "release"
        /\ tpc = "before_pass" => tpc' = "before_pass"
    BY <1>7 DEF WorkerClear, WorkerPostLoad, WorkerPostStore, WakesTarget, WakesLocator
  <2>2. \A v \in Workers : wpc'[v] \in {"before_io", "check", "io", "count"}
                             <=> wpc[v] \in {"before_io", "check", "io", "count"}
    BY <1>0, <1>7 DEF WorkerClear, WorkerPostLoad, WorkerPostStore, TypeOK
  <2>2a. \A v \in Workers : wpc'[v] = "read" <=> wpc[v] = "read"
    BY <1>0, <1>7 DEF WorkerClear, WorkerPostLoad, WorkerPostStore, TypeOK
  <2>3. \A v \in Workers : Due(v)' = Due(v) BY <2>1, <2>2, <2>2a DEF Due, AtIo
  <2> QED BY <2>1, <2>3, TallyFrame DEF Exact, Stopped
<1>8. ASSUME NEW w \in Workers, WorkerCount(w)
      PROVE  Tallied'
  <2> SUFFICES ASSUME Exact' PROVE \E s : Sums(s)' /\ issued' = completed' + s[QueueDepth]
    BY DEF Tallied
  <2>1. /\ wpc[w] = "count" /\ wpc' = [wpc EXCEPT ![w] = "after_io"]
        /\ UNCHANGED <<tpc, wdp, issued, task, flags>>
        /\ errors' = errors /\ completed' = completed + task[w].size
    BY <1>0, <1>8 DEF WorkerCount, Exact, TypeOK
  <2>2. ~(tpc = "release" /\ wdp = w) BY <1>0, <2>1 DEF WalkRange, Choosing, Working
  <2>3. Due(w) = task[w].size /\ Due(w)' = 0 /\ task[w].size \in Nat
    BY <1>0, <2>1, <2>2 DEF Due, AtIo, TypeOK
  <2>4. \A v \in Workers : v # w => Due(v)' = Due(v) BY <1>0, <2>1 DEF Due, AtIo, TypeOK
  <2>5. Exact BY <2>1 DEF Exact, Stopped
  <2>6. PICK sum : Sums(sum) /\ issued = completed + sum[QueueDepth] BY <2>5 DEF Tallied
  <2>7. PICK d \in Int : d = 0 - task[w].size BY <2>3
  <2>8. Due(w)' = Due(w) + d BY <2>3, <2>7
  <2>9. PICK s : Sums(s)' /\ s[QueueDepth] = sum[QueueDepth] + d
    BY <1>0, <2>4, <2>6, <2>8, SumsMove
  <2>10. sum[QueueDepth] \in Int /\ completed \in Int BY <1>0, <2>6 DEF Sums, TypeOK
  <2> QED BY <2>1, <2>3, <2>6, <2>7, <2>9, <2>10
<1>9. CASE UNCHANGED vars
  BY <1>9, TallyFrame DEF Exact, Stopped, Due, AtIo
<1> QED
  BY <1>1, <1>2, <1>3, <1>4, <1>5, <1>5a, <1>5b, <1>6, <1>7, <1>8, <1>9
  DEF Next, TargetStep, WorkerStep, Finished

\* No operation is performed twice in a pass; a pass that nothing stopped has
\* performed all of them, and if none failed, the bytes the workers counted one by one
\* are those of the pass (worker_thread_update_target_counters against target_pass.c).
THEOREM PassIsComplete == Spec => []PassComplete
<1>1. Init => Tallied BY DEF Init, Tallied, Exact
<1>2. ASSUME IInv, Tallied, EveryOperationOnce PROVE PassComplete
  <2> SUFFICES ASSUME tpc = "after_pass", ~Stopped, errors = 0 PROVE completed = BytesPerPass
    BY <1>2 DEF PassComplete, EveryOperationOnce
  <2>1. issued = BytesPerPass BY <1>2 DEF EveryOperationOnce
  <2>2. \A w \in Workers : Due(w) = 0
    BY <1>2 DEF IInv, PoolInv, PassDrained, Stopped, Working, Due, AtIo
  <2>3. PICK sum : Sums(sum) /\ issued = completed + sum[QueueDepth]
    BY <1>2 DEF Tallied, Exact
  <2>4. sum[QueueDepth] = 0 BY <2>2, <2>3, SumOfNone
  <2>5. completed \in Nat BY <1>2 DEF IInv, PoolInv, TypeOK
  <2> QED BY <2>1, <2>3, <2>4, <2>5
<1>3. IInv => TypeOK BY DEF IInv, PoolInv
<1>4. IInv /\ TypeOK' /\ Tallied /\ [Next]_vars => Tallied' BY TallyStep
<1>5. Spec => [](IInv /\ Tallied)
  BY Inductive, <1>1, <1>3, <1>4, PTL DEF Spec
<1> QED BY <1>2, <1>5, PerformedOnce, PTL

-----------------------------------------------------------------------------
(* The pool implements TaskDispatch.                                        *)

\* The operations handed out in this pass, and whether it is under way, as
\* TaskDispatch sees them.
HandedOut == IF tpc = "before_pass" THEN 0 ELSE nextOp
UnderWay == tpc \notin {"after_pass", "cleanup", "stop", "done"}
\* The worker has an operation, as TaskDispatch sees it.
Has(w) == Working(w) \/ (tpc = "release" /\ wdp = w)

\* Who has what depends only on who has something and on the tasks.
LEMMA SameHolding ==
  ASSUME \A w \in Workers : Has(w)' <=> Has(w),
         \A w \in Workers : Has(w) => task'[w].op = task[w].op
  PROVE  Holding' = Holding
BY DEF Holding, Has

\* The pool begins where TaskDispatch begins.
LEMMA InitRefines == Init => Dispatch!Init
<1> SUFFICES ASSUME Init PROVE Dispatch!Init
  OBVIOUS
<1>1. /\ tpc = "before_pass" /\ pass = 1 /\ canceled = FALSE
      /\ \A w \in Workers : wpc[w] = "wait_task"
  BY DEF Init
<1>2. Holding = [w \in Workers |-> -1]
  BY <1>1 DEF Holding, Working
<1>3. QED
  BY <1>1, <1>2 DEF Dispatch!Init, Dispatch!Idle

\* The steps of the locator, of the final wait and of the workers that
\* TaskDispatch does not see.
LEMMA Invisible ==
  ASSUME TypeOK, WalkRange, RequestMeaning,
         \/ BeforePass \/ LoopTest \/ Locate \/ SpuriousWakeup \/ ScanBusy \/ ScanTake
         \/ ScanNone \/ BeforeIoOp \/ ReleaseWorker \/ GetSpecific \/ MarkLoad \/ StopWorker
         \/ \E w \in Workers : \/ WorkerRead(w) \/ WorkerCheck(w) \/ WorkerIo(w)
                               \/ WorkerCount(w) \/ WorkerPostLoad(w) \/ WorkerPostStore(w)
         \/ UNCHANGED vars
  PROVE  UNCHANGED <<HandedOut, Holding, pass, UnderWay, canceled>>
<1> USE DEF TypeOK, WalkRange, Choosing, Working, Has, HandedOut, UnderWay,
            vars, tvars, counters, flags, sync, wvars
<1>1. CASE BeforePass
  BY <1>1, SameHolding, SMTT(20) DEF BeforePass
<1>2. CASE LoopTest
  BY <1>2, SameHolding, SMTT(20) DEF LoopTest
<1>3. CASE Locate
  BY <1>3, SameHolding, SMTT(20) DEF Locate
<1>4. CASE SpuriousWakeup
  BY <1>4, SameHolding, SMTT(20) DEF SpuriousWakeup
<1>5. CASE ScanBusy
  BY <1>5, SameHolding, SMTT(20) DEF ScanBusy
<1>6. CASE ScanTake
  BY <1>6, SameHolding, SMTT(20) DEF ScanTake
<1>7. CASE ScanNone
  BY <1>7, SameHolding, SMTT(20) DEF ScanNone
<1>8. CASE BeforeIoOp
  BY <1>8, SameHolding, SMTT(20) DEF BeforeIoOp
<1>9. CASE ReleaseWorker
  BY <1>9, SameHolding, SMTT(20) DEF ReleaseWorker, RequestMeaning
<1>10. CASE GetSpecific
  BY <1>10, SameHolding, SMTT(20) DEF GetSpecific
<1>11. CASE MarkLoad
  BY <1>11, SameHolding, SMTT(20) DEF MarkLoad
<1>12. CASE StopWorker
  <2>1. /\ tpc = "stop" /\ tpc' \in {"done", "cleanup"} /\ walk \in Workers
        /\ wpc[walk] = "wait_task" /\ wpc' = [wpc EXCEPT ![walk] = "read"]
        /\ task[walk].req = "STOP" /\ UNCHANGED <<task, nextOp, pass, canceled>>
    BY <1>12 DEF StopWorker, RequestMeaning, Waiting
  <2>2. Holding' = Holding
    BY <2>1, SameHolding
  <2>3. QED
    BY <2>1, <2>2
<1>12a. ASSUME NEW w \in Workers, WorkerRead(w)
       PROVE  UNCHANGED <<HandedOut, Holding, pass, UnderWay, canceled>>
  <2>1. /\ wpc[w] = "read" /\ task[w].req \in Requests
        /\ wpc' = [wpc EXCEPT ![w] = IF task[w].req = "STOP" THEN "stopped" ELSE "before_io"]
        /\ UNCHANGED <<tpc, wdp, nextOp, pass, canceled, task>>
    BY <1>12a DEF WorkerRead
  <2>2. task[w].req = "IO" \/ task[w].req = "STOP"
    BY <2>1 DEF RequestMeaning, Requests
  <2>3. Holding' = Holding
    BY <2>1, <2>2, SameHolding
  <2>4. QED
    BY <2>1, <2>3
<1>13. ASSUME NEW w \in Workers, WorkerCheck(w)
       PROVE  UNCHANGED <<HandedOut, Holding, pass, UnderWay, canceled>>
  BY <1>13, SameHolding, SMTT(20) DEF WorkerCheck
<1>14. ASSUME NEW w \in Workers, WorkerIo(w)
       PROVE  UNCHANGED <<HandedOut, Holding, pass, UnderWay, canceled>>
  BY <1>14, SameHolding, SMTT(20) DEF WorkerIo
<1>15. ASSUME NEW w \in Workers, WorkerCount(w)
       PROVE  UNCHANGED <<HandedOut, Holding, pass, UnderWay, canceled>>
  BY <1>15, SameHolding, SMTT(20) DEF WorkerCount
<1>16. ASSUME NEW w \in Workers, WorkerPostLoad(w)
       PROVE  UNCHANGED <<HandedOut, Holding, pass, UnderWay, canceled>>
  BY <1>16, SameHolding, SMTT(20) DEF WorkerPostLoad
<1>17. ASSUME NEW w \in Workers, WorkerPostStore(w)
       PROVE  UNCHANGED <<HandedOut, Holding, pass, UnderWay, canceled>>
  BY <1>17, SameHolding, SMTT(20) DEF WorkerPostStore, WakesLocator
<1>18. CASE UNCHANGED vars
  BY <1>18, SameHolding, SMTT(20)
<1>19. QED
  BY <1>1, <1>2, <1>3, <1>4, <1>5, <1>6, <1>7, <1>8, <1>9, <1>10, <1>11, <1>12, <1>12a, <1>13,
     <1>14, <1>15, <1>16, <1>17, <1>18

\* Setting up a task hands the next operation to a worker that has none.
LEMMA SetupIssues ==
  ASSUME TypeOK, WalkRange, RequestMeaning, Accounted, TaskSetup
  PROVE  Dispatch!Issue(wdp) /\ wdp \in Workers
<1>1. /\ tpc = "setup" /\ tpc' = "release" /\ nextOp' = nextOp + 1
      /\ wpc' = wpc /\ wdp' = wdp /\ pass' = pass /\ canceled' = canceled
      /\ wdp \in Workers /\ ~Working(wdp)
  BY DEF TaskSetup, wvars, flags, WalkRange, Choosing
<1>2. /\ task'[wdp].op = nextOp
      /\ \A v \in Workers : v # wdp => task'[v] = task[v]
  BY <1>1 DEF TaskSetup, TypeOK
<1>3. nextOp < NumOps
  <2>1. remaining # 0 /\ remaining + nextOp * XferSize = BytesPerPass
    BY <1>1 DEF Accounted, Issuing
  <2>2. nextOp * XferSize \in Nat /\ nextOp \in Nat /\ remaining \in Nat
    BY SMTT(20) DEF TypeOK
  <2>3. QED
    BY <2>1, <2>2, OperationsCover
<1>4. \A v \in Workers : Working(v)' <=> Working(v)
  <2>1. wpc[wdp] # "read"
    BY <1>1, NoneStopped DEF Cleaning, Working
  <2>2. QED
    BY <1>1, <1>2, <2>1 DEF Working
<1>5. Holding[wdp] = -1 /\ Holding' = [Holding EXCEPT ![wdp] = nextOp]
  BY <1>1, <1>2, <1>4 DEF Holding
<1>6. QED
  BY <1>1, <1>3, <1>5 DEF Dispatch!Issue, Dispatch!Idle

\* A worker that marks itself not busy gives its operation back.
LEMMA ClearFinishes ==
  ASSUME TypeOK, WalkRange, NEW w \in Workers, WorkerClear(w)
  PROVE  Dispatch!Finish(w)
<1>1. /\ wpc[w] = "clear" /\ wpc' = [wpc EXCEPT ![w] = "post"]
      /\ task' = task /\ wdp' = wdp /\ nextOp' = nextOp /\ pass' = pass /\ canceled' = canceled
      /\ tpc' = tpc \/ (tpc = "spec_wait" /\ tpc' = "spec_test")
  BY DEF WorkerClear, WakesTarget, counters, flags
<1>2. wpc'[w] = "post" /\ \A v \in Workers : v # w => wpc'[v] = wpc[v]
  BY <1>1 DEF TypeOK
<1>3. ~(tpc = "release" /\ wdp = w)
  BY <1>1 DEF WalkRange, Choosing, Working
<1>4. \A v \in Workers : v # w => (Has(v)' <=> Has(v))
  BY <1>1, <1>2 DEF Has, Working
<1>5. Has(w) /\ ~Has(w)' /\ task[w].op \in Nat
  BY <1>1, <1>2, <1>3 DEF Has, Working, TypeOK
<1>6. Holding[w] # -1 /\ Holding' = [Holding EXCEPT ![w] = -1]
  <2>1. \A v \in Workers : Holding[v] = IF Has(v) THEN task[v].op ELSE -1
    BY DEF Holding, Has
  <2>2. \A v \in Workers : Holding'[v] = IF Has(v)' THEN task'[v].op ELSE -1
    BY DEF Holding, Has
  <2>3. \A v \in Workers : Holding'[v] = [Holding EXCEPT ![w] = -1][v]
    BY <1>1, <1>4, <1>5, <2>1, <2>2 DEF Holding
  <2>4. /\ Holding = [v \in Workers |-> Holding[v]]
        /\ Holding' = [v \in Workers |-> Holding'[v]]
    BY DEF Holding
  <2>5. Holding' = [Holding EXCEPT ![w] = -1]
    BY <2>3, <2>4
  <2>6. QED
    BY <1>5, <2>1, <2>5
<1>7. QED
  BY <1>1, <1>6 DEF Dispatch!Finish, Dispatch!Idle

\* A STOP request takes an operation away from nobody, or the run was canceled and it
\* takes it from the one worker that has not read its I/O request yet.
LEMMA StopDrops ==
  ASSUME TypeOK, WalkRange, RequestMeaning, StopRequest
  PROVE  \/ Dispatch!Drop(walk) /\ walk \in Workers
         \/ UNCHANGED <<HandedOut, Holding, pass, UnderWay, canceled>>
<1>1. /\ tpc = "cleanup" /\ tpc' = "stop" /\ walk \in Workers
      /\ UNCHANGED <<wdp, walk, nextOp, pass, canceled, wpc>>
      /\ \A v \in Workers : task'[v].op = task[v].op
      /\ \A v \in Workers : v # walk => task'[v] = task[v]
      /\ task'[walk].req = "STOP"
  BY DEF StopRequest, WalkRange, TypeOK, counters, flags
<1>2. HandedOut' = HandedOut /\ UnderWay' = UnderWay /\ ~UnderWay
  BY <1>1 DEF HandedOut, UnderWay
<1>3. \A v \in Workers : v # walk => (Has(v)' <=> Has(v))
  BY <1>1 DEF Has, Working
<1>4. CASE wpc[walk] = "read" /\ task[walk].req = "IO"
  <2>1. canceled
    BY <1>1, <1>4 DEF RequestMeaning, Returning
  <2>2. Has(walk) /\ ~Has(walk)' /\ task[walk].op \in Nat
    BY <1>1, <1>4 DEF Has, Working, TypeOK
  <2>3. \A v \in Workers : Holding[v] = IF Has(v) THEN task[v].op ELSE -1
    BY DEF Holding, Has
  <2>4. \A v \in Workers : Holding'[v] = IF Has(v)' THEN task'[v].op ELSE -1
    BY DEF Holding, Has
  <2>5. \A v \in Workers : Holding'[v] = [Holding EXCEPT ![walk] = -1][v]
    BY <1>1, <1>3, <2>2, <2>3, <2>4 DEF Holding
  <2>6. /\ Holding = [v \in Workers |-> Holding[v]]
        /\ Holding' = [v \in Workers |-> Holding'[v]]
    BY DEF Holding
  <2>7. Holding[walk] # -1 /\ Holding' = [Holding EXCEPT ![walk] = -1]
    BY <1>1, <2>2, <2>3, <2>5, <2>6
  <2>8. Dispatch!Drop(walk)
    BY <1>1, <1>2, <2>1, <2>7 DEF Dispatch!Drop, Dispatch!Idle, HandedOut, UnderWay
  <2>9. QED
    BY <1>1, <2>8
<1>5. CASE ~(wpc[walk] = "read" /\ task[walk].req = "IO")
  <2>1. Has(walk)' <=> Has(walk)
    BY <1>1, <1>5 DEF Has, Working
  <2>2. Holding' = Holding
    BY <1>1, <1>3, <2>1, SameHolding
  <2>3. QED
    BY <1>1, <1>2, <2>2
<1>6. QED
  BY <1>4, <1>5

\* A failed reopen cancels the run, and one that succeeds is not seen.
LEMMA ReopenCancels ==
  ASSUME TypeOK, NEW w \in Workers, WorkerBeforeIo(w) \/ WorkerAfterIo(w)
  PROVE  Dispatch!Cancel \/ UNCHANGED <<HandedOut, Holding, pass, UnderWay, canceled>>
<1>1. /\ UNCHANGED <<tpc, wdp, nextOp, pass, task>>
      /\ canceled' \in {canceled, TRUE}
  BY DEF WorkerBeforeIo, WorkerAfterIo, tvars, counters, TypeOK
<1>2. \A v \in Workers : Working(v)' <=> Working(v)
  BY DEF WorkerBeforeIo, WorkerAfterIo, Working, TypeOK
<1>3. Holding' = Holding
  BY <1>1, <1>2, SameHolding DEF Has
<1>4. QED
  BY <1>1, <1>3 DEF Dispatch!Cancel, HandedOut, UnderWay

\* The target goes on to the end of the pass when nobody holds an operation,
\* or when the run was canceled.
LEMMA LeavingCloses ==
  ASSUME TypeOK, DrainedSoFar, LoopDone \/ MarkStore
  PROVE  Dispatch!Close \/ UNCHANGED <<HandedOut, Holding, pass, UnderWay, canceled>>
<1>1. /\ tpc \in {"loop_done", "mark_store"}
      /\ tpc' \in {"after_pass", "spec_test"}
      /\ UNCHANGED <<wdp, nextOp, pass, canceled, task, wpc>>
  BY DEF LoopDone, MarkStore, counters, flags, wvars
<1>2. Holding' = Holding /\ HandedOut' = HandedOut
  BY <1>1, SameHolding DEF Has, Working, HandedOut
<1>3. CASE tpc' = "spec_test"
  BY <1>1, <1>2, <1>3 DEF UnderWay
<1>4. CASE tpc' = "after_pass"
  <2>1. canceled \/ \A w \in Workers : ~Working(w)
    <3>1. CASE LoopDone
      BY <1>4, <3>1 DEF LoopDone, LeavesAtOnce
    <3>2. CASE MarkStore
      <4>1. tpc = "mark_store" /\ walk = QueueDepth
        BY <1>4, <3>2 DEF MarkStore, AllWaitedFor
      <4>2. QED
        BY <4>1 DEF DrainedSoFar, Waiting
    <3>3. QED
      BY <3>1, <3>2
  <2>2. canceled \/ \A w \in Workers : Holding[w] = -1
    BY <1>1, <2>1 DEF Holding
  <2>3. QED
    BY <1>1, <1>2, <1>4, <2>2
       DEF Dispatch!Close, Dispatch!Quiescent, Dispatch!Idle, HandedOut
<1>5. QED
  BY <1>1, <1>3, <1>4

\* Another pass begins with every worker idle and the operations from the first.
LEMMA AnotherPassReopens ==
  ASSUME TypeOK, PassDrained, AfterPass
  PROVE  Dispatch!Reopen \/ UNCHANGED <<HandedOut, Holding, pass, UnderWay, canceled>>
<1>1. /\ tpc = "after_pass" /\ tpc' \in {"cleanup", "before_pass"}
      /\ UNCHANGED <<wdp, nextOp, canceled, task, wpc>>
  BY DEF AfterPass, counters, flags, wvars
<1>2. Holding' = Holding
  BY <1>1, SameHolding DEF Has, Working
<1>3. CASE tpc' = "cleanup"
  BY <1>1, <1>2, <1>3 DEF AfterPass, HandedOut, UnderWay
<1>4. CASE tpc' = "before_pass"
  <2>1. ~canceled /\ pass < Passes /\ pass' = pass + 1
    BY <1>4 DEF AfterPass, TypeOK
  <2>2. \A w \in Workers : Holding[w] = -1
    BY <1>1, <2>1 DEF PassDrained, Holding
  <2>3. QED
    BY <1>1, <1>2, <1>4, <2>1, <2>2
       DEF Dispatch!Reopen, Dispatch!Quiescent, Dispatch!Idle
<1>5. QED
  BY <1>1, <1>3, <1>4

\* Every step of the pool is a step of TaskDispatch or is not seen by it.
LEMMA StepRefines ==
  IInv /\ [Next]_vars => [Dispatch!Next]_<<HandedOut, Holding, pass, UnderWay, canceled>>
<1> SUFFICES ASSUME IInv, [Next]_vars
             PROVE  \/ Dispatch!Next
                    \/ UNCHANGED <<HandedOut, Holding, pass, UnderWay, canceled>>
  OBVIOUS
<1>1. TypeOK /\ WalkRange /\ DrainedSoFar /\ PassDrained /\ Accounted /\ RequestMeaning
  BY DEF IInv, PoolInv
<1>2. CASE TaskSetup
  BY <1>1, <1>2, SetupIssues DEF Dispatch!Next
<1>3. CASE LoopDone \/ MarkStore
  BY <1>1, <1>3, LeavingCloses DEF Dispatch!Next
<1>4. CASE AfterPass
  BY <1>1, <1>4, AnotherPassReopens DEF Dispatch!Next
<1>5. ASSUME NEW w \in Workers, WorkerBeforeIo(w) \/ WorkerAfterIo(w)
      PROVE  Dispatch!Next \/ UNCHANGED <<HandedOut, Holding, pass, UnderWay, canceled>>
  BY <1>1, <1>5, ReopenCancels DEF Dispatch!Next
<1>6. ASSUME NEW w \in Workers, WorkerClear(w)
      PROVE  Dispatch!Next
  BY <1>1, <1>6, ClearFinishes DEF Dispatch!Next
<1>6a. CASE StopRequest
  BY <1>1, <1>6a, StopDrops DEF Dispatch!Next
<1>7. CASE \/ BeforePass \/ LoopTest \/ Locate \/ SpuriousWakeup \/ ScanBusy \/ ScanTake
           \/ ScanNone \/ BeforeIoOp \/ ReleaseWorker \/ GetSpecific \/ MarkLoad \/ StopWorker
           \/ \E w \in Workers : \/ WorkerRead(w) \/ WorkerCheck(w) \/ WorkerIo(w)
                                 \/ WorkerCount(w) \/ WorkerPostLoad(w) \/ WorkerPostStore(w)
           \/ UNCHANGED vars
  BY <1>1, <1>7, Invisible
<1>8. QED
  BY <1>2, <1>3, <1>4, <1>5, <1>6, <1>6a, <1>7 DEF Next, TargetStep, WorkerStep, Finished

\* The pool hands out operations as TaskDispatch promises: in ascending order,
\* each to one idle worker, which keeps it until it is through with it, and the
\* pass ends only when nobody has one, unless the run was canceled
\* (target_pass.c:90-177).
THEOREM Refinement == Spec => ImplementsDispatch
<1>1. [](IInv) /\ [][Next]_vars
        => [][Dispatch!Next]_<<HandedOut, Holding, pass, UnderWay, canceled>>
  BY StepRefines, PTL
<1>2. [][Dispatch!Next]_<<HandedOut, Holding, pass, UnderWay, canceled>>
        <=> [][Dispatch!Next]_Dispatch!vars
  BY DEF Dispatch!vars, HandedOut, UnderWay
<1>3. QED
  BY Inductive, InitRefines, <1>1, <1>2, PTL DEF Spec, ImplementsDispatch, Dispatch!Spec
=============================================================================
