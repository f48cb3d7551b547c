----------------------------- MODULE WorkerPool -----------------------------
(***************************************************************************)
(* One xdd target: its Target Thread, which hands I/O tasks to a pool of   *)
(* QueueDepth Worker Threads (xdd_target_pass_loop, the Worker Thread      *)
(* locator, xdd_target_thread), and the Worker Threads themselves          *)
(* (xdd_worker_thread, xdd_worker_thread_io).  They share                  *)
(*   - one BUSY and one TARGET_WAITING flag per worker, under the worker's *)
(*     own mutex, with a condition variable for "this worker is available";*)
(*   - td_any_worker_thread_available, a counter under a mutex of its own, *)
(*     with a condition variable for "any worker is available";            *)
(*   - a two-party barrier per worker, where the worker waits for a task.  *)
(*                                                                         *)
(* Each action is one critical section or one access to unprotected shared *)
(* state.  The model is of a normal target of a single-target plan: not    *)
(* end-to-end, no -lockstep, no triggers, no interactive mode, no ordering *)
(* (TotOrdering) and without the results barriers (PassCoordination).      *)
(***************************************************************************)
EXTENDS Integers, FiniteSets

CONSTANTS QueueDepth,   \* td_queue_depth, the number of Worker Threads
          BytesPerPass, \* td_target_bytes_to_xfer_per_pass
          XferSize,     \* td_xfer_size
          Passes,       \* planp->passes
          StopOnError,  \* -stoponerror (GO_STOP_ON_ERROR)
          IoMayFail,    \* an I/O may return something else than its size
          ReopenMayFail,\* a worker's reopen for direct I/O may fail
          TimeLimited   \* -timelimit was given and may expire at any time

ASSUME PoolAssumption ==
  /\ QueueDepth \in Nat \ {0}
  /\ BytesPerPass \in Nat \ {0}
  /\ XferSize \in Nat \ {0}
  /\ Passes \in Nat \ {0}
  /\ StopOnError \in BOOLEAN /\ IoMayFail \in BOOLEAN
  /\ ReopenMayFail \in BOOLEAN /\ TimeLimited \in BOOLEAN

Workers == 1..QueueDepth        \* in the order of the td_next_wdp list
NumOps  == (BytesPerPass + XferSize - 1) \div XferSize
Requests == {"none", "IO", "STOP"}
Free == 0                       \* nobody holds the mutex, no worker chosen
Target == QueueDepth + 1        \* the Target Thread as a mutex owner

VARIABLES
  tpc,       \* where the Target Thread is
  wdp,       \* the worker the Target Thread has chosen
  walk,      \* the worker a list walk (locator, final wait, cleanup) is at
  tload,     \* what the Target Thread read in its unlocked increment; 0 outside
  pass,      \* tc_pass_number
  nextOp,    \* tc_current_op_number
  remaining, \* td_current_bytes_remaining
  issued,    \* td_current_bytes_issued
  completed, \* td_current_bytes_completed
  errors,    \* tc_current_error_count
  expired,   \* td_time_limit_expired
  tdAbort,   \* td_abort
  canceled,  \* xgp->canceled
  targetErrno, \* planp->target_errno of this target is set
  available, \* td_any_worker_thread_available
  anyMutex,  \* owner of td_any_worker_thread_available_mutex
  busy,      \* WTSYNC_BUSY of each worker
  waiting,   \* WTSYNC_TARGET_WAITING of each worker
  task,      \* wd_task of each worker
  wpc,       \* where each Worker Thread is
  ioGood,    \* task_io_status = task_xfer_size, per worker
  wload,     \* what a worker read in its locked increment; 0 outside
  tries      \* how often each operation of the pass was performed (history)

tvars == <<tpc, wdp, walk, tload, pass, targetErrno>>
counters == <<nextOp, remaining, issued, completed, errors>>
flags == <<expired, tdAbort, canceled>>
sync == <<available, anyMutex, busy, waiting>>
wvars == <<task, wpc, ioGood, wload, tries>>
vars == <<tvars, counters, flags, sync, wvars>>

Init ==
  /\ tpc = "before_pass" /\ wdp = Free /\ walk = 1 /\ tload = 0
  /\ pass = 1
  /\ nextOp = 0 /\ remaining = 0 /\ issued = 0 /\ completed = 0 /\ errors = 0
  /\ expired = FALSE /\ tdAbort = FALSE /\ canceled = FALSE
  /\ targetErrno = FALSE
  /\ available = QueueDepth   \* xdd_worker_thread_init adds one each
  /\ anyMutex = Free
  /\ busy = [w \in Workers |-> FALSE]
  /\ waiting = [w \in Workers |-> FALSE]
  /\ task = [w \in Workers |-> [req |-> "none", op |-> 0, size |-> 0]]
  /\ wpc = [w \in Workers |-> "wait_task"]
  /\ ioGood = [w \in Workers |-> FALSE]
  /\ wload = [w \in Workers |-> 0]
  /\ tries = [n \in 0..NumOps-1 |-> 0]

-----------------------------------------------------------------------------
(* The conditions the threads decide by.  Each is preceded by the forms a   *)
(* plausible slip would give it; the runs show that the properties below    *)
(* reject them.                                                             *)

MoreToIssueFull == remaining >= XferSize     \* slip: a short last transfer
MoreToIssue == remaining # 0

NoneAvailableLate == available < 0           \* slip: off by one
NoneAvailable == available <= 0

LeavesAtOnceOnAbort == canceled \/ tdAbort   \* slip: abort treated as cancel
LeavesAtOnce == canceled

MustWaitForNobody(w) == FALSE                \* slip: BUSY is not looked at
MustWaitFor(w) == busy[w]

WakeupNotRequested(w) == waiting             \* slip: sleeps without asking
WakeupRequested(w) == [waiting EXCEPT ![w] = TRUE]

AllWaitedForButOne == walk >= QueueDepth - 1 \* slip: off by one
AllWaitedFor == walk = QueueDepth

WakesTargetNever(w) == FALSE                 \* slip: the request is dropped
WakesTarget(w) == waiting[w] /\ tpc = "spec_wait" /\ walk = w

WakesLocatorNever == FALSE                   \* slip: no broadcast
WakesLocator == tpc = "any_wait"

-----------------------------------------------------------------------------
(* The Target Thread: one pass. *)

BeforePass ==
  /\ tpc = "before_pass"
  /\ tpc' = "loop"
  /\ nextOp' = 0 /\ issued' = 0 /\ completed' = 0 /\ errors' = 0
  /\ remaining' = BytesPerPass
  /\ expired' = FALSE /\ tdAbort' = FALSE
  /\ tries' = [n \in 0..NumOps-1 |-> 0]
  /\ UNCHANGED <<wdp, walk, tload, pass, targetErrno, canceled, sync,
                 task, wpc, ioGood, wload>>

LoopTest ==
  /\ tpc = "loop"
  /\ tpc' = IF MoreToIssue THEN "locate" ELSE "loop_done"
  /\ UNCHANGED <<wdp, walk, tload, pass, targetErrno, counters, flags, sync, wvars>>

\* xdd_get_any_available_worker_thread: wait until the counter is positive,
\* take one, and walk the list with the counter's mutex held.
Locate ==
  /\ tpc = "locate"
  /\ anyMutex = Free
  /\ IF NoneAvailable
       THEN /\ tpc' = "any_wait"
            /\ UNCHANGED <<walk, available, anyMutex>>
       ELSE /\ tpc' = "scan"
            /\ walk' = 1
            /\ available' = available - 1
            /\ anyMutex' = Target
  /\ UNCHANGED <<wdp, tload, pass, targetErrno, counters, flags, busy, waiting, wvars>>

\* A condition wait may return without a signal.
SpuriousWakeup ==
  /\ tpc \in {"any_wait", "spec_wait"}
  /\ tpc' = IF tpc = "any_wait" THEN "locate" ELSE "spec_test"
  /\ UNCHANGED <<wdp, walk, tload, pass, targetErrno, counters, flags, sync, wvars>>

ScanBusy ==
  /\ tpc = "scan" /\ walk <= QueueDepth
  /\ busy[walk]
  /\ walk' = walk + 1
  /\ UNCHANGED <<tpc, wdp, tload, pass, targetErrno, counters, flags, sync, wvars>>

ScanTake ==
  /\ tpc = "scan" /\ walk <= QueueDepth
  /\ ~busy[walk]
  /\ busy' = [busy EXCEPT ![walk] = TRUE]
  /\ wdp' = walk
  /\ anyMutex' = Free
  /\ tpc' = "before_io"
  /\ UNCHANGED <<walk, tload, pass, targetErrno, counters, flags, available, waiting, wvars>>

\* Nobody was idle after all: the count taken is spent, and the locator
\* starts again.
ScanNone ==
  /\ tpc = "scan" /\ walk > QueueDepth
  /\ anyMutex' = Free
  /\ tpc' = "locate"
  /\ UNCHANGED <<wdp, walk, tload, pass, targetErrno, counters, flags,
                 available, busy, waiting, wvars>>

\* xdd_target_ttd_before_io_op: time limit, cancel and abort.  On a bad
\* status the chosen worker's BUSY flag is cleared and the loop is left.
BeforeIoOp ==
  /\ tpc = "before_io"
  /\ \E late \in BOOLEAN :
       /\ late => TimeLimited
       /\ expired' = (expired \/ late)
       /\ IF expired' \/ canceled \/ tdAbort
            THEN /\ busy' = [busy EXCEPT ![wdp] = FALSE]
                 /\ tpc' = "loop_done"
            ELSE /\ tpc' = "setup"
                 /\ UNCHANGED busy
  /\ UNCHANGED <<wdp, walk, tload, pass, targetErrno, counters, tdAbort, canceled,
                 available, anyMutex, waiting, wvars>>

\* xdd_target_pass_task_setup
TaskSetup ==
  /\ tpc = "setup"
  /\ LET size == IF remaining < XferSize THEN remaining ELSE XferSize
     IN /\ task' = [task EXCEPT ![wdp] = [req |-> "IO", op |-> nextOp, size |-> size]]
        /\ issued' = issued + size
        /\ remaining' = remaining - size
  /\ nextOp' = nextOp + 1
  /\ tpc' = "release"
  /\ UNCHANGED <<wdp, walk, tload, pass, targetErrno, completed, errors, flags, sync,
                 wpc, ioGood, wload, tries>>

\* Both parties are at wd_thread_targetpass_wait_for_task_barrier; the worker
\* reads its request when it has left it.
ReleaseWorker ==
  /\ tpc = "release"
  /\ wpc[wdp] = "wait_task"
  /\ wpc' = [wpc EXCEPT ![wdp] = "read"]
  /\ tpc' = "loop"
  /\ UNCHANGED <<wdp, walk, tload, pass, targetErrno, counters, flags, sync,
                 task, ioGood, wload, tries>>

\* After the loop: nobody is waited for when the run was canceled.
LoopDone ==
  /\ tpc = "loop_done"
  /\ tpc' = IF LeavesAtOnce THEN "after_pass" ELSE "spec_test"
  /\ walk' = 1
  /\ UNCHANGED <<wdp, tload, pass, targetErrno, counters, flags, sync, wvars>>

\* xdd_get_specific_worker_thread(walk): take the worker, or ask it for a
\* wake-up and sleep.
GetSpecific ==
  /\ tpc = "spec_test"
  /\ IF MustWaitFor(walk)
       THEN /\ waiting' = WakeupRequested(walk)
            /\ tpc' = "spec_wait"
            /\ UNCHANGED busy
       ELSE /\ busy' = [busy EXCEPT ![walk] = TRUE]
            /\ tpc' = "mark"
            /\ UNCHANGED waiting
  /\ UNCHANGED <<wdp, walk, tload, pass, targetErrno, counters, flags,
                 available, anyMutex, wvars>>

\* The worker is marked not busy under its own mutex, and the counter is
\* incremented there, without the counter's mutex: a load and a store.
MarkLoad ==
  /\ tpc = "mark"
  /\ busy' = [busy EXCEPT ![walk] = FALSE]
  /\ tload' = available
  /\ tpc' = "mark_store"
  /\ UNCHANGED <<wdp, walk, pass, targetErrno, counters, flags, available, anyMutex,
                 waiting, wvars>>

\* The target's own tc_current_io_status: cleared before each pass and set
\* to something else only by a worker's EOF task, which this target has none.
TargetIoStatus == 0

MarkStore ==
  /\ tpc = "mark_store"
  /\ available' = tload + 1
  /\ tload' = 0
  /\ walk' = walk + 1
  /\ IF AllWaitedFor
       THEN /\ tpc' = "after_pass"
            /\ targetErrno' = (targetErrno \/ TargetIoStatus # 0)
       ELSE /\ tpc' = "spec_test"
            /\ UNCHANGED targetErrno
  /\ UNCHANGED <<wdp, pass, counters, flags, anyMutex, busy, waiting, wvars>>

\* xdd_target_thread: another pass, or the end of the run.
AfterPass ==
  /\ tpc = "after_pass"
  /\ IF canceled \/ tdAbort \/ pass >= Passes
       THEN /\ tpc' = "cleanup"
            /\ UNCHANGED pass
       ELSE /\ tpc' = "before_pass"
            /\ pass' = pass + 1
  /\ walk' = 1
  /\ UNCHANGED <<wdp, tload, targetErrno, counters, flags, sync, wvars>>

\* xdd_target_thread_cleanup: a STOP request for every worker in turn, written
\* whatever the worker is doing; then the target waits for it in the barrier.
StopRequest ==
  /\ tpc = "cleanup"
  /\ task' = [task EXCEPT ![walk].req = "STOP"]
  /\ tpc' = "stop"
  /\ UNCHANGED <<wdp, walk, tload, pass, targetErrno, counters, flags, sync,
                 wpc, ioGood, wload, tries>>

StopWorker ==
  /\ tpc = "stop"
  /\ wpc[walk] = "wait_task"
  /\ wpc' = [wpc EXCEPT ![walk] = "read"]
  /\ walk' = walk + 1
  /\ tpc' = IF walk = QueueDepth THEN "done" ELSE "cleanup"
  /\ UNCHANGED <<wdp, tload, pass, targetErrno, counters, flags, sync,
                 task, ioGood, wload, tries>>

-----------------------------------------------------------------------------
(* A Worker Thread: one task. *)

\* The request is read without a lock after the barrier was left.
WorkerRead(w) ==
  /\ wpc[w] = "read"
  /\ wpc' = [wpc EXCEPT ![w] = IF task[w].req = "STOP" THEN "stopped" ELSE "before_io"]
  /\ UNCHANGED <<tvars, counters, flags, sync, task, ioGood, wload, tries>>

\* xdd_worker_thread_ttd_before_io_op: a failed reopen cancels the run.
WorkerBeforeIo(w) ==
  /\ wpc[w] = "before_io"
  /\ \E fails \in BOOLEAN : /\ fails => ReopenMayFail
                           /\ canceled' = (canceled \/ fails)
  /\ wpc' = [wpc EXCEPT ![w] = "check"]
  /\ UNCHANGED <<tvars, counters, expired, tdAbort, sync, task, ioGood, wload, tries>>

WorkerCheck(w) ==
  /\ wpc[w] = "check"
  /\ wpc' = [wpc EXCEPT ![w] = IF canceled \/ tdAbort THEN "clear" ELSE "io"]
  /\ UNCHANGED <<tvars, counters, flags, sync, task, ioGood, wload, tries>>

\* xdd_io_for_os and xdd_worker_thread_update_local_counters
WorkerIo(w) ==
  /\ wpc[w] = "io"
  /\ \E good \in BOOLEAN :
       /\ ~good => IoMayFail
       /\ ioGood' = [ioGood EXCEPT ![w] = good]
       /\ tdAbort' = (tdAbort \/ (~good /\ StopOnError))
  /\ tries' = [tries EXCEPT ![task[w].op] = @ + 1]
  /\ wpc' = [wpc EXCEPT ![w] = "count"]
  /\ UNCHANGED <<tvars, counters, expired, canceled, sync, task, wload>>

\* xdd_worker_thread_update_target_counters
WorkerCount(w) ==
  /\ wpc[w] = "count"
  /\ IF ioGood[w]
       THEN /\ completed' = completed + task[w].size
            /\ UNCHANGED errors
       ELSE /\ errors' = errors + 1
            /\ UNCHANGED completed
  /\ wpc' = [wpc EXCEPT ![w] = "after_io"]
  /\ UNCHANGED <<tvars, nextOp, remaining, issued, flags, sync, task, ioGood, wload, tries>>

\* xdd_worker_thread_ttd_after_io_op
WorkerAfterIo(w) ==
  /\ wpc[w] = "after_io"
  /\ \E fails \in BOOLEAN : /\ fails => ReopenMayFail
                           /\ canceled' = (canceled \/ fails)
  /\ wpc' = [wpc EXCEPT ![w] = "clear"]
  /\ UNCHANGED <<tvars, counters, expired, tdAbort, sync, task, ioGood, wload, tries>>

\* The worker marks itself not busy and wakes a target waiting for it.
WorkerClear(w) ==
  /\ wpc[w] = "clear"
  /\ busy' = [busy EXCEPT ![w] = FALSE]
  /\ waiting' = [waiting EXCEPT ![w] = FALSE]
  /\ tpc' = IF WakesTarget(w) THEN "spec_test" ELSE tpc
  /\ wpc' = [wpc EXCEPT ![w] = "post"]
  /\ UNCHANGED <<wdp, walk, tload, pass, targetErrno, counters, flags, available, anyMutex,
                 task, ioGood, wload, tries>>

\* The counter is incremented under its mutex; the target's unlocked
\* increment may fall between this load and this store.
WorkerPostLoad(w) ==
  /\ wpc[w] = "post"
  /\ anyMutex = Free
  /\ anyMutex' = w
  /\ wload' = [wload EXCEPT ![w] = available]
  /\ wpc' = [wpc EXCEPT ![w] = "post_store"]
  /\ UNCHANGED <<tvars, counters, flags, available, busy, waiting, task, ioGood, tries>>

WorkerPostStore(w) ==
  /\ wpc[w] = "post_store"
  /\ available' = wload[w] + 1
  /\ wload' = [wload EXCEPT ![w] = 0]
  /\ anyMutex' = Free
  /\ tpc' = IF WakesLocator THEN "locate" ELSE tpc
  /\ wpc' = [wpc EXCEPT ![w] = "wait_task"]
  /\ UNCHANGED <<wdp, walk, tload, pass, targetErrno, counters, flags, busy, waiting,
                 task, ioGood, tries>>

-----------------------------------------------------------------------------
TargetStep == \/ BeforePass \/ LoopTest \/ Locate \/ ScanBusy \/ ScanTake \/ ScanNone
              \/ BeforeIoOp \/ TaskSetup \/ ReleaseWorker \/ LoopDone \/ GetSpecific
              \/ MarkLoad \/ MarkStore \/ AfterPass \/ StopRequest \/ StopWorker

WorkerStep(w) == \/ WorkerRead(w) \/ WorkerBeforeIo(w) \/ WorkerCheck(w) \/ WorkerIo(w)
                 \/ WorkerCount(w) \/ WorkerAfterIo(w) \/ WorkerClear(w)
                 \/ WorkerPostLoad(w) \/ WorkerPostStore(w)

\* The STOP request has overwritten the I/O request of a worker that had left
\* the barrier but not read it yet: the worker is gone, and the target stands
\* alone in the two-party barrier.
Stranded == tpc = "stop" /\ wpc[walk] = "stopped"

\* The run is over, or hangs; the pool stays in no other state.
AllStopped == tpc = "done" /\ \A w \in Workers : wpc[w] = "stopped"
Finished == (AllStopped \/ Stranded) /\ UNCHANGED vars

Next == TargetStep \/ SpuriousWakeup \/ (\E w \in Workers : WorkerStep(w)) \/ Finished

Spec == Init /\ [][Next]_vars

\* Every thread that can run is eventually scheduled.
FairSpec == /\ Spec
            /\ WF_vars(TargetStep)
            /\ \A w \in Workers : WF_vars(WorkerStep(w))
-----------------------------------------------------------------------------
(* Properties. *)

\* A worker that has a task and has not yet said that it is through with it.
Working(w) == \/ wpc[w] \in {"before_io", "check", "io", "count", "after_io", "clear"}
              \/ wpc[w] = "read" /\ task[w].req = "IO"
\* A worker on its way back to the task barrier.
Returning(w) == wpc[w] \in {"post", "post_store"}
Stopped == canceled \/ tdAbort \/ expired

TypeOK ==
  /\ tpc \in {"before_pass", "loop", "locate", "any_wait", "scan", "before_io", "setup",
             "release", "loop_done", "spec_test", "spec_wait", "mark", "mark_store",
             "after_pass", "cleanup", "stop", "done"}
  /\ wdp \in {Free} \cup Workers
  /\ walk \in 1..(QueueDepth + 1)
  /\ tload \in Nat /\ pass \in Nat
  /\ nextOp \in Nat /\ remaining \in Nat /\ issued \in Nat
  /\ completed \in Nat /\ errors \in Nat
  /\ expired \in BOOLEAN /\ tdAbort \in BOOLEAN /\ canceled \in BOOLEAN
  /\ targetErrno \in BOOLEAN
  /\ available \in Nat
  /\ anyMutex \in {Free, Target} \cup Workers
  /\ busy \in [Workers -> BOOLEAN] /\ waiting \in [Workers -> BOOLEAN]
  /\ task \in [Workers -> [req : Requests, op : Nat, size : Nat]]
  /\ wpc \in [Workers -> {"wait_task", "read", "before_io", "check", "io", "count", "after_io",
                         "clear", "post", "post_store", "stopped"}]
  /\ ioGood \in [Workers -> BOOLEAN] /\ wload \in [Workers -> Nat]
  /\ tries \in [0..NumOps-1 -> Nat]

\* The target sets up a task only in a worker that is through with its last
\* one, although it looks at the worker's flag and not at the worker.
TaskOwnership ==
  tpc \in {"before_io", "setup", "release"} => busy[wdp] /\ ~Working(wdp)

\* When the target goes on to the end of the pass, every worker is through
\* with its I/O, unless the run was canceled.
PassDrained ==
  tpc \in {"after_pass", "before_pass"} /\ ~canceled => \A w \in Workers : ~Working(w)

\* No operation is performed twice in a pass; a pass nothing stopped has
\* performed all of them, and without I/O errors all its bytes are counted.
PassComplete ==
  /\ \A n \in 0..NumOps-1 : tries[n] <= 1
  /\ tpc = "after_pass" /\ ~Stopped =>
       /\ \A n \in 0..NumOps-1 : tries[n] = 1
       /\ issued = BytesPerPass
       /\ errors = 0 => completed = BytesPerPass

\* A locator that sleeps on the counter will be woken: some worker has yet to
\* increment it, although increments may be lost.
LocatorWoken ==
  tpc = "any_wait" => \E w \in Workers : Working(w) \/ Returning(w)

\* A target that sleeps on one worker has asked it for a wake-up, and the
\* worker has not yet looked at the request.
SpecificWoken ==
  tpc = "spec_wait" => waiting[walk] /\ Working(walk)

-----------------------------------------------------------------------------
(* An inductive invariant: what the flags, the positions of the threads and *)
(* the counter have to do with each other between any two steps.            *)

Choosing == tpc \in {"before_io", "setup", "release"}
Waiting == tpc \in {"spec_test", "spec_wait", "mark", "mark_store"}

Cleaning == tpc \in {"cleanup", "stop", "done"}

\* Until the cleanup begins, BUSY is set exactly while the worker has a task or
\* is about to get one, or while the target holds it at the end of the pass.
BusyMeaning ==
  ~Cleaning => \A w \in Workers :
    busy[w] <=> \/ Working(w)
                \/ Choosing /\ wdp = w
                \/ tpc = "mark" /\ walk = w

WalkRange ==
  /\ Choosing => wdp \in Workers /\ ~Working(wdp)
  /\ Waiting \/ tpc \in {"cleanup", "stop"} => walk \in Workers
  /\ tpc = "mark" => ~Working(walk)

\* The workers the final wait has passed are through with their I/O.
DrainedSoFar ==
  /\ Waiting => \A w \in Workers : w < walk => ~Working(w)
  /\ tpc = "mark_store" => ~Working(walk)

\* A worker the locator has passed over was busy then; it cannot have posted
\* since, for the locator holds the counter's mutex.
ScanMeaning ==
  /\ tpc = "scan" => /\ anyMutex = Target
                     /\ \A w \in Workers : w < walk => Working(w) \/ wpc[w] = "post"
  /\ \A w \in Workers : wpc[w] = "post_store" => anyMutex = w

\* Either the counter is positive or somebody will increment it.
CountOrPoster ==
  tpc \in {"before_pass", "loop", "locate", "any_wait"} \/ (tpc = "after_pass" /\ ~canceled)
    => available > 0 \/ \E w \in Workers : Working(w) \/ Returning(w)

\* A worker that leaves the barrier finds an I/O request before the cleanup,
\* and unless the run was canceled, no worker the cleanup has yet to stop is on
\* its way to a request, so that the STOP request overwrites none.
RequestMeaning ==
  /\ ~Cleaning => \A w \in Workers : /\ wpc[w] # "stopped"
                                     /\ wpc[w] = "read" => task[w].req = "IO"
  /\ \A w \in Workers : wpc[w] = "read" => task[w].req # "none"
  /\ tpc = "release" => task[wdp].req = "IO"
  /\ tpc = "stop" => task[walk].req = "STOP"
  /\ tpc \in {"cleanup", "stop"} /\ ~canceled =>
       \A w \in Workers : w >= walk => wpc[w] = "wait_task" \/ Returning(w)

PoolInv == /\ TypeOK /\ BusyMeaning /\ WalkRange /\ DrainedSoFar /\ ScanMeaning
           /\ RequestMeaning /\ CountOrPoster /\ LocatorWoken /\ PassDrained
           /\ SpecificWoken

\* The run ends, whatever fails, and every worker exits, except that a canceled
\* run hangs when its STOP request overwrites an I/O request not yet read.
RunEnds == <>(AllStopped \/ (canceled /\ Stranded))

\* A run that was not canceled stops every worker where it waits for a task.
OnlyCancelStrands == Stranded => canceled

\* The pool hands out operations as TaskDispatch promises.
Holding == [w \in Workers |->
              IF Working(w) \/ (tpc = "release" /\ wdp = w) THEN task[w].op ELSE -1]
Dispatch == INSTANCE TaskDispatch
              WITH nextOp <- IF tpc = "before_pass" THEN 0 ELSE nextOp,
                   holding <- Holding,
                   open <- tpc \notin {"after_pass", "cleanup", "stop", "done"}
ImplementsDispatch == Dispatch!Spec
=============================================================================
