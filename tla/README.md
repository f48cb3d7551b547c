# TLA+ models of xdd 7.0.0.rc-ramses3 and of the GridFTP server's data path

This directory holds specifications of the two programs of this repository that
move data: `src/xdd-7.0.0.rc-ramses3`, the disk and network data mover, and the
part of the Globus GridFTP server that this repository works on
(`src/gridftp/server/src/globus_i_gfs_data.c`). Paths below are relative to
`src/xdd-7.0.0.rc-ramses3/src` unless they start with `src/`. The rest of the
repository is the Globus Toolkit (common, XIO, GASS, GRAM, GSI), vendored
libraries and build machinery; see "What is not modelled".

Modules at a glance:

| module | models | kind |
|---|---|---|
| `TaskDispatch` | what one target promises: operations in order, one worker each, a pass closed when drained | abstract specification |
| `WorkerPool` | Target Thread, Worker Threads, locator, flags, counter, mutexes, condition variables | implements `TaskDispatch` |
| `WorkerPoolProofs` | inductive invariant of `WorkerPool`, the account of a pass, and that it implements `TaskDispatch` | TLAPS |
| `TotOrdering` | serial and loose ordering through the Target Offset Table | detailed |
| `MCTotOrdering` | symmetry of the workers, for TLC | model |
| `TotOrderingProofs` | that only a lap can make a waiter be forgotten or a release leak | TLAPS |
| `PassCoordination` | main thread, Target Threads, results manager and the barriers between them | composition of targets |
| `PassCoordinationProofs` | inductive invariant of `PassCoordination` and what follows from it | TLAPS |
| `Barrier` | what a barrier promises | abstract specification |
| `XddBarrier` | `xdd_barrier` with its occupant chain, over `xint_barrier_wait` | implements `Barrier` |
| `XddBarrierProofs` | inductive invariant of `XddBarrier`; that it implements `Barrier` | TLAPS |
| `Lockstep` | the ring of targets in lockstep and the turn they hand round | detailed |
| `MCLockstep` | the options a run may have, up to the names of the targets, for TLC | model |
| `LockstepProofs` | inductive invariant of `Lockstep` and what follows from it | TLAPS |
| `EndToEnd` | a copy over sockets: source, connections, destination, restart monitor | composition of two processes |
| `EndToEndProofs` | where every block of a copy is, whatever fails, and what follows from it | TLAPS |
| `GfsData` | a transfer in the GridFTP server: operation, data handle, session, callbacks | detailed, with the control half as its environment |
| `GfsDataProofs` | the reference counts of `GfsData`, and that TRANSFER_COMPLETE comes last | TLAPS |
| `GfsEventLoopProofs` | with callbacks in one event loop: only the defect of run `gfs_reuse` makes an assertion of `GfsData` fail | TLAPS |

## 1. Inventory

### 1.1 Threads

A run of xdd consists of

* the **main thread** (`client/xdd.c`, `base/xint_plan.c`): parses, starts the
  targets one after another, the results manager, and, if asked for, the heartbeat
  and restart monitors; opens the start barrier, waits in the final barrier, and
  returns an exit status;
* one **Target Thread** per target (`base/target_thread.c`, `target_pass.c`,
  `target_pass_wt_locator.c`, `target_ttd_*.c`, `target_cleanup.c`): makes the passes;
* `queue_depth` **Worker Threads** per target (`base/worker_thread*.c`): one I/O at
  a time each;
* the **results manager** (`client/results_manager.c`): waits for the end of each
  pass, collects the counters, displays them, decides when the run is over;
* the **restart monitor** (`base/restart.c`) and the **heartbeat**
  (`base/heartbeat.c`), periodic readers of the others' state.

### 1.2 Components, state, operations

**Target pass and worker dispatch** (`WorkerPool`).
State: per worker `wd_worker_thread_target_sync` (flags BUSY and TARGET_WAITING) under
its own mutex with a condition variable; per target
`td_any_worker_thread_available`, a counter, with a mutex and a condition variable;
the per-worker task, and a two-party barrier at which the worker waits for it;
counters of bytes remaining, issued, completed and of errors; the stop flags
`td_time_limit_expired`, `td_abort`, `xgp->canceled`.
Operations: find any available worker, find one specific worker, set up a task,
release the worker, wait for all workers at the end of a pass, stop workers at the
end of the run; the worker's own before/after hooks, I/O, counting, marking itself
not busy, posting to the counter.
Hard: the BUSY flag, the counter and the worker's position in its barrier are
three views of one fact, kept under different locks or none. The counter is
incremented without its mutex at the end of a pass (`target_pass.c:169`). A pass
can be left in the middle by four different conditions.
Correct if: a task goes only to a worker through with its last one; every operation of
a pass is performed exactly once unless something stopped the pass; a pass is not
closed with I/O outstanding; nobody sleeps for good; errors are reported.

**Target Offset Table** (`TotOrdering`; `base/target_offset_table.c`,
`base/worker_thread_io.c`). State: entries with a status, a mutex and a
chain of waiting workers; per worker a link, a condition variable and a release flag.
Operations: wait for the previous operation, release the next. Hard: the chain
is edited without the mutex when a waiter is released (`worker_thread_io.c:229-235`);
entries are reused round robin, by operations of different laps; a
released flag outlives the release. Correct if: no waiter is forgotten, no release leaks
into another wait, ordering holds, everybody gets through.

**Run coordination** (`PassCoordination`). State: positions of main, targets and
results manager in eight barriers; `planp->passes`, `current_pass_number`,
`td_abort` per target, `xgp->abort`, `canceled`, `run_time_expired`, `run_complete`.
Operations: start-up with its failure paths, the pass loop, stop on error, cancel, run
time, reopening, processing of results, cleanup, exit status. Hard: each target
decides for itself whether to go on, from flags that change under it, and all must come to
the same decision or wait in different barriers for ever. Correct if: all decide
alike, results are read only while targets are parked, the run ends and its exit
status is true.

**xdd barriers** (`common/barrier.c`, `common/xint_barrier.h`). State: a POSIX
barrier (or a mutex, condition variable and counter where there is none) and a chain of
occupants for debugging. Hard: re-entry by a fast thread while the owner resets the
chain; a condition wait without a predicate in the fallback. Correct if: nobody leaves a
round before everybody has entered it.

**Lockstep** (`Lockstep`; `base/lockstep.c`, the option in `client/parse_func.c`). State: per
target a two-party barrier, an interval, a PASS_COMPLETE flag, END_STOP or END_COMPLETE, and
the link to the next target. Operations: the option that links a target into the ring, the
start of a pass, an interval of operations, the wait for the workers, the walk to the next
target, the hand-over. Hard: targets that complete early drop out of the ring; flags of other targets
are read without a lock; a bad status leaves only the inner loop (`lockstep.c:139`).
Correct if: one target at a time has the turn, the turn goes only to one that will take it, everyone
completes its pass.

**Restart monitor** (`EndToEnd`; `base/restart.c`). State: restart offset, lock, flags; the
workers' task offsets, read without their locks. Correct if: the offset saved is never
beyond data not yet written, and the completion message is the last thing written. Hard: the
lowest worker is found and then read again (`restart.c:259`).

**End-to-end transfer** (`EndToEnd`; `net/end_to_end.c`, `base/target_pass_e2e_specific.c`): source
and destination targets with one TCP connection per worker, a header per message, EOF
messages; worker state EOF received. Correct if: a copy that is reported complete is, and both
sides end. Hard: a pass left early with a worker claimed (`target_pass_e2e_specific.c:173`),
EOF on some sockets while others have data, ignored errors of `sendto`.

**GridFTP server, data half** (`GfsData`; `src/gridftp/server/src/globus_i_gfs_data.c`). State: an
operation per request with a reference count and ten states; a data handle with nine
states, shared by the operations of a connection, pointing at the operation in progress; a
session with a reference count. Operations: requests, events and destruction asked by the control
half; begin and finish called by the storage module; callbacks of the data channel library
and of the event loop. Each takes the session's mutex, calls out without it and takes it again.
Hard: whatever is called out to may come back in - a client's abort inside the BEGIN
event, its next request inside the reply; the last reference may go in any of half a dozen
places. Correct if: no callback meets an operation, handle or session that is freed, the state
switches never meet a state they call impossible, the storage module hears
TRANSFER_COMPLETE last, each request is answered once, everything is freed.

**GridFTP: libraries of control and data channel, client, commands, IPC, gfork**: taken at their word
where `GfsData` meets them.

**XNI** (`xni/*.c`): target buffers that move between free lists and users, under a mutex
with a condition variable; contexts and connections per socket. Correct if: each
buffer is in exactly one place; waiters for a free buffer are served.

**Heartbeat, triggers, throttle, syncio, time stamps, access patterns, verification,
results display, command line**: see "What is not modelled".

### 1.3 Interactions

| from | to | by |
|---|---|---|
| main | target | thread creation, `main_general_init_barrier`, `main_targets_waitforstart_barrier` |
| target | worker | task record, `wd_thread_targetpass_wait_for_task_barrier`, BUSY and TARGET_WAITING flags |
| worker | target | clearing BUSY, signal of the worker's condition, counter and broadcast of the target's condition, counters, `td_abort` |
| worker | worker | Target Offset Table |
| target | results manager | startpass, endpass, display, waitforcleanup barriers; counters read by the manager |
| any | any | `xgp->canceled`, `xgp->abort`, `run_complete`, `run_time_expired` |
| target | target | `planp->passes` (unlocked), lockstep ring, triggers, syncio barrier |
| results manager | main | `main_results_final_barrier` |
| source worker | destination worker | a TCP connection each: header with offset, data, or EOF header |
| destination workers | restart monitor | task offsets, read without a lock; the restart lock between monitor and Target Thread |
| GridFTP control half | data half | requests, TRANSFER_ABORT, TRANSFER_COMPLETE, markers, destruction of the handle, session stop |
| GridFTP data half | control half | BEGIN, CONNECTED, DISCONNECTED events, the reply |
| storage module | data half | `begin_transfer`, `finished_transfer`; events back |

## 2. The models

### 2.1 `WorkerPool`

One target, in the grain of its critical sections: everything the code does between a lock and
the matching unlock is one action, and an access to shared state outside the right
lock is an action of its own. The two increments of the availability counter are split into
a load and a store because one of them is not under the counter's mutex.

| state | code |
|---|---|
| `tpc`, `wpc[w]` | position of Target Thread and Worker Thread |
| `walk` | the loop variable of the locator, of the final wait and of the cleanup |
| `available`, `anyMutex` | `td_any_worker_thread_available` and its mutex |
| `busy[w]`, `waiting[w]` | `WTSYNC_BUSY`, `WTSYNC_TARGET_WAITING` |
| `task[w]` | `wd_task`: request, operation number, transfer size |
| `remaining`, `issued`, `completed`, `errors`, `nextOp` | target counters |
| `expired`, `tdAbort`, `canceled` | the flags that end a pass |
| `tries[n]` | history: how often operation n was performed in this pass |

| action | code |
|---|---|
| `BeforePass`, `LoopTest`, `TaskSetup`, `ReleaseWorker`, `LoopDone`, `MarkLoad`, `MarkStore` | `target_pass.c`, `target_ttd_before_pass.c` |
| `Locate`, `ScanBusy`, `ScanTake`, `ScanNone`, `GetSpecific` | `target_pass_wt_locator.c` |
| `BeforeIoOp` | `target_ttd_before_io_op.c` with the loop's treatment of a bad status |
| `AfterPass`, `StopRequest`, `StopWorker` | `target_thread.c`, `target_cleanup.c` |
| `WorkerBeforeIo` .. `WorkerAfterIo` | `worker_thread_io.c` and its hooks |
| `WorkerRead`, `WorkerClear`, `WorkerPostLoad`, `WorkerPostStore` | `worker_thread.c` |
| `SpuriousWakeup` | both condition waits of the target |

A condition wait is a place (`any_wait`, `spec_wait`) that only a signal or a spurious wakeup
leaves. The task barrier is one action that needs both parties: it has two, of which the worker
comes back to it after each task. What a worker finds in its task is read by a step of its own after
the barrier (`WorkerRead`), and the STOP of the cleanup is written by a step of its own before it
(`StopRequest`), whatever the worker is doing: neither is under a lock. A mutex that no action
keeps over a step (the workers' own) is not a variable.

`TaskDispatch` says what all this is for without flags, counters, or locks: `Issue`, `Finish`,
`Cancel`, `Close`, `Reopen`, and `Drop`, by which a canceled run may take an operation away
unperformed. The refinement mapping takes a worker to hold an operation from the
moment its task is being released until it clears its BUSY flag; a STOP that overwrites a request
not yet read is `Drop`.

### 2.2 `TotOrdering`

The workers of one target over one pass. Dispatch is abstracted to "the next operation goes to any
idle worker", which is what `TaskDispatch` promises. Test, marking and enqueueing are under the
entry's mutex and are single actions; the wait is `TestReleased`/`Block`/`Relock`, so that
a signal can come between the test and the sleep; the way to the end of a chain is one `Append` per
link, since others take the chain apart meanwhile without the mutex; the release after the unlock is
five actions, one per load or store of shared state.

`ordering` is chosen in `Init` and stays. Two variables remember what the properties except:
`lapped`, that an operation was handed out whose entry is still that of the predecessor of one under way
(the dispatch is a table length less one ahead of it); `startled`, that a spurious wakeup
interrupted the wait a worker is in.

### 2.3 `PassCoordination`

The whole run in terms of barriers. A place `start`, `end`, `disp`, `cleanup_wait` is a
thread inside the barrier of that name; `Open(b)` releases all parties of `b` at once.
`start_final`, `end_final`, `disp_final` are the three barriers a target goes through after its last
pass: they are the same barriers, so a target on its way out can meet one that is
in its next pass, which is what two of the findings are about. What happens in a
pass is reduced to its effect on the run: a worker stops the target (`td_abort`), a worker cancels
the run, the run time expires. A canceled target may leave workers at work.

### 2.4 `XddBarrier` and `Barrier`

`xdd_barrier` writes its caller to the end of the occupant chain under the barrier's mutex, waits in
the barrier proper, and the owner wipes chain and counter on its way out. The barrier proper is
the one xdd brings along (`common/xint_barrier.h`, used where POSIX barriers are missing): count,
wait or broadcast, under a mutex. `Arrive`, `Count`, `LetGo`, `Sleep`, `Wake`, `Return` are its locked
regions; `SpuriousWakeup` is a condition wait that ends by itself, which the code does not test
for. `Barrier` is what all others rely on: who comes in stays until the whole party is in, and the
party is let go as one. `PassCoordination` and `Lockstep` use a barrier in that sense.
A party is any set of the threads, with the owner in it or none.

### 2.5 `Lockstep`

`Option` is one `-lockstep` option: it links a slave behind its master. A pass takes every
target through `clear` (its flags), `wait` (its own two-party barrier, unless it is first), `issue` (an
interval of operations, given to workers), `drain` (until no worker is at work), `look` (the
walk along the ring past those that have completed) and `give` (the next target's barrier).
`Barrier` is the meeting of two targets in that barrier. `Halt` is a cancellation, abort or the end
of the run time and stops all targets; the time limit of a pass, or an abort, of one target stops that one
(`expired`, set where `Issue` looks at it, since nothing else does, and reset by the next pass). Either way
`Issue` goes on as the code does: the inner loop is left, the outer is not. That an aborted target leaves the passes to
the others (`target_thread.c:70`) is modelled in `PassCoordination`.

### 2.6 `EndToEnd`

Both processes of a copy, each with a Target Thread and `QueueDepth` Worker Threads, one
connection per pair of workers, and the restart monitor on the destination. A block stands for
its offset. `SRead` and `SSend` are the source's worker, `DRecvBlock`, `DRecvEof`, `DRecvFails`, `DWrite`
the destination's; a connection is a sequence that holds at most `ChanCap` messages. The monitor
is three actions, `MWake` (take the lock), `MWalk` (compare the next worker's offset), `MPick` (read
the lowest worker's offset once more and write it), since the workers go on in between. Each
behaviour has one kind of fault or none: a failed read, failed writes, broken connections, the
source's time limit, the source's death. `start` is the offset a resumed copy starts at.

### 2.7 `GfsData`

| state | code |
|---|---|
| `op[o]` | `globus_l_gfs_data_operation_t`: `state`, `ref`, `writing`, `finished_delayed`, `connect_failed`, `data_handle # NULL`; and what its history tells: begun, finished, replies, TRANSFER_COMPLETEs |
| `handle` | `globus_l_gfs_data_handle_t`: `state`, `outstanding_op` |
| `session` | `globus_l_gfs_data_session_t`: `ref`; is the close callback of an idle handle due |
| `channel` | does the data channel library have a connection to close, is it closing it |
| `due[o][k]` | callbacks of kind `k` registered for `o`, and functions of `o` between two locked regions |
| `ctl[o]`, `object` | the control half: where its request is, the state of its data object |
| `broken` | an assertion failed, a NULL pointer was followed, something was freed twice |
| `reused` | history: a request came after a transfer that `Spoiled` the channel (below) |

One action per locked region: a function that takes the mutex twice is two actions, the second
enabled by an entry in `due` that the first leaves (`begin`, `begin_cb2`, `end2`, `trev2`, `post`, ...).
The common parts of the regions are operators from record to record (`Decrement` is
`GFSDataOpDec`, `Check`, `StartAbort`, `ForceCloseReturns`, `FinishConnected`, `FreeHandle`), and an
action is their composition. `Must` is `globus_assert`.

The environment: the control half asks for the next request when its data object is ready; it
aborts at most once per request, also from inside the BEGIN event; after TRANSFER_COMPLETE of a
lost connection it destroys the handle. The storage module begins once or not at all and finishes once; it
asks for abort and complete events. The library calls the close callback last.

The client may ask for the next transfer whatever became of the last one: nothing in either half
keeps it from that. `Threads = FALSE` is the default build, one event loop: nothing else runs
while a function is between two regions, except what it calls, and oneshots run in
the order of registration as far as the code depends on it (`TurnOf`). With `Threads = TRUE` any two
interleave. A transfer is `Spoiled` when the storage module ended it with an error while its channel was still being
connected: the reply takes the handle for a valid one, and TRANSFER_COMPLETE will close it. `reused` remembers that a request
came after such a transfer, so that properties can say which behaviour that is the cause of.

Assumed: this node owns the channel (`is_mine`), one stripe, one data connection, no access control
callback that answers later, `begin_transfer`'s unlocked writes are one step, the reply is in
the same step as the locked region before it.

## 3. Runs

### 3.1 Runs that pass

| run | instance | shows |
|---|---|---|
| `pool` | 2 workers, 5 bytes in transfers of 2, 2 passes, all failures | safety of the pool, refinement of `TaskDispatch`, every run ends, up to the hang of a canceled run (3.2) |
| `tot_laps` | 3 workers, table of 3, 8 operations, loose ordering, aborts, spurious wakeups | up to a lap: nobody is forgotten, with two releases per operation; the types after laps |
| `tot_ends` | 2 workers, table of 4, 7 operations, both orderings, aborts, spurious wakeups | order of waiters; every operation ends, up to a lap or a lost signal (3.2) |
| `coord_errors` | 3 targets, 1 pass, failing initialization, stop on error, cancel | exit status, cleanup |
| `coord_run` | 3 targets, run time up to pass 3, failing initialization, cancel | results of one pass, targets in step, the run ends |
| `barrier` | parties of 1 to 3 threads, with and without owner, 2 meetings, spurious wakeups | refinement of `Barrier`, the unlocked assertion, the chain, everybody gets away |
| `lockstep` | 3 targets, all rings up to their names, 1 or 2 operations and 1 or 2 per turn, complete or stop, 2 workers, halts, single targets told to stop | one turn at a time, given to the living, no target runs ahead, every pass ends |
| `e2e_copy` | 2 workers, 2 blocks, all kinds of faults, from the start or resumed | restart offset, completion message, both sides end |
| `gfs_event_loop` | 2 transfers, the second whatever became of the first, up to 2 markers, stream mode and MODE E, all faults, event loop | reference counts, COMPLETE is last, replies, the session is freed; assertions and the handle in use, up to the reuse of `gfs_reuse` |

Properties, beyond the type invariants:

* `TaskOwnership`, `PassDrained`, `PassComplete` - a task is set up only in a worker that is through
  with its last; a pass is closed only when drained; each operation performed once, all of them if
  nothing stopped the pass, and its bytes add up.
* `LocatorWoken`, `SpecificWoken` - each sleep of the target has somebody who will end it. The first is
  the interesting one: increments of the counter do get lost, and it holds because a worker that was
  at work when the target went to sleep always posts afterwards.
* `ImplementsDispatch`, `ImplementsBarrier` - the abstract specifications as properties.
* `WaiterWillBeReleased` - an unreleased waiter is the first of its entry's chain and the worker with the
  previous operation has yet to release it. `ReleaseIsForOneWait` - a set release flag belongs to
  the wait the worker is in. `WaitedInOrder` - who waited starts after its predecessor. All three
  hold until an operation is lapped, and say that no other way leads to their failure.
* `ResultsOfOnePass` - the manager reads counters of one finished pass, of every target.
  `PassLockstep` - no target is on its way out while another is in a pass.
  `ExitStatusTells`, `CleanedUpAtExit` - the exit status and what is left behind.
* `AssertionHolds` - the assertion `xint_barrier_wait` makes without its mutex. `ChainShowsOccupants` -
  what interactive mode would show of a barrier is true while its owner waits in it.
* `OneTurn`, `GivenToTheLiving`, `NobodyRunsAhead` - one target has the turn and only it has I/O under
  way; the turn is handed to one that waits or will; no target gets two turns ahead.
* `LowestOffsetIsSafe` - some destination worker always stands before every unwritten block: what
  the restart monitor relies on. `CompleteMeansWritten` - the completion message over a complete copy
  only. `CompletionIsFinal` - nothing is written over it.
* `NoAssertionFails`, `PendingIsLive`, `CompleteIsLast` - the state switches of the GridFTP server meet
  only states they expect; whatever is on its way finds operation, handle and session alive;
  TRANSFER_COMPLETE comes once, after the finish and the one reply, with nothing else due.
* `RunEnds`, `EveryOpEnds`, `EveryMeetingEnds`, `EveryPassEnds`, `BothEnd`, `EveryRequestIsAnswered`,
  `SessionEnds` - liveness.

### 3.2 Runs that show a disagreement with the code's own comments

| run | comment | what happens |
|---|---|---|
| `coord_stop_on_error` | `target_thread.c:136`: all targets get to the end barrier | with two targets and two passes, the one stopped by an error and the one that goes on wait in different barriers |
| `e2e_restart` | `restart.c:157`: the restart file tells what is on stable media | without any fault the offset written may lie beyond a block still under way: a worker already passed by the walk, or the one picked, has a later block by the time its offset is read again |
| `gfs_reuse` | `globus_i_gfs_data.c:8399`: `globus_assert` that a transfer starts on a VALID handle | the storage module ends a transfer with an error while the channel is being connected; the reply makes the data object ready; TRANSFER_COMPLETE closes the channel; the next transfer finds the handle CLOSING and marks it in use. `globus_assert` is empty without BUILD_DEBUG |

Further behaviours met while modelling, which no run of this set isolates. Each is in a model (its
constants switch it on) or follows from the lines quoted:

* Pool: a canceled pass is left at once (`target_pass.c:155`), perhaps just after a worker was
  released with an I/O request it has not read. The cleanup then writes STOP over that request
  (`target_cleanup.c:30`); the worker reads STOP and exits without its I/O, and the target enters
  the two-party task barrier alone and waits for ever. TLC finds this as the only counterexample to
  `<>AllStopped`, after 33 steps: a reopen of the other worker fails and cancels the run between the release and
  the read. `RunEnds` admits exactly this outcome (`canceled /\ Stranded`) and no other, and
  `CancelAloneStrands` proves that no other run gets there.
* Pool: the increment of the counter at the end of a pass is not under its mutex
  (`target_pass.c:169`), so counts get lost and in a later pass the locator may sleep with a
  worker idle until another finishes: throughput, not a hang. Errors of I/O are not reported by a
  target without `-stoponerror`: `target_errno` is set from a status that workers of a normal target
  do not write.
* Target Offset Table: all entries start AVAILABLE, so on the first lap nobody waits, whatever the
  ordering. Nothing keeps the dispatch from lapping a slow operation, and a lap of one entry less than
  the table is enough: operation 1 is slow to look at entry 0; operation 4 of a table of 4 makes
  entry 0 AVAILABLE and finds nobody waiting; operation 5 passes and marks it UNAVAILABLE; now operation 1 looks,
  and waits for a release that was made before. Only operation 8 releases it, out of order, and
  if the pass has none it waits for ever. `WaiterWillBeReleased` and `EveryOpEnds` fail without `lapped`.
  The release flag is set and the signal sent without the waiter's mutex (`worker_thread_io.c:233-235`). A waiter
  that has not been woken yet holds the mutex from its enqueueing to its wait, so it cannot miss them; but one
  that a spurious wakeup takes out of the wait can: it tests the flag, the flag is set, the signal is sent, it waits
  again, and sleeps for ever with its release set. `EveryOpEnds` admits this end (`released` and
  `startled`) and fails without it, after a single spurious wakeup.
  With `-ordering loose` a worker does not wait a second time although it releases twice.
* Coordination: a failed reopen between passes makes a target skip the endpass barrier where the
  manager waits (`ReopenMayFail`). `-runtime` with `-stoponerror` and several targets hangs as
  `coord_stop_on_error` does.
* Barrier: a spurious wakeup lets a thread out early, leaves its count behind, and may let the
  owner wipe the chain with others on it; all properties are stated up to that (`disturbed`).
* Lockstep: with more than one pass (`Passes`) a target may read the completion flag another one
  still has from the pass before (`lockstep.c:172` against the reset at `:86`), finish without
  handing it the turn, and leave it waiting for ever. A halted run, or a target told to stop, leaves only the inner loop, counts
  away the available workers and waits in the locator for ever. A percent interval that rounds to 0
  makes empty turns without end; time and byte intervals are used as numbers of operations;
  START_RUN is never looked at; options that do not share a target make several rings.
* End to end: the source that runs into its time limit leaves a worker claimed, and both sides hang
  (`target_pass_e2e_specific.c:173`). A failed write with `-stoponerror` on the destination may leave
  both sides waiting. Without it the completion message is written although a write failed, or although
  the source skipped blocks. A failed `sendto` of data is ignored, one of an EOF is repeated; nothing
  clears WTSYNC_EOF_RECEIVED, so a second pass of a destination ends before it began.
* GridFTP server, in the event loop: a connection that fails (`begin_cb` with an error while
  CONNECTING, `src/gridftp/server/src/globus_i_gfs_data.c:9499-9505`) starts the abort without giving up
  the callback's reference; the operation is never freed, the storage module never gets
  TRANSFER_COMPLETE, and the session stays (`SessionEnds` excepts it). An abort in state
  CONNECT_CB is dropped.
* GridFTP server, in the event loop, after the reuse that `gfs_reuse` shows: the close callback of the failed transfer
  (`complete_fc`), or its `post_transfer_event_cb`, clears the `outstanding_op` of the next one, whose handle is in use
  (second half of `PendingIsLive`, which fails without `~reused`), and further assertions may fail. The first half of
  `PendingIsLive`, `CompleteIsLast`, `EveryRequestIsAnswered` and `SessionEnds` hold after it too: they make no exception for
  it. `NoAssertionFails` says that nothing else makes an assertion fail; once `reused`, it does not tell assertions apart.
* GridFTP server, with `Threads` on: the next request may come before the end of the last one has put
  the handle back to VALID. For RETR the assertion was relaxed to accept TE_VALID
  (`:8552-8556`, "sudden crash due to this"), for STOR it was not (`:8399`). In either
  case the late `post_transfer_event_cb` of the old operation clears the `outstanding_op` of the
  new one, and a handle destroyed in between may be freed under it: `NoAssertionFails` and
  `PendingIsLive` fail; `CompleteIsLast`, `EveryRequestIsAnswered` and `SessionEnds` hold. The comment in
  `data_check` (`:888-901`) says the session's count is bumped back up until the mutex is taken again; on the
  owning node it is not, so the session may be stopped and freed in between.

### 3.3 Bounds

* `WorkerPool`: two workers are enough for each race between the target, a worker it waits for, and a
  worker it does not. With three operations one worker comes back while the other is at work, and the
  locator can count on a worker that is not idle yet; an odd number of bytes makes the last one short; two
  passes carry flags and counter from one pass into the next.
* `TotOrdering`: `Multiplier` is 20 in the source, 2 in `tot_ends` and 1 in `tot_laps`, so that 7
  and 8 operations go once and twice round the table. A worker is appended behind
  another only if there are three and, with this table, 8 operations. How far a worker may fall behind is not bounded, nor are
  spurious wakeups. Before a lap a table of 3 has two adjacent operations under way; any number
  of them is left to the theorems of 4.6, which assume nothing about laps.
* `PassCoordination`: three targets, so that two may agree against one. `MaxPass` bounds the passes that
  a run time can add: the time must be over in that pass. `coord_run` leaves out stop on error and
  `ReopenMayFail`, for which it would hang (3.2); `coord_errors` has one pass,
  where stop on error is harmless.
* `XddBarrier`: three threads give one that is released late, one that comes back early and the owner;
  two meetings let the second overlap the end of the first. A third adds nothing: a thread cannot be two
  meetings ahead.
* `Lockstep`: three targets make a walk that passes over one that has completed; two operations in
  intervals of one or two make turns that end a pass and turns that do not. One pass, see 3.2.
* `EndToEnd`: two workers and two blocks let the later block overtake the earlier one, and an EOF one
  connection before data on the other; with three blocks (`e2e_restart`) a worker comes to a later
  block while the monitor walks. `ChanCap = 1` makes the source wait for the destination.
* `GfsData`: the second transfer meets what the first leaves behind; a third repeats it (the invariants were
  checked once with three, in 241,000 states). Two markers of one operation may be queued together.

Deadlock is checked in all passing runs but two: in `lockstep` a halted run hangs, and in `e2e_copy` a
copy that runs into its time limit does (both 3.2). `coord_stop_on_error` switches the check off because
the hang it shows is the point. The final states that stutter are named `Finished`, `Exited` and `Over`.

### 3.4 Fairness

Threads are POSIX threads, each scheduled eventually: weak fairness of each thread's step. A
mutex is granted to a thread that asks for it again and again: strong fairness of
the actions that need a mutex another action holds over several steps (in `TotOrdering` the lock of an
entry; in `EndToEnd` the Target Thread of the destination, which takes the lock that the monitor holds during its
walk and leaves free while it sleeps). `WorkerPool` does without: its mutex is taken finitely often. No fairness for failures, cancels, time limits, halts, the monitor's wakeups
or spurious wakeups. `PassCoordination`, `Lockstep` and `XddBarrier` have weak fairness per thread only, as
every barrier stays open to whoever is in it. `GfsData`: every registered callback is
called, the library answers every close, the storage module finishes what it was asked, the control half sends
TRANSFER_COMPLETE and leaves in the end; no fairness for aborts, markers or lost connections.

## 4. Proofs

### 4.1 `WorkerPool`

`WorkerPoolProofs` proves, for every queue depth, transfer size, number of bytes and passes, and every
combination of the options (`PoolAssumption` is the only assumption):

| theorem | property |
|---|---|
| `PoolInvariant` | `PoolInv` |
| `PoolTypes` | `TypeOK` |
| `TaskOwned` | `TaskOwnership` |
| `PassIsDrained` | `PassDrained` |
| `LocatorIsWoken` | `LocatorWoken` |
| `SpecificIsWoken` | `SpecificWoken` |
| `CancelAloneStrands` | `OnlyCancelStrands`: a STOP overwrites an unread request in a canceled run only |

and in its second part, on top of `PoolInv`:

| theorem | property |
|---|---|
| `Inductive` | the inductive invariant `IInv`: `PoolInv` and the account below |
| `PerformedOnce` | `EveryOperationOnce`: `PassComplete` without its last line, the sum of the bytes completed |
| `PassIsComplete` | `PassComplete` |
| `Refinement` | `ImplementsDispatch` |

The argument. None of the properties is inductive alone: whether the target may take a worker
depends on a flag, and what the flag means depends on where two threads are. `PoolInv` says so:

* `BusyMeaning` - until the cleanup, BUSY is set exactly while the worker has a task, or the target
  has chosen it, or the target holds it in the final wait. This carries `TaskOwnership`.
* `RequestMeaning` - what a worker will find when it reads its request: an I/O before the cleanup; and
  unless the run was canceled, no worker the cleanup has yet to stop has a request to read.
* `WalkRange`, `DrainedSoFar` - where the final wait is, and that the workers before it are
  through. This carries `PassDrained`.
* `ScanMeaning` - while the locator walks the list it holds the counter's mutex, so no worker it has
  passed over can have posted since. With it, a walk that finds nobody leaves somebody who will post.
* `CountOrPoster` - whenever the target may go on to the locator, the counter is positive or somebody
  will increment it. Lost increments are covered because the store always leaves
  the counter positive. This carries `LocatorWoken`.

One lemma per group of conjuncts (`TypeStep`, `WalkStep`, `BusyStep`, `DrainStep`, `ScanStep`,
`WakeStep`, `CountStep`, `LocatorStep`), each with one step per action; `Initially`; and the
theorems combine them by PTL.

The second part adds the account of a pass: bytes that remain and operation number tell the
same story (`Accounted`, with the rounding up of `NumOps` in `OperationsCover`); what is performed was issued,
what is pending has not been performed and is pending with one worker only (`Once`); what was issued is one or the
other until something stops the pass (`NoneLost`); and a pass starts with all workers through
(`FreshStart`), which is why resetting the counters meets nobody. The refinement maps `TaskSetup` to `Issue`,
`WorkerClear` to `Finish`, a failed reopen to `Cancel`, the way to `after_pass` to `Close` and the way to
another pass to `Reopen`, one lemma each; everything else is a stutter (`Invisible`).

The bytes completed are a sum over operations that the model never forms: each worker adds its own. `Tallied` says
that until something stops the pass or fails, what was issued is what was completed and what is due from the workers, the
latter by way of its partial sums (`Sums`). A step moves what one worker owes, and with it the sums from that worker on
(`SumsMove`); at the end nothing is due, so by induction over the workers the sum is 0 (`SumOfNone`).
`IInv` and `EveryOperationOnce` were checked by TLC over an instance of three operations first.

### 4.2 `PassCoordination`

`PassCoordinationProofs` proves, for every number of targets and passes, with `-runtime` or
without, with failing initialization, cancellation and, for one pass, errors that stop targets:

| theorem | property |
|---|---|
| `CoordTypes` | `TypeOK` |
| `CoordInvariant` | `CoordInv` |
| `TargetsInStep` | `PassLockstep` |
| `ResultsAreOfOnePass` | `ResultsOfOnePass` |
| `CleanedUp` | `CleanedUpAtExit` |
| `ExitStatusIsTrue` | `ExitStatusTells` |

All but the first assume `DecideAlike`: no reopen fails, and `-stoponerror` is used only with a single
pass and no `-runtime`. This is what `coord_stop_on_error` and a failed reopen violate; without it
the run hangs and `PassLockstep` does not hold. (`CoordInv` was checked by TLC over the instance of
`coord_run` before it was proved.)

The argument. What the properties say of one moment holds because of how the targets decided
one pass earlier, so the invariant goes through the phases of a pass:

* `StartUpInv` - until main has opened the start barrier, no target is past it.
* `PhaseInv` - the results manager's place tells where the targets can be. While it waits in startpass,
  the targets are between two passes (`BetweenPasses`), each with what it has already decided; while it
  waits in endpass, all make the same pass (`MakingPass`) or all are on their way out.
* `GoOn` - what all targets decide by: not canceled, run time not over, and a pass left. It is the
  centre of the proof: a target that has decided to go on implies `GoOn`, one that leaves implies its
  negation, and no step changes it while the manager waits in startpass, since the workers are done
  by then unless the run is already canceled. So startpass opens to targets that decided alike.
  The race on `planp->passes++` does no harm, since the invariant needs `passes` above the current pass
  and not its exact value: the last store is of a load that was at least the current pass.
* `RunInv` - `abort` is clear until the manager collects the results of the run, and is set
  then exactly for an error that stopped a target; the main thread ends only when the manager does.
* `WorkersInv` - a worker that outlives its pass implies a cancel, and none outlives the cleanup;
  `td_abort` keeps an error until it is collected. With one pass it is never cleared before that.

One lemma per part (`TypeStep`, `StartUpStep`, `PhaseStep`, `RunStep`, `WorkersStep`), each with one step per
action, with the four barriers apart where they differ; `ManagersPlace` reads the phase off
a target's place; `ExitStatusStep` carries `ExitStatusTells` beside the invariant, for it speaks of the
past of the flags.

### 4.3 `XddBarrier`

`XddBarrierProofs` proves, for every finite set of threads, every party and any number of meetings:

| theorem | property |
|---|---|
| `Invariance` | the inductive invariant `IInv` |
| `TypeCorrect` | `TypeOK` |
| `BarrierHolds` | `NobodyLeavesEarly` |
| `AssertionNeverFails` | `AssertionHolds` |
| `ChainIsTrue` | `ChainShowsOccupants` |
| `Refinement` | `ImplementsBarrier` |

The argument. `waiters` is the number of threads that have counted and not been let go - a
fact about a cardinality, so the step in which the count is complete needs `CompleteMeansAll`: a subset of
the finite party with as many members is the party. From it, the last one lets go of everybody
together, and nobody of the party is still on the way out of the meeting before, as each had to come
in again to be counted. That is `Open` of the abstract barrier; coming in and going out are `Enter` and
`Leave`, and everything else is a stutter (`Invisible`). All of it up to the first wait that ends
by itself (`disturbed`), after which it is false.

For `ChainIsTrue` the invariant is `Listed`: from the owner's way out, where it empties the chain, until it is
let go the next time, some one-to-one enumeration of threads in the barrier is what the chain links
(`Links`). A fast thread that comes in again before the owner is out breaks it, and is no harm, as the owner
then empties the chain with that thread on it. That a walk sees this enumeration is an induction over the links, and that
the recursive function `Occupant` is defined at all is another (`OccupantIs`: the walks of each length exist, and
agree). Both rest on `Induction`, which comes from the well-foundedness of the order on the naturals.

### 4.4 `Lockstep`

`LockstepProofs` proves, for every number of targets and passes, all options, intervals, halts:

| theorem | property |
|---|---|
| `Invariance` | the inductive invariant `IInv` |
| `TypeCorrect` | `TypeOK` |
| `OneTurnAlways` | `OneTurn` |
| `NeverGivenToTheDone` | `GivenToTheLiving` |
| `TurnsGoRound` | `NobodyRunsAhead`, as long as `pass = 1` |

The argument. `OneTurn` is inductive only together with how a turn changes hands: the ring is closed over
its members and has at most one first target (`Linked`); a target that is through with its pass has
set its flag before it leaves, and before it looks for a successor (`Said`); who gives the turn away
has found another target whose flag is clear, and that one is in its barrier or on its way there (`Looks`).
So the turn never comes to a target that has left, and the barrier it is given in has its two
parties. It holds with several passes too: a stale flag makes a target be passed over, not be
waited for.

`TurnsGoRound` needs that the members are one ring: every nonempty set closed under `next` is all of them
(`Ring`; each option keeps it). Then a round can be described (`Round`): those who have had their turn in it are a set
whose members follow one another up to where the walk of the target that has the turn has come (`Frontier`), and
whoever still has operations to do has had as many turns as that target if it is in the set, and one less if not. When the walk
ends at a target of the set, the set is closed, so it is the whole ring and a new round begins. Both
were checked by TLC over the instance of `Lockstep.cfg` before they were proved. It is the first pass only,
since in a later one a target that reads a flag left from the pass before passes over one that has everything
to do (3.2).

### 4.5 `EndToEnd`

`EndToEndProofs` proves, for every number of workers and blocks, every capacity of the connections and
every set of faults:

| theorem | property |
|---|---|
| `Inductive` | the inductive invariant `IInv` |
| `TypeCorrect` | `TypeOK` |
| `LowestOffset` | `LowestOffsetIsSafe` |
| `CompleteCopy` | `CompleteMeansWritten` |
| `CompletionStays` | `CompletionIsFinal` |

The argument. `LowestOffsetIsSafe` says only that some worker stands before a block; it is not
inductive, since that worker moves on. What is, is where each block is (`Under`): handed out and not
written, it is `OnItsWay` - with a worker of the source, on a connection, or with a worker of the
destination, and all that arrives before it on that connection are lower blocks - or `Stuck`: skipped by
the source after an abort, lost with its connection, or skipped by the destination. That needs the
blocks handed out in order (`Bounded`). For the completion message the end of file has to be the
last message of its connection, sent when its worker has nothing else (`Endings`), and the source to have
handed out everything before it sends one, or given up (`GaveUp`: at its time limit one
worker stays claimed, so one connection never delivers an end of file). The destination
leaves its loop without an error only after every end of file (`Through`): then nothing is on its way or stuck.

### 4.6 `TotOrdering`

`TotOrderingProofs` proves, for every number of workers and operations, either ordering, with aborts,
cancels, spurious wakeups and laps; the table must have two entries or more (`TotAssumption`), in the source
it has 20 per worker:

| theorem | property |
|---|---|
| `Inductive` | the inductive invariant `IInv` |
| `TypeCorrect` | `TypeOK` |
| `NobodyIsForgotten` | `WaiterWillBeReleased` |
| `OneReleasePerWait` | `ReleaseIsForOneWait` |
| `ChainsAreShort` | `AppendsOnlyAfterLap`: a wait chain gets a second worker only after a lap |
| `WaitersStartInOrder` | `WaitedInOrder` |

Nothing in `target_pass.c` keeps the dispatch from going round the table past a worker that is stuck in one
operation, and then waiters are forgotten (3.2). So the theorems do not assume it away: they say that
a lap, exactly as `Laps` defines it, is the only way there. `IInv` is the types, and `lapped \/ InOneLap`.

The argument. Until a lap the operations under way differ by less than the table has entries (`UnderWay`), so an
entry names one of them, and at most one waits for it (`OwnEntry`, `Owner`: arithmetic of the round robin).
A chain thus has no second worker (`Single`, `Linked`), and only the worker whose entry it is takes
the waiter out (`Releasing`): the loads and stores it makes without the mutex meet nobody.
Nobody waits in vain, because a worker that finds its predecessor's entry UNAVAILABLE has a
predecessor that has yet to post (`Ahead`): only the successor itself marks the entry, when it is past its look.
From there on the release is on its way (`Expected`). The bound in `UnderWay` is the exact one: `Ahead` needs the
entry before the next operation to be none that an operation under way waits for, which an operation handed out
`TotEntries - 1` later breaks.

### 4.7 `GfsData`

`GfsDataProofs` proves, for every number of transfers and markers, in one event loop or a thread for each
callback, and every set of faults (`GfsAssumption` is the only assumption):

| theorem | property |
|---|---|
| `Inductive` | the inductive invariant `IInv` |
| `TypeCorrect` | `TypeOK`: in particular no count of references goes below zero |
| `CompleteLast` | `CompleteIsLast` |

and `GfsEventLoopProofs`, with `~Threads` (one event loop; with threads both properties fail, 3.2):

| theorem | property |
|---|---|
| `StaysOnCourse` | the inductive invariant `reused \/ OnCourse`, given `IInv` |
| `AssertionsHold` | `NoAssertionFails` |
| `CallbacksFindTheirOperation` | `PendingIsLive \/ reused` |

No theorem assumes that a client stays away from a handle after a failure. `reused` is the exact exception: a request may follow any
other failed transfer, and `AssertionsHold` says that the defect of `gfs_reuse` is the only one there is to meet. What `PendingIsLive`
says after it (its first half) is model-checked only.

The argument for the first three. The reference count of an operation is the number of those who will give one back
(`Counted`): the request until it is answered, the control half until its TRANSFER_COMPLETE is through, a
connection that failed for good (never given back: `globus_i_gfs_data.c:9735`), and each callback on its way that begins, connects,
aborts or reports. `CompleteIsLast` follows: TRANSFER_COMPLETE is sent with the last reference, so none of them is
left. That the callbacks which end a transfer are gone too needs that an operation is ended only once
(`Ends`): by one callback on its way, or by the connection it waits for (`delayed`), or by the abort its
end was left to (state `FINISH`), or already. Kinds of callbacks that do the same to the
operation are counted together (`Tally`). The count of the session is the control half's plus one for each operation
that has a reference and one for the close of the channel (`SessionCounted`); for that the control half stops the
session only after its last request (`OneAtATime`).

The proof takes each locked region apart as the code does: what `Decrement`, `StartAbort`, `FinishConnected`
and the others make of the one operation they touch is a lemma of its own, what the invariant says of that
operation another (`Sound...`), and one lemma for each action puts the two together (`...Keeps`). It assumes nothing
on the order of callbacks: both properties hold with callbacks in threads, where
`NoAssertionFails` and `PendingIsLive` do not.

The argument for the other two. An assertion of `globus_i_gfs_data.c` looks at two or three state words at once:
of the operation, of the handle, sometimes of the data object of the control half or of the channel. None of
them says by itself what the others are; what ties them together is which callbacks are still on their way. `OnCourse`
says so for the one operation the handle names, by how far the control half is with it:

* `Asked`: not answered. The handle is in use, closing or marked for its end; where the connection is tells
  which of the callbacks that begin may still come (`Connection`); an abort that closes the channel has a callback.
* `Answered`: the reply is out and TRANSFER_COMPLETE is not asked for. Nothing is on its way but the second
  region of the end (`end2`), and the state of the handle and of the data object are what the reply made them.
* `Ended`: TRANSFER_COMPLETE is through. At most one callback is left (`end2`, `complete_fc` or `post`), and each of them
  finds the handle in a state it can deal with, or the operation without handle.
* `Resting`: nothing is on its way, and the handle is what the data object takes it for.

`Released` ties the channel to its one close callback and a freed handle or session to nobody using it; `Others`
and `InOrder` say that every other operation has not come or is over. That is where the event loop
enters: a function between two locked regions finishes before anybody else has a turn,
and so the end of a transfer has put the handle back before the next request looks at it
(`RequestFinds`). After a failure the handle is closing or closed; the answer then has left the data object to be destroyed, so that
no request comes, but for a transfer that was `delayed` and `failed`: the invariant carries exactly that pair through
the answer and TRANSFER_COMPLETE. `OnCourse` holds no
counts: that two callbacks cannot end the same operation, or one that aborts meet one that connects, comes from the tallies of
`IInv` (`SharedIs`), so both invariants are needed together. There is one lemma for each action again (`...OnCourse`).

### 4.8 Only model-checked

`NobodyRunsAhead` of `Lockstep` in passes after the first, and all
liveness, which the prover does not do.

`RestartFileIsSafe` does not hold, see 3.2.

## 5. What is not modelled

* In `WorkerPool`: triggers, throttle, the syncio barrier, end-to-end tasks, time stamps, interactive
  mode. Time stamps change no decision (with `TS_WRAP` the current entry is reset after each
  operation, `target_pass.c:224`, which concerns the report only).
* In `TotOrdering`: `tot_update`, byte offsets and wait times of entries.
* In `PassCoordination`: dry run, pass delay, heartbeat and restart start-up. The manager's branch for
  an abort before the results are read (`results_manager.c:79`) is part of `Collect`, although no
  run reaches it with the targets in the barrier it needs.
* In `XddBarrier`: initialisation, destruction and the plan's chain of barriers.
* In `Lockstep`: overlapped lockstep (the same code), options that build more than one ring,
  `xdd_lockstep_check_triggers`, which nothing calls.
* In `EndToEnd`: the set-up of sockets, several passes, ordering of writes, XNI instead of sockets.
* In `GfsData`: remote nodes and the IPC to them, several stripes and partial EOFs, listing, commands
  and checksums, access control that answers later, the watchdog, the reads and writes of a
  transfer, and the JSON log lines this repository adds to begin, abort and end of transfers.
* Heartbeat: reads counters and prints. OS I/O, data patterns, verification, memory
  allocation, parsing, display: pure I/O, data and layout. `public` and
  `client/lite`: wrappers. `bx`, `xni`, syncio and the start and stop triggers: below.
* The Globus Toolkit under `src/common`, `src/xio`, `src/gridftp` (but for the data half of the
  server), `src/gass`, `src/gram`, `src/gsi`, `src/myproxy`, `src/gsi_openssh` is upstream
  code carried along with small local changes (JSON log lines of transfers).

How much of the repository this is: of some 680,000 lines in 1,200 source files, xdd is
about 38,000, and most of those parse options, print and fill structures. The modelled parts are the
code in which threads, callbacks or processes decide something about each other; a model of a
large share of the whole would be a model of the Globus Toolkit, whose behaviour this
repository does not set, and of sequential parsing, security and job-management code without states
that a checker could tell apart.

## 6. Plan

Done: `WorkerPool`, `TaskDispatch`, `TotOrdering`, `PassCoordination`, `XddBarrier`, `Barrier`, `Lockstep`,
`EndToEnd` with the restart monitor, `GfsData`, and the proofs of section 4.

What is left, in order of how much it decides about the correctness of a run:

1. `GfsData` with remote nodes: the IPC between front end and back end, and the EOF counts of several
   stripes; the callback queue of `src/common` and the data channel library, now taken at
   their word, as modules of their own that `GfsData` relies on.
2. `XniBuffers`, `BufferQueue`: the buffer pools of `xni` and `bx`; syncio and triggers.
