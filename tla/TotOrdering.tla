---------------------------- MODULE TotOrdering ----------------------------
(***************************************************************************)
(* Serial and loose ordering of a target's I/O operations through its      *)
(* Target Offset Table (-ordering storage serial | loose).  Before its I/O *)
(* an operation waits on the table entry of its predecessor if that entry  *)
(* is UNAVAILABLE, and marks it so; after its I/O (loose ordering: before  *)
(* it as well) an operation makes its own entry AVAILABLE and releases the *)
(* first Worker Thread in the entry's wait chain.  Operations share the    *)
(* TotEntries entries round robin; nothing keeps a slow worker's operation *)
(* from sharing its entries with one of the next lap.                      *)
(*                                                                         *)
(* Who gets which operation is taken from TaskDispatch: the next operation *)
(* goes to any idle worker.  The test, the marking and the enqueueing are  *)
(* done under the entry's mutex; the release of a waiter is done after the *)
(* mutex was given up (worker_thread_io.c:229), so its loads and stores    *)
(* are actions of their own.                                               *)
(***************************************************************************)
EXTENDS Integers, FiniteSets

CONSTANTS Workers,    \* the Worker Threads of the target
          NoWorker,   \* the null pointer of the wait chains
          NumOps,     \* td_target_ops, the operations in the pass
          Multiplier, \* DEFAULT_TOT_MULTIPLIER (20 in the source)
          Orderings,  \* the orderings to choose from: "serial", "loose"
          MayAbort    \* an I/O may fail with -stoponerror, or the run be canceled

ASSUME TotAssumption ==
  /\ IsFiniteSet(Workers) /\ Workers # {} /\ NoWorker \notin Workers
  /\ NumOps \in Nat \ {0} /\ Multiplier \in Nat \ {0}
  /\ Multiplier > 1 \/ Cardinality(Workers) > 1
  /\ Orderings \subseteq {"serial", "loose"} /\ MayAbort \in BOOLEAN

Ops == 0..NumOps-1
NoOp == -1
QueueDepth == Cardinality(Workers)

\* tot_init sizes the table by the queue depth and the number of operations.
TotEntries == IF QueueDepth > NumOps THEN QueueDepth
              ELSE IF NumOps \div QueueDepth > Multiplier * QueueDepth * 1000
                     THEN 30 * QueueDepth * Multiplier
                     ELSE QueueDepth * Multiplier
Entries == 0..TotEntries-1
Entry(n) == n % TotEntries

PreviousEntry(n) == IF n % TotEntries = 0 THEN TotEntries - 1 ELSE (n % TotEntries) - 1

VARIABLES
  ordering,  \* -ordering storage, as given for the target
  nextOp,    \* tc_current_op_number of the target
  aborted,   \* td_abort, xgp->canceled or xgp->abort
  pc, op,    \* where each worker is, and its task_op_number
  after,     \* where a worker goes when its release of the next is over
  totwp,     \* the waiter a releasing worker has read from the entry, or the
             \* one an enqueueing worker has come to in the chain (tmpwp)
  loaded,    \* the waiter's successor it has read
  status,    \* tot_status of each entry
  waitp,     \* tot_waitp of each entry
  mutex,     \* owner of each entry's tot_mutex
  nextp,     \* totw_nextp of each worker
  released,  \* totw_is_released of each worker
  over,      \* the operations whose I/O is over or was skipped (history)
  lapped,    \* an operation was handed out whose entry is still that of the
             \* predecessor of one under way (history)
  startled   \* the waits interrupted by a spurious wakeup (history)

wvars == <<pc, op, after, totwp, loaded>>
tot == <<status, waitp, mutex, nextp, released>>
history == <<lapped, startled>>
vars == <<ordering, nextOp, aborted, wvars, tot, over, history>>

Init ==
  /\ ordering \in Orderings /\ nextOp = 0 /\ aborted = FALSE /\ over = {}
  /\ lapped = FALSE /\ startled = [w \in Workers |-> FALSE]
  /\ pc = [w \in Workers |-> "idle"] /\ op = [w \in Workers |-> NoOp]
  /\ after = [w \in Workers |-> "idle"]
  /\ totwp = [w \in Workers |-> NoWorker] /\ loaded = [w \in Workers |-> NoWorker]
  /\ status = [e \in Entries |-> "AVAILABLE"]
  /\ waitp = [e \in Entries |-> NoWorker]
  /\ mutex = [e \in Entries |-> NoWorker]
  /\ nextp = [w \in Workers |-> NoWorker]
  /\ released = [w \in Workers |-> FALSE]

Goto(w, place) == pc' = [pc EXCEPT ![w] = place]

-----------------------------------------------------------------------------
Outstanding == {n \in Ops : \E w \in Workers : op[w] = n}

\* The operation about to be handed out has the entry of a predecessor of one
\* under way, or a later one's.
Laps == \E n \in Outstanding : nextOp - n >= TotEntries - 1

OpsLeftOneMore == nextOp <= NumOps  \* slip: off by one
OpsLeft == nextOp < NumOps

Assign(w) ==
  /\ pc[w] = "idle" /\ OpsLeft /\ ~aborted
  /\ op' = [op EXCEPT ![w] = nextOp]
  /\ nextOp' = nextOp + 1
  /\ Goto(w, "wait")
  /\ lapped' = (lapped \/ Laps)
  /\ UNCHANGED <<ordering, aborted, after, totwp, loaded, tot, over, startled>>

-----------------------------------------------------------------------------
(* xdd_worker_thread_wait_for_previous_io *)

NoPrevious(w) ==
  /\ pc[w] = "wait" /\ op[w] = 0
  /\ Goto(w, "check")
  /\ UNCHANGED <<ordering, nextOp, aborted, op, after, totwp, loaded, tot, over, history>>

PreviousAvailable(w) ==
  LET e == PreviousEntry(op[w]) IN
  /\ pc[w] = "wait" /\ op[w] # 0
  /\ mutex[e] = NoWorker /\ status[e] = "AVAILABLE"
  /\ status' = [status EXCEPT ![e] = "UNAVAILABLE"]
  /\ Goto(w, "check")
  /\ UNCHANGED <<ordering, nextOp, aborted, op, after, totwp, loaded, waitp, mutex, nextp,
                 released, over, history>>

Enqueue(w) ==
  LET e == PreviousEntry(op[w]) IN
  /\ pc[w] = "wait" /\ op[w] # 0
  /\ mutex[e] = NoWorker /\ status[e] = "UNAVAILABLE"
  /\ mutex' = [mutex EXCEPT ![e] = w]
  /\ IF waitp[e] = NoWorker
       THEN /\ waitp' = [waitp EXCEPT ![e] = w]
            /\ Goto(w, "test")
            /\ UNCHANGED totwp
       ELSE /\ totwp' = [totwp EXCEPT ![w] = waitp[e]]
            /\ Goto(w, "walk")
            /\ UNCHANGED waitp
  /\ UNCHANGED <<ordering, nextOp, aborted, op, after, loaded, status, nextp, released,
                 over, history>>

\* One step of the loop to the end of the chain, which others may take apart without
\* the mutex meanwhile, and there the worker links itself in.
Append(w) ==
  /\ pc[w] = "walk"
  /\ IF nextp[totwp[w]] # NoWorker
       THEN /\ totwp' = [totwp EXCEPT ![w] = nextp[totwp[w]]]
            /\ UNCHANGED <<pc, nextp>>
       ELSE /\ nextp' = [nextp EXCEPT ![totwp[w]] = w]
            /\ Goto(w, "test")
            /\ UNCHANGED totwp
  /\ UNCHANGED <<ordering, nextOp, aborted, op, after, loaded, status, waitp, mutex,
                 released, over, history>>

ResetsReleaseNot(w) == released     \* slip: the flag stays set
ResetsRelease(w) == [released EXCEPT ![w] = FALSE]

\* The loop around the condition wait, with the mutex held.
TestReleased(w) ==
  LET e == PreviousEntry(op[w]) IN
  /\ pc[w] = "test"
  /\ IF released[w]
       THEN /\ released' = ResetsRelease(w)
            /\ status' = [status EXCEPT ![e] = "UNAVAILABLE"]
            /\ mutex' = [mutex EXCEPT ![e] = NoWorker]
            /\ startled' = [startled EXCEPT ![w] = FALSE]
            /\ Goto(w, "check")
       ELSE /\ Goto(w, "block")
            /\ UNCHANGED <<released, status, mutex, startled>>
  /\ UNCHANGED <<ordering, nextOp, aborted, op, after, totwp, loaded, waitp, nextp, over,
                 lapped>>

\* The wait begins and the mutex is given up, in one step; a signal sent
\* before it is lost.
Block(w) ==
  /\ pc[w] = "block"
  /\ mutex' = [mutex EXCEPT ![PreviousEntry(op[w])] = NoWorker]
  /\ Goto(w, "asleep")
  /\ UNCHANGED <<ordering, nextOp, aborted, op, after, totwp, loaded, status, waitp, nextp,
                 released, over, history>>

Relock(w) ==
  LET e == PreviousEntry(op[w]) IN
  /\ pc[w] = "relock" /\ mutex[e] = NoWorker
  /\ mutex' = [mutex EXCEPT ![e] = w]
  /\ Goto(w, "test")
  /\ UNCHANGED <<ordering, nextOp, aborted, op, after, totwp, loaded, status, waitp, nextp,
                 released, over, history>>

\* A condition wait may return without a signal.
SpuriousWakeup(w) ==
  /\ pc[w] = "asleep"
  /\ startled' = [startled EXCEPT ![w] = TRUE]
  /\ Goto(w, "relock")
  /\ UNCHANGED <<ordering, nextOp, aborted, op, after, totwp, loaded, tot, over, lapped>>

-----------------------------------------------------------------------------
(* xdd_worker_thread_io *)

ReleasesEarlyAlways == TRUE         \* slip: serial ordering releases early too
ReleasesEarly == ordering = "loose"

SkippedGoesIdle == "idle"           \* slip: the next one is not released
SkippedGoesTo == "post"

\* A canceled operation is skipped, but the next one is released.
Check(w) ==
  /\ pc[w] = "check"
  /\ Goto(w, IF aborted THEN SkippedGoesTo ELSE IF ReleasesEarly THEN "post" ELSE "io")
  /\ after' = [after EXCEPT ![w] = IF aborted THEN "idle" ELSE "io"]
  /\ over' = IF aborted THEN over \cup {op[w]} ELSE over
  /\ UNCHANGED <<ordering, nextOp, aborted, op, totwp, loaded, tot, history>>

Io(w) ==
  /\ pc[w] = "io"
  /\ over' = over \cup {op[w]}
  /\ \E fails \in BOOLEAN : /\ fails => MayAbort
                           /\ aborted' = (aborted \/ fails)
  /\ after' = [after EXCEPT ![w] = "idle"]
  /\ Goto(w, "post")
  /\ UNCHANGED <<ordering, nextOp, op, totwp, loaded, tot, history>>

\* A reopen before an I/O fails, here or on another target, and cancels the run.
Cancel ==
  /\ MayAbort /\ ~aborted
  /\ aborted' = TRUE
  /\ UNCHANGED <<ordering, nextOp, wvars, tot, over, history>>

-----------------------------------------------------------------------------
(* xdd_worker_thread_release_next_io *)

Post(w) ==
  LET e == Entry(op[w]) IN
  /\ pc[w] = "post" /\ mutex[e] = NoWorker
  /\ status' = [status EXCEPT ![e] = "AVAILABLE"]
  /\ Goto(w, "read")
  /\ UNCHANGED <<ordering, nextOp, aborted, op, after, totwp, loaded, waitp, mutex, nextp,
                 released, over, history>>

\* The worker is through with its release.
Leave(w) ==
  /\ op' = IF after[w] = "idle" THEN [op EXCEPT ![w] = NoOp] ELSE op

\* Nobody waits, as far as this unlocked load can tell.
ReadNobody(w) ==
  /\ pc[w] = "read" /\ waitp[Entry(op[w])] = NoWorker
  /\ Goto(w, after[w])
  /\ Leave(w)
  /\ UNCHANGED <<ordering, nextOp, aborted, after, totwp, loaded, tot, over, history>>

ReadWaiter(w) ==
  /\ pc[w] = "read" /\ waitp[Entry(op[w])] # NoWorker
  /\ totwp' = [totwp EXCEPT ![w] = waitp[Entry(op[w])]]
  /\ Goto(w, "load")
  /\ UNCHANGED <<ordering, nextOp, aborted, op, after, loaded, tot, over, history>>

LoadNext(w) ==
  /\ pc[w] = "load"
  /\ loaded' = [loaded EXCEPT ![w] = nextp[totwp[w]]]
  /\ Goto(w, "store")
  /\ UNCHANGED <<ordering, nextOp, aborted, op, after, totwp, tot, over, history>>

StoreNext(w) ==
  /\ pc[w] = "store"
  /\ waitp' = [waitp EXCEPT ![Entry(op[w])] = loaded[w]]
  /\ Goto(w, "flag")
  /\ UNCHANGED <<ordering, nextOp, aborted, op, after, totwp, loaded, status, mutex, nextp,
                 released, over, history>>

FlagWaiter(w) ==
  /\ pc[w] = "flag"
  /\ released' = [released EXCEPT ![totwp[w]] = TRUE]
  /\ Goto(w, "signal")
  /\ UNCHANGED <<ordering, nextOp, aborted, op, after, totwp, loaded, status, waitp, mutex,
                 nextp, over, history>>

WakesNobody(v) == FALSE             \* slip: no signal is sent
Wakes(v) == pc[v] = "asleep"

SignalWaiter(w) ==
  LET v == totwp[w] IN
  /\ pc[w] = "signal"
  /\ nextp' = [nextp EXCEPT ![v] = NoWorker]
  /\ pc' = IF Wakes(v) THEN [pc EXCEPT ![w] = after[w], ![v] = "relock"]
                       ELSE [pc EXCEPT ![w] = after[w]]
  /\ Leave(w)
  /\ UNCHANGED <<ordering, nextOp, aborted, after, totwp, loaded, status, waitp, mutex,
                 released, over, history>>

-----------------------------------------------------------------------------
Step(w) == \/ NoPrevious(w) \/ PreviousAvailable(w) \/ Enqueue(w) \/ Append(w)
           \/ TestReleased(w) \/ Block(w) \/ Relock(w) \/ Check(w) \/ Io(w) \/ Post(w)
           \/ ReadNobody(w) \/ ReadWaiter(w) \/ LoadNext(w) \/ StoreNext(w)
           \/ FlagWaiter(w) \/ SignalWaiter(w)

\* The pass is over, and every worker is idle.
Finished == /\ nextOp = NumOps \/ aborted
            /\ \A w \in Workers : pc[w] = "idle"
            /\ UNCHANGED vars

Next == \/ \E w \in Workers : Assign(w) \/ Step(w) \/ SpuriousWakeup(w)
        \/ Cancel \/ Finished

Spec == Init /\ [][Next]_vars

\* Threads are scheduled fairly; a mutex free infinitely often is granted.
FairSpec == /\ Spec
            /\ WF_vars(\E w \in Workers : Assign(w))
            /\ \A w \in Workers : /\ WF_vars(Step(w))
                                  /\ SF_vars(PreviousAvailable(w) \/ Enqueue(w))
                                  /\ SF_vars(Relock(w)) /\ SF_vars(Post(w))
-----------------------------------------------------------------------------
(* Properties. *)

InWait(w) == pc[w] \in {"walk", "test", "block", "asleep", "relock"}

TypeOK ==
  /\ ordering \in Orderings /\ nextOp \in 0..NumOps /\ aborted \in BOOLEAN
  /\ over \subseteq Ops /\ lapped \in BOOLEAN
  /\ pc \in [Workers -> {"idle", "wait", "walk", "test", "block", "asleep", "relock",
                        "check", "io", "post", "read", "load", "store", "flag", "signal"}]
  /\ op \in [Workers -> Ops \cup {NoOp}] /\ after \in [Workers -> {"idle", "io"}]
  /\ totwp \in [Workers -> Workers \cup {NoWorker}]
  /\ loaded \in [Workers -> Workers \cup {NoWorker}]
  /\ status \in [Entries -> {"AVAILABLE", "UNAVAILABLE"}]
  /\ waitp \in [Entries -> Workers \cup {NoWorker}]
  /\ mutex \in [Entries -> Workers \cup {NoWorker}]
  /\ nextp \in [Workers -> Workers \cup {NoWorker}]
  /\ released \in [Workers -> BOOLEAN] /\ startled \in [Workers -> BOOLEAN]

\* A waiter can be forgotten only after a lap.  Until then, a worker that waits and is
\* not released is the first in its entry's chain, and the worker with the previous
\* operation has its release of that entry still ahead, or has just taken the waiter
\* out of the chain.
WaiterWillBeReleased ==
  lapped \/ \A w \in Workers : InWait(w) /\ ~released[w] =>
    \E v \in Workers :
      /\ op[v] = op[w] - 1
      /\ pc[v] \in {"load", "store"} => totwp[v] = w
      /\ \/ pc[v] \notin {"idle", "flag", "signal"} /\ waitp[PreviousEntry(op[w])] = w
         \/ pc[v] = "flag" /\ totwp[v] = w

\* A release is for one wait: until a lap, no worker enters a wait with the flag still
\* set by an earlier one, which would let its operation through at once.
ReleaseIsForOneWait ==
  lapped \/ \A w \in Workers : released[w] => InWait(w)

\* Nobody is linked behind another worker of a chain, where the unlocked release could
\* lose it, but after a lap.
AppendsOnlyAfterLap ==
  lapped \/ \A w \in Workers : pc[w] # "walk" /\ nextp[w] = NoWorker

\* With serial ordering, an operation that waited starts its I/O only when its
\* predecessor's I/O is over, unless there was a lap.
WaitedInOrder ==
  [][\A w \in Workers :
       ~lapped /\ ordering = "serial" /\ pc[w] = "test" /\ pc'[w] = "check"
         => op[w] - 1 \in over]_vars

\* Every worker gets through with its operation, unless there was a lap, or the
\* signal went to a worker a spurious wakeup had taken out of its wait: released, but
\* before the flag was set, it goes back to sleep and is not woken again.
EveryOpEnds ==
  \/ \A w \in Workers : []<>(pc[w] = "idle")
  \/ <>lapped
  \/ \E w \in Workers : <>[](pc[w] = "asleep" /\ released[w] /\ startled[w])
=============================================================================
