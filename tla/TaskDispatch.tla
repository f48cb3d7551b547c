---------------------------- MODULE TaskDispatch ----------------------------
(***************************************************************************)
(* What a Target Thread promises its caller while it makes one pass over   *)
(* its operations with a pool of Worker Threads: operations are handed out *)
(* in ascending order, each one to one idle worker; a worker that has one  *)
(* keeps it until it is finished; and the pass is closed only when no      *)
(* worker still holds an operation, unless the run was canceled: then an   *)
(* operation may even be taken away from the worker that holds it.  How    *)
(* workers are found, released and waited for is not said here: WorkerPool *)
(* is the detailed specification that implements this one.                 *)
(***************************************************************************)
EXTENDS Integers

CONSTANTS Workers,   \* the Worker Threads of one target
          NumOps,    \* the operations in one pass
          Passes     \* planp->passes

VARIABLES nextOp,    \* the next operation to hand out in this pass
          holding,   \* the operation each worker holds, or Idle
          pass,      \* the pass number
          open,      \* a pass is under way
          canceled   \* the run was canceled

vars == <<nextOp, holding, pass, open, canceled>>

Idle == -1
Quiescent == \A w \in Workers : holding[w] = Idle

Init == /\ nextOp = 0
        /\ holding = [w \in Workers |-> Idle]
        /\ pass = 1
        /\ open = TRUE
        /\ canceled = FALSE

\* The next operation goes to a worker that holds none.
Issue(w) == /\ open
            /\ nextOp < NumOps
            /\ holding[w] = Idle
            /\ holding' = [holding EXCEPT ![w] = nextOp]
            /\ nextOp' = nextOp + 1
            /\ UNCHANGED <<pass, open, canceled>>

\* A worker is through with its operation, whatever came of it.
Finish(w) == /\ holding[w] # Idle
             /\ holding' = [holding EXCEPT ![w] = Idle]
             /\ UNCHANGED <<nextOp, pass, open, canceled>>

\* A canceled run that was left may take an operation away unperformed.
Drop(w) == /\ canceled /\ ~open
           /\ holding[w] # Idle
           /\ holding' = [holding EXCEPT ![w] = Idle]
           /\ UNCHANGED <<nextOp, pass, open, canceled>>

Cancel == /\ canceled' = TRUE
          /\ UNCHANGED <<nextOp, holding, pass, open>>

\* The pass is over: nothing is outstanding, or nobody waits for what is.
Close == /\ open
         /\ Quiescent \/ canceled
         /\ open' = FALSE
         /\ UNCHANGED <<nextOp, holding, pass, canceled>>

\* The next pass starts over with operation 0, with every worker idle.
Reopen == /\ ~open
          /\ Quiescent
          /\ pass < Passes
          /\ open' = TRUE
          /\ pass' = pass + 1
          /\ nextOp' = 0
          /\ UNCHANGED <<holding, canceled>>

Next == \/ \E w \in Workers : Issue(w) \/ Finish(w) \/ Drop(w)
        \/ Cancel \/ Close \/ Reopen

Spec == Init /\ [][Next]_vars
=============================================================================
