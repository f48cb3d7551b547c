------------------------------ MODULE Lockstep ------------------------------
(***************************************************************************)
(* Targets in lockstep: -lockstep master slave ... links targets into a    *)
(* ring.  One target at a time performs an interval of its operations,     *)
(* waits until its Worker Threads are through with them, and hands the     *)
(* turn to the next target of the ring that has not completed its pass, in *)
(* the two-party barrier where that target waits for its turn.             *)
(*                                                                         *)
(* The pass starts and ends with barriers of all targets.  A worker's      *)
(* return to idleness, and its count in td_any_worker_thread_available,    *)
(* are one step here, see WorkerPool.                                      *)
(***************************************************************************)
EXTENDS Integers

CONSTANTS NumTargets, QueueDepth, Passes,
          Options,      \* the pairs <<master, slave>> an option may name
          MaxOps,       \* bound: operations of a target in one pass
          MaxInterval,  \* bound: operations of a target in one turn
          MayHalt       \* the run, or one of its targets, may be told to stop

ASSUME LockstepAssumption ==
  /\ NumTargets \in Nat \ {0} /\ QueueDepth \in Nat \ {0} /\ Passes \in Nat \ {0}
  /\ Options \subseteq (1..NumTargets) \X (1..NumTargets)
  /\ MaxOps \in Nat \ {0} /\ MaxInterval \in Nat \ {0} /\ MayHalt \in BOOLEAN

Targets == 1..NumTargets
Null == 0

VARIABLES
  next,      \* ls_next_tdp, of the targets in lockstep; else Null
  first,     \* the targets with LS_STATE_I_AM_THE_FIRST
  stop,      \* the targets with LS_STATE_END_STOP
  ops,       \* td_target_ops of each target
  interval,  \* ls_interval_value of each target
  halted,    \* the run is canceled, aborted, or its time is over
  expired,   \* the targets that stop this pass: td_time_limit_expired, td_abort
  pass,      \* the pass the run is in
  pc,        \* where each target is: "parse", "clear", "wait" in its own barrier,
             \* "issue", "drain", "look", "give" in another's,
             \* "final", "over", "done"
  todo,      \* ops_remaining
  turn,      \* what is left of ops_this_interval
  complete,  \* LS_STATE_PASS_COMPLETE
  look,      \* next_lsp
  some,      \* the status: somebody has completed the pass
  running,   \* the Worker Threads with a task
  available, \* td_any_worker_thread_available
  turns      \* how often each target had its turn in this pass (history)

ring == <<next, first, stop, ops, interval>>
local == <<todo, turn, complete, look, some>>
pool == <<running, available>>
halts == <<halted, expired>>
vars == <<ring, halts, pass, pc, local, pool, turns>>

Members == {t \in Targets : next[t] # Null}
Goto(t, place) == pc' = [pc EXCEPT ![t] = place]
AllAt(place) == \A t \in Targets : pc[t] = place
Second(a, b) == b                     \* slip: a short last interval
Lower(a, b) == IF a < b THEN a ELSE b

Init ==
  /\ next = [t \in Targets |-> Null] /\ first = {} /\ stop = {}
  /\ ops \in [Targets -> 1..MaxOps] /\ interval \in [Targets -> 1..MaxInterval]
  /\ halted = FALSE /\ expired = {} /\ pass = 1
  /\ pc = [t \in Targets |-> "parse"]
  /\ todo = [t \in Targets |-> 0] /\ turn = [t \in Targets |-> 0]
  /\ complete = [t \in Targets |-> FALSE]
  /\ look = [t \in Targets |-> Null] /\ some = [t \in Targets |-> FALSE]
  /\ running = [t \in Targets |-> 0]
  /\ available = [t \in Targets |-> QueueDepth]
  /\ turns = [t \in Targets |-> 0]

-----------------------------------------------------------------------------
(* xddfunc_lockstep: the slave goes into the ring behind the master.  Only  *)
(* the first master is to be first, and a slave is not.  Bound: an option   *)
(* links a new target to the ring that is already there; with other options *)
(* several rings, or a ring without a first target, would come about.       *)

NotFirst(s) == {}

Behind(m) == IF next[m] # Null THEN next[m] ELSE m

Option(m, s, ends) ==
  /\ AllAt("parse") /\ <<m, s>> \in Options /\ m # s
  /\ Members = {} \/ m \in Members
  /\ s \notin Members
  /\ next' = [next EXCEPT ![s] = Behind(m), ![m] = s]
  /\ first' = ((IF Members = {} THEN {m} ELSE first) \ {s}) \cup NotFirst(s)
  /\ stop' = IF ends = "stop" THEN stop \cup {m, s} ELSE stop
  /\ UNCHANGED <<ops, interval, halts, pass, pc, local, pool, turns>>

-----------------------------------------------------------------------------
(* xdd_target_pass, as far as lockstep is concerned *)

\* All targets have entered the barrier at the start of the pass.
PassStarts ==
  /\ AllAt("parse") \/ (AllAt("over") /\ pass < Passes /\ ~halted)
  /\ pc' = [t \in Targets |-> "clear"]
  /\ pass' = IF AllAt("over") THEN pass + 1 ELSE pass
  /\ turns' = [t \in Targets |-> 0]
  /\ expired' = {}
  /\ UNCHANGED <<ring, halted, local, pool>>

RunEnds ==
  /\ AllAt("over") /\ (pass = Passes \/ halted)
  /\ pc' = [t \in Targets |-> "done"]
  /\ UNCHANGED <<ring, halts, pass, local, pool, turns>>

\* The next interval: ops_this_interval.
TakesTurn(t) ==
  /\ turn' = [turn EXCEPT ![t] = Lower(todo'[t], interval[t])]
  /\ turns' = [turns EXCEPT ![t] = @ + 1]

\* xdd_lockstep_before_pass, and the first lines of xdd_lockstep.
Clear(t) ==
  /\ pc[t] = "clear"
  /\ complete' = [complete EXCEPT ![t] = FALSE]
  /\ todo' = [todo EXCEPT ![t] = ops[t]]
  /\ IF t \in first THEN TakesTurn(t) ELSE UNCHANGED <<turn, turns>>
  /\ Goto(t, IF t \notin Members THEN "over" ELSE IF t \in first THEN "issue" ELSE "wait")
  /\ UNCHANGED <<ring, halts, pass, look, some, pool>>

-----------------------------------------------------------------------------
(* xdd_lockstep: one turn *)

\* A worker is located and given the next operation; when the run is halted or the
\* target has to stop the worker is given back, but not the count that was spent
\* for it.  A target is told to stop at any time, and looks here only.
Stops(t) == halted \/ t \in expired \/ MayHalt

Issue(t) ==
  /\ pc[t] = "issue" /\ turn[t] > 0 /\ available[t] > 0
  /\ available' = [available EXCEPT ![t] = @ - 1]
  /\ \/ /\ running[t] = QueueDepth     \* nobody is idle, the locator tries again
        /\ UNCHANGED <<expired, pc, todo, turn, running>>
     \/ /\ running[t] < QueueDepth /\ ~halted /\ t \notin expired
        /\ running' = [running EXCEPT ![t] = @ + 1]
        /\ todo' = [todo EXCEPT ![t] = @ - 1]
        /\ turn' = [turn EXCEPT ![t] = @ - 1]
        /\ UNCHANGED <<expired, pc>>
     \/ /\ running[t] < QueueDepth /\ Stops(t)
        /\ expired' = IF halted THEN expired ELSE expired \cup {t}
        /\ Goto(t, "drain")
        /\ UNCHANGED <<todo, turn, running>>
  /\ UNCHANGED <<ring, halted, pass, complete, look, some, turns>>

Issued(t) ==
  /\ pc[t] = "issue" /\ turn[t] = 0
  /\ Goto(t, "drain")
  /\ UNCHANGED <<ring, halts, pass, local, pool, turns>>

WorkerEnds(t) ==
  /\ running[t] > 0
  /\ running' = [running EXCEPT ![t] = @ - 1]
  /\ available' = [available EXCEPT ![t] = @ + 1]
  /\ UNCHANGED <<ring, halts, pass, pc, local, turns>>

WaitsForNobody(t) == TRUE             \* slip: the turn ends with I/O under way
AllIdle(t) == running[t] = 0

NextButOne(t) == next[next[t]]        \* slip: one of the ring is left out
NextOf(t) == next[t]

\* Every worker is idle again.
Drain(t) ==
  /\ pc[t] = "drain" /\ AllIdle(t)
  /\ complete' = [complete EXCEPT ![t] = @ \/ todo[t] = 0]
  /\ look' = [look EXCEPT ![t] = NextOf(t)]
  /\ some' = [some EXCEPT ![t] = FALSE]
  /\ Goto(t, "look")
  /\ UNCHANGED <<ring, halts, pass, todo, turn, pool, turns>>

SkipsNobody(t) == FALSE               \* slip: the turn goes to the next, done or not
Skips(t) == complete[look[t]]

\* The flag of one target of the ring is read.
LookOn(t) ==
  /\ pc[t] = "look" /\ look[t] # t /\ Skips(t)
  /\ some' = [some EXCEPT ![t] = TRUE]
  /\ look' = [look EXCEPT ![t] = next[look[t]]]
  /\ UNCHANGED <<ring, halts, pass, pc, todo, turn, complete, pool, turns>>

\* Nobody else is left, or somebody to hand the turn to is found; with "stop"
\* the target pretends to be done when it has met one that is.
Found(t) ==
  /\ pc[t] = "look" /\ (look[t] = t \/ ~Skips(t))
  /\ LET stops == some[t] /\ t \in stop IN
     /\ todo' = [todo EXCEPT ![t] = IF stops THEN 0 ELSE @]
     /\ complete' = [complete EXCEPT ![t] = @ \/ stops]
     /\ IF look[t] # t THEN Goto(t, "give") /\ UNCHANGED <<turn, turns>>
        ELSE IF todo'[t] = 0 THEN Goto(t, "final") /\ UNCHANGED <<turn, turns>>
        ELSE Goto(t, "issue") /\ TakesTurn(t)
  /\ UNCHANGED <<ring, halts, pass, look, some, pool>>

WaitsAlways(t) == "wait"              \* slip: a completed target waits for a turn
Leaves(t) == IF complete[t] THEN "final" ELSE "wait"

Barrier(t) == IF pc[t] = "give" THEN look[t] ELSE t

\* Two targets are in the same barrier: who gave its turn away leaves for its own
\* barrier unless its pass is complete, who waited has the turn.
Meet(t, u) ==
  /\ t # u /\ pc[t] = "give" /\ pc[u] \in {"give", "wait"} /\ Barrier(t) = Barrier(u)
  /\ LET After(v) == IF pc[v] = "wait" THEN "issue" ELSE Leaves(v)
     IN pc' = [pc EXCEPT ![t] = After(t), ![u] = After(u)]
  /\ UNCHANGED todo
  /\ IF pc[u] = "wait" THEN TakesTurn(u) ELSE UNCHANGED <<turn, turns>>
  /\ UNCHANGED <<ring, halts, pass, complete, look, some, pool>>

\* xdd_target_pass_loop after xdd_lockstep: another wait for every worker, which
\* counts each once more; a canceled run does without.
Final(t) ==
  /\ pc[t] = "final" /\ running[t] = 0
  /\ available' = [available EXCEPT ![t] = IF halted THEN @ ELSE @ + QueueDepth]
  /\ Goto(t, "over")
  /\ UNCHANGED <<ring, halts, pass, local, running, turns>>

Halt ==
  /\ MayHalt /\ ~halted /\ ~AllAt("parse") /\ ~AllAt("done")
  /\ halted' = TRUE
  /\ UNCHANGED <<ring, expired, pass, pc, local, pool, turns>>

-----------------------------------------------------------------------------
Finished == AllAt("done") /\ UNCHANGED vars

Target(t) == Clear(t) \/ Issue(t) \/ Issued(t) \/ Drain(t) \/ LookOn(t) \/ Found(t) \/ Final(t)
Run == PassStarts \/ RunEnds
Handover == \E t, u \in Targets : Meet(t, u)

Next == \/ \E m, s \in Targets, ends \in {"complete", "stop"} : Option(m, s, ends)
        \/ Run \/ Handover \/ Halt \/ Finished
        \/ \E t \in Targets : Target(t) \/ WorkerEnds(t)

Spec == Init /\ [][Next]_vars

\* Threads are scheduled fairly and an I/O comes to an end.
FairSpec == /\ Spec /\ WF_vars(Run) /\ WF_vars(Handover)
            /\ \A t \in Targets : WF_vars(Target(t)) /\ WF_vars(WorkerEnds(t))
-----------------------------------------------------------------------------
(* Properties. *)

TypeOK ==
  /\ next \in [Targets -> Targets \cup {Null}] /\ first \subseteq Targets /\ stop \subseteq Targets
  /\ ops \in [Targets -> 1..MaxOps] /\ interval \in [Targets -> 1..MaxInterval]
  /\ halted \in BOOLEAN /\ expired \subseteq Targets /\ pass \in 1..Passes
  /\ pc \in [Targets -> {"parse", "clear", "wait", "issue", "drain", "look", "give",
                         "final", "over", "done"}]
  /\ todo \in [Targets -> 0..MaxOps] /\ turn \in [Targets -> 0..MaxInterval]
  /\ complete \in [Targets -> BOOLEAN] /\ some \in [Targets -> BOOLEAN]
  /\ look \in [Targets -> Targets \cup {Null}]
  /\ running \in [Targets -> 0..QueueDepth]
  /\ available \in [Targets -> Nat] /\ turns \in [Targets -> Nat]

\* Who has the turn, or is about to take the first.
HasTurn(t) == \/ pc[t] \in {"issue", "drain", "look", "give"}
              \/ t \in first /\ pc[t] \in {"parse", "clear"}

\* Never two targets at a time: the I/O operations of two targets in lockstep never
\* overlap, and only the target that has the turn has any.
OneTurn ==
  /\ \A t, u \in Members : HasTurn(t) /\ HasTurn(u) => t = u
  /\ \A t \in Targets : running[t] > 0 => pc[t] \in {"issue", "drain"}

\* The turn is handed to a target that waits for it or will: never to one that has
\* left its pass, which would not come to the barrier.
GivenToTheLiving ==
  \A t \in Targets : pc[t] = "give" => pc[look[t]] \in {"clear", "wait"}

\* The turns alternate: no target gets two turns ahead of another one that
\* still has operations to do.
NobodyRunsAhead ==
  \A t, u \in Members : pc[u] \in {"wait", "issue", "drain", "look"} /\ ~complete[u]
                         => turns[t] <= turns[u] + 1

\* Every target gets through with its pass, whether it stops with the others or not,
\* unless the run is halted or a target told to stop.
EveryPassEnds == <>(halted \/ expired # {} \/ AllAt("done"))
=============================================================================
