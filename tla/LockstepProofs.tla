--------------------------- MODULE LockstepProofs ---------------------------
(***************************************************************************)
(* For any number of targets, operations, intervals and passes: targets in *)
(* lockstep have one turn between them, and the turn is handed only to a   *)
(* target that is there to take it; in the first pass the turns go round.  *)
(***************************************************************************)
EXTENDS Lockstep, TLAPS

\* All targets are in the same phase of the run.
Phases == /\ \A t, u \in Targets : pc[t] = "parse" => pc[u] = "parse"
          /\ \A t, u \in Targets : pc[t] = "done" => pc[u] = "done"

\* The ring is closed, and one of its targets is first.
Linked == /\ \A t \in Members : next[t] \in Members
          /\ first \subseteq Members
          /\ \A t, u \in first : t = u
          /\ \A t \in Targets : t \notin Members => pc[t] \in {"parse", "clear", "over", "done"}

\* What is handed out is there to be done.
Left == \A t \in Targets : pc[t] = "issue" => turn[t] <= todo[t]

\* A target that is through has said so.
Said == \A t \in Members : /\ pc[t] \in {"final", "over"} => complete[t]
                           /\ pc[t] = "look" /\ todo[t] = 0 => complete[t]

\* Who looks for a successor is at a target of the ring; who gives its turn away has
\* found another one that has not completed its pass.
Looks == \A t \in Members :
           /\ pc[t] \in {"look", "give"} => look[t] \in Members
           /\ pc[t] = "give" => /\ look[t] # t /\ ~complete[look[t]]
                                /\ pc[look[t]] \in {"clear", "wait"}

IInv == TypeOK /\ Phases /\ Linked /\ Left /\ Said /\ Looks /\ OneTurn

\* What the proofs use of the constants.
LEMMA Constants ==
  /\ NumTargets \in Nat \ {0} /\ QueueDepth \in Nat \ {0} /\ Passes \in Nat \ {0}
  /\ MaxOps \in Nat \ {0} /\ MaxInterval \in Nat \ {0}
BY LockstepAssumption DEF LockstepAssumption

\* Initially there is no ring.
LEMMA InitIInv == Init => IInv
<1> SUFFICES ASSUME Init PROVE IInv OBVIOUS
<1> USE Constants DEF Init, Members
<1>1. TypeOK
  <2>1. /\ next \in [Targets -> Targets \cup {Null}] /\ first \subseteq Targets /\ stop \subseteq Targets
        /\ ops \in [Targets -> 1..MaxOps] /\ interval \in [Targets -> 1..MaxInterval]
        /\ halted \in BOOLEAN /\ expired \subseteq Targets
    OBVIOUS
  <2>2. /\ todo \in [Targets -> 0..MaxOps] /\ turn \in [Targets -> 0..MaxInterval]
        /\ complete \in [Targets -> BOOLEAN] /\ some \in [Targets -> BOOLEAN]
        /\ look \in [Targets -> Targets \cup {Null}]
    OBVIOUS
  <2>3. /\ running \in [Targets -> 0..QueueDepth]
        /\ available \in [Targets -> Nat] /\ turns \in [Targets -> Nat]
    OBVIOUS
  <2>4. pass \in 1..Passes
    OBVIOUS
  <2>5. pc \in [Targets -> {"parse", "clear", "wait", "issue", "drain", "look", "give",
                           "final", "over", "done"}]
    OBVIOUS
  <2> QED BY <2>1, <2>2, <2>3, <2>4, <2>5 DEF TypeOK
<1>2. Members = {} OBVIOUS
<1>3. Phases /\ Linked /\ Left BY <1>2 DEF Phases, Linked, Left
<1>4. Said /\ Looks /\ OneTurn BY <1>2 DEF Said, Looks, OneTurn
<1> QED BY <1>1, <1>3, <1>4 DEF IInv

\* The slots of the next-state relation, for a proof by cases.
LEMMA NextCases ==
  ASSUME [Next]_vars, NEW P,
         \A m, s \in Targets, ends \in {"complete", "stop"} : Option(m, s, ends) => P,
         PassStarts => P, RunEnds => P, Halt => P, UNCHANGED vars => P,
         \A t \in Targets : Clear(t) \/ Issue(t) \/ Issued(t) \/ WorkerEnds(t) => P,
         \A t \in Targets : Drain(t) \/ LookOn(t) \/ Found(t) \/ Final(t) => P,
         \A t, u \in Targets : Meet(t, u) => P
  PROVE  P
BY DEF Next, Run, Handover, Target, Finished

\* Every step keeps the types.
LEMMA TypeStep == IInv /\ [Next]_vars => TypeOK'
<1> SUFFICES ASSUME IInv, [Next]_vars PROVE TypeOK' OBVIOUS
<1> USE Constants DEF IInv, TypeOK, Goto, Lower,
        ring, halts, local, pool
<1>1. ASSUME NEW m \in Targets, NEW s \in Targets, NEW ends \in {"complete", "stop"},
             Option(m, s, ends)
      PROVE  TypeOK'
  <2>1. Behind(m) \in Targets \cup {Null} BY DEF Behind
  <2> QED BY <1>1, <2>1 DEF Option, NotFirst
<1>2. CASE PassStarts
  <2>1. 1 \in Targets BY DEF Targets
  <2>2. pass' \in 1..Passes
    BY <1>2, <2>1 DEF PassStarts, AllAt
  <2> QED BY <1>2, <2>2 DEF PassStarts
<1>3. CASE RunEnds BY <1>3 DEF RunEnds
<1>4. CASE Halt BY <1>4 DEF Halt
<1>5. CASE UNCHANGED vars BY <1>5 DEF vars
<1>6. ASSUME NEW t \in Targets, Clear(t) PROVE TypeOK' BY <1>6 DEF Clear, TakesTurn
<1>7. ASSUME NEW t \in Targets, Issue(t) PROVE TypeOK' BY <1>7 DEF Issue, Left
<1>8. ASSUME NEW t \in Targets, Issued(t) PROVE TypeOK' BY <1>8 DEF Issued
<1>9. ASSUME NEW t \in Targets, WorkerEnds(t) PROVE TypeOK' BY <1>9 DEF WorkerEnds
<1>10. ASSUME NEW t \in Targets, Drain(t) PROVE TypeOK' BY <1>10 DEF Drain, NextOf
<1>11. ASSUME NEW t \in Targets, LookOn(t) PROVE TypeOK'
  <2>1. look[t] \in Targets
    BY <1>11 DEF LookOn, Looks, Members, Linked
  <2> QED BY <1>11, <2>1 DEF LookOn
<1>12. ASSUME NEW t \in Targets, Found(t) PROVE TypeOK' BY <1>12 DEF Found, TakesTurn
<1>13. ASSUME NEW t \in Targets, Final(t) PROVE TypeOK' BY <1>13 DEF Final
<1>14. ASSUME NEW t \in Targets, NEW u \in Targets, Meet(t, u) PROVE TypeOK'
  BY <1>14 DEF Meet, TakesTurn, Leaves
<1> HIDE DEF IInv, TypeOK
<1> QED BY NextCases, <1>1, <1>2, <1>3, <1>4, <1>5, <1>6, <1>7, <1>8, <1>9, <1>10, <1>11,
           <1>12, <1>13, <1>14

\* Every step keeps the inductive invariant.
LEMMA InvStep == IInv /\ [Next]_vars => IInv'
<1> SUFFICES ASSUME IInv, [Next]_vars PROVE (Phases /\ Linked /\ Left /\ Said /\ Looks /\ OneTurn)'
  BY TypeStep DEF IInv
<1> DEFINE Goal == (Phases /\ Linked /\ Left /\ Said /\ Looks /\ OneTurn)'
<1> USE Constants DEF IInv, TypeOK, Goto, ring, halts, local, pool
<1>1. ASSUME NEW m \in Targets, NEW s \in Targets, NEW ends \in {"complete", "stop"},
             Option(m, s, ends)
      PROVE  Goal
  <2>1. /\ \A t \in Targets : pc[t] = "parse"
        /\ Behind(m) # Null /\ m # Null /\ s # Null /\ m # s
        /\ Behind(m) \in Members \cup {m} /\ Members' = Members \cup {m, s}
        /\ next' = [next EXCEPT ![s] = Behind(m), ![m] = s]
    <3>1. m # Null /\ s # Null BY DEF Targets, Null
    <3>2. next' = [next EXCEPT ![s] = Behind(m), ![m] = s] /\ m # s BY <1>1 DEF Option
    <3>3. Behind(m) # Null /\ Behind(m) \in Members \cup {m}
      BY <3>1 DEF Behind, Members, Linked
    <3>4. Members' = Members \cup {m, s}
      BY <3>1, <3>2, <3>3 DEF Members
    <3> QED BY <1>1, <3>1, <3>2, <3>3, <3>4 DEF Option, AllAt
  <2>20. Phases'
    BY <1>1, <2>1 DEF Option, NotFirst, Phases
  <2>21. Linked'
    BY <1>1, <2>1 DEF Option, NotFirst, Linked, Members
  <2>22. Left'
    BY <1>1, <2>1 DEF Option, NotFirst, Left
  <2>23. Said'
    BY <1>1, <2>1 DEF Option, NotFirst, Said, Members
  <2>24. Looks'
    BY <1>1, <2>1 DEF Option, NotFirst, Looks, Members
  <2>25. OneTurn'
    BY <1>1, <2>1, <2>21 DEF Option, NotFirst, OneTurn, HasTurn, Members, Linked
  <2> QED BY <2>20, <2>21, <2>22, <2>23, <2>24, <2>25
<1>2. CASE PassStarts
  <2>1. 1 \in Targets BY DEF Targets
  <2>20. Phases'
    BY <1>2, <2>1 DEF PassStarts, AllAt, Phases
  <2>21. Linked'
    BY <1>2, <2>1 DEF PassStarts, AllAt, Linked, Members
  <2>22. Left'
    BY <1>2, <2>1 DEF PassStarts, AllAt, Left
  <2>23. Said'
    BY <1>2, <2>1 DEF PassStarts, AllAt, Said, Members
  <2>24. Looks'
    BY <1>2, <2>1 DEF PassStarts, AllAt, Looks, Members
  <2>25. OneTurn'
    BY <1>2, <2>1 DEF PassStarts, AllAt, OneTurn, HasTurn, Members, Linked
  <2> QED BY <2>20, <2>21, <2>22, <2>23, <2>24, <2>25
<1>3. CASE RunEnds
  <2>20. Phases'
    BY <1>3 DEF RunEnds, AllAt, Phases
  <2>21. Linked'
    BY <1>3 DEF RunEnds, AllAt, Linked, Members
  <2>22. Left'
    BY <1>3 DEF RunEnds, AllAt, Left
  <2>23. Said'
    BY <1>3 DEF RunEnds, AllAt, Said, Members
  <2>24. Looks'
    BY <1>3 DEF RunEnds, AllAt, Looks, Members
  <2>25. OneTurn'
    BY <1>3 DEF RunEnds, AllAt, OneTurn, HasTurn, Members
  <2> QED BY <2>20, <2>21, <2>22, <2>23, <2>24, <2>25
<1>4. CASE Halt
  <2>20. Phases'
    BY <1>4 DEF Halt, Phases
  <2>21. Linked'
    BY <1>4 DEF Halt, Linked, Members
  <2>22. Left'
    BY <1>4 DEF Halt, Left
  <2>23. Said'
    BY <1>4 DEF Halt, Said, Members
  <2>24. Looks'
    BY <1>4 DEF Halt, Looks, Members
  <2>25. OneTurn'
    BY <1>4 DEF Halt, OneTurn, HasTurn, Members
  <2> QED BY <2>20, <2>21, <2>22, <2>23, <2>24, <2>25
<1>5. CASE UNCHANGED vars
  <2>20. Phases'
    BY <1>5 DEF vars, Phases
  <2>21. Linked'
    BY <1>5 DEF vars, Linked, Members
  <2>22. Left'
    BY <1>5 DEF vars, Left
  <2>23. Said'
    BY <1>5 DEF vars, Said, Members
  <2>24. Looks'
    BY <1>5 DEF vars, Looks, Members
  <2>25. OneTurn'
    BY <1>5 DEF vars, OneTurn, HasTurn, Members
  <2> QED BY <2>20, <2>21, <2>22, <2>23, <2>24, <2>25
<1>6. ASSUME NEW t \in Targets, Clear(t) PROVE  Goal
  <2>20. Phases'
    BY <1>6 DEF Clear, TakesTurn, Phases
  <2>21. Linked'
    BY <1>6 DEF Clear, TakesTurn, Linked, Members
  <2>22. Left'
    BY <1>6 DEF Clear, TakesTurn, Left, Lower
  <2>23. Said'
    BY <1>6 DEF Clear, TakesTurn, Said, Members
  <2>24. Looks'
    BY <1>6 DEF Clear, TakesTurn, Looks, Members, OneTurn, HasTurn, Linked
  <2>25. OneTurn'
    BY <1>6 DEF Clear, TakesTurn, OneTurn, HasTurn, Members, Linked
  <2> QED BY <2>20, <2>21, <2>22, <2>23, <2>24, <2>25
<1>7. ASSUME NEW t \in Targets, Issue(t) PROVE  Goal
  <2>20. Phases'
    BY <1>7 DEF Issue, Phases
  <2>21. Linked'
    BY <1>7 DEF Issue, Linked, Members
  <2>22. Left'
    BY <1>7 DEF Issue, Left
  <2>23. Said'
    BY <1>7 DEF Issue, Said, Members
  <2>24. Looks'
    BY <1>7 DEF Issue, Looks, Members
  <2>25. OneTurn'
    BY <1>7 DEF Issue, OneTurn, HasTurn, Members
  <2> QED BY <2>20, <2>21, <2>22, <2>23, <2>24, <2>25
<1>8. ASSUME NEW t \in Targets, Issued(t) PROVE  Goal
  <2>20. Phases'
    BY <1>8 DEF Issued, Phases
  <2>21. Linked'
    BY <1>8 DEF Issued, Linked, Members
  <2>22. Left'
    BY <1>8 DEF Issued, Left
  <2>23. Said'
    BY <1>8 DEF Issued, Said, Members
  <2>24. Looks'
    BY <1>8 DEF Issued, Looks, Members
  <2>25. OneTurn'
    BY <1>8 DEF Issued, OneTurn, HasTurn, Members
  <2> QED BY <2>20, <2>21, <2>22, <2>23, <2>24, <2>25
<1>9. ASSUME NEW t \in Targets, WorkerEnds(t) PROVE  Goal
  <2>20. Phases'
    BY <1>9 DEF WorkerEnds, Phases
  <2>21. Linked'
    BY <1>9 DEF WorkerEnds, Linked, Members
  <2>22. Left'
    BY <1>9 DEF WorkerEnds, Left
  <2>23. Said'
    BY <1>9 DEF WorkerEnds, Said, Members
  <2>24. Looks'
    BY <1>9 DEF WorkerEnds, Looks, Members
  <2>25. OneTurn'
    BY <1>9 DEF WorkerEnds, OneTurn, HasTurn, Members
  <2> QED BY <2>20, <2>21, <2>22, <2>23, <2>24, <2>25
<1>10. ASSUME NEW t \in Targets, Drain(t) PROVE  Goal
  <2>20. Phases'
    BY <1>10 DEF Drain, AllIdle, NextOf, Phases
  <2>21. Linked'
    BY <1>10 DEF Drain, AllIdle, NextOf, Linked, Members
  <2>22. Left'
    BY <1>10 DEF Drain, AllIdle, NextOf, Left
  <2>23. Said'
    BY <1>10 DEF Drain, AllIdle, NextOf, Said, Members
  <2>24. Looks'
    BY <1>10 DEF Drain, AllIdle, NextOf, Looks, Members, Linked, OneTurn, HasTurn
  <2>25. OneTurn'
    BY <1>10 DEF Drain, AllIdle, NextOf, OneTurn, HasTurn, Members
  <2> QED BY <2>20, <2>21, <2>22, <2>23, <2>24, <2>25
<1>11. ASSUME NEW t \in Targets, LookOn(t) PROVE  Goal
  <2>20. Phases'
    BY <1>11 DEF LookOn, Skips, Phases
  <2>21. Linked'
    BY <1>11 DEF LookOn, Skips, Linked, Members
  <2>22. Left'
    BY <1>11 DEF LookOn, Skips, Left
  <2>23. Said'
    BY <1>11 DEF LookOn, Skips, Said, Members
  <2>24. Looks'
    BY <1>11 DEF LookOn, Skips, Looks, Members, Linked
  <2>25. OneTurn'
    BY <1>11 DEF LookOn, Skips, OneTurn, HasTurn, Members
  <2> QED BY <2>20, <2>21, <2>22, <2>23, <2>24, <2>25
<1>12. ASSUME NEW t \in Targets, Found(t) PROVE  Goal
  <2>1. /\ t \in Members /\ look[t] \in Members
        /\ look[t] # t /\ ~Skips(t) => ~complete[look[t]] /\ pc[look[t]] \in {"clear", "wait"}
    <3>1. t \in Members BY <1>12 DEF Found, Linked
    <3>2. look[t] \in Members BY <1>12, <3>1 DEF Found, Looks
    <3>3. ASSUME look[t] # t, ~complete[look[t]]
          PROVE  pc[look[t]] \in {"clear", "wait"}
      <4>1. pc[look[t]] \notin {"issue", "drain", "look", "give"}
        BY <1>12, <3>1, <3>2, <3>3 DEF Found, OneTurn, HasTurn
      <4>2. pc[look[t]] \notin {"final", "over"} BY <3>2, <3>3 DEF Said
      <4>3. pc[look[t]] \notin {"parse", "done"} BY <1>12, <3>2 DEF Found, Phases, Members
      <4> QED BY <3>2, <4>1, <4>2, <4>3 DEF Members
    <3> QED BY <3>1, <3>2, <3>3 DEF Skips
  <2>20. Phases'
    BY <1>12, <2>1 DEF Found, Skips, TakesTurn, Phases
  <2>21. Linked'
    BY <1>12, <2>1 DEF Found, Skips, TakesTurn, Linked, Members
  <2>22. Left'
    BY <1>12, <2>1 DEF Found, Skips, TakesTurn, Left, Lower
  <2>23. Said'
    BY <1>12, <2>1 DEF Found, Skips, TakesTurn, Said, Members
  <2>24. Looks'
    BY <1>12, <2>1 DEF Found, Skips, TakesTurn, Looks, Members, OneTurn, HasTurn
  <2>25. OneTurn'
    BY <1>12, <2>1 DEF Found, Skips, TakesTurn, OneTurn, HasTurn, Members
  <2> QED BY <2>20, <2>21, <2>22, <2>23, <2>24, <2>25
<1>13. ASSUME NEW t \in Targets, Final(t) PROVE  Goal
  <2>20. Phases'
    BY <1>13 DEF Final, Phases
  <2>21. Linked'
    BY <1>13 DEF Final, Linked, Members
  <2>22. Left'
    BY <1>13 DEF Final, Left
  <2>23. Said'
    BY <1>13 DEF Final, Said, Members
  <2>24. Looks'
    BY <1>13 DEF Final, Looks, Members
  <2>25. OneTurn'
    BY <1>13 DEF Final, OneTurn, HasTurn, Members
  <2> QED BY <2>20, <2>21, <2>22, <2>23, <2>24, <2>25
<1>14. ASSUME NEW t \in Targets, NEW u \in Targets, Meet(t, u) PROVE  Goal
  <2>1. t \in Members /\ u \in Members /\ pc[u] = "wait" /\ look[t] = u
    BY <1>14 DEF Meet, Barrier, OneTurn, HasTurn, Linked
  <2>20. Phases'
    BY <1>14, <2>1 DEF Meet, TakesTurn, Leaves, Phases
  <2>21. Linked'
    BY <1>14, <2>1 DEF Meet, TakesTurn, Leaves, Linked, Members
  <2>22. Left'
    BY <1>14, <2>1 DEF Meet, TakesTurn, Leaves, Left, Lower
  <2>23. Said'
    BY <1>14, <2>1 DEF Meet, TakesTurn, Leaves, Said, Members
  <2>24. Looks'
    BY <1>14, <2>1 DEF Meet, TakesTurn, Leaves, Looks, Members, OneTurn, HasTurn
  <2>25. OneTurn'
    BY <1>14, <2>1 DEF Meet, TakesTurn, Leaves, OneTurn, HasTurn, Members
  <2> QED BY <2>20, <2>21, <2>22, <2>23, <2>24, <2>25
<1> QED BY <1>1, <1>2, <1>3, <1>4, <1>5, <1>6, <1>7, <1>8, <1>9, <1>10, <1>11, <1>12, <1>13, <1>14 DEF Next, Run, Handover, Target, Finished

THEOREM Invariance == Spec => []IInv
<1>1. Init => IInv BY InitIInv
<1>2. IInv /\ [Next]_vars => IInv' BY InvStep
<1> QED BY <1>1, <1>2, PTL DEF Spec

\* Type correctness: no operation is handed out that is not there, and no worker
\* counted that does not exist.
THEOREM TypeCorrect == Spec => []TypeOK
<1>1. IInv => TypeOK BY DEF IInv
<1> QED BY <1>1, Invariance, PTL

\* The I/O operations of two targets in lockstep never overlap.
THEOREM OneTurnAlways == Spec => []OneTurn
<1>1. IInv => OneTurn BY DEF IInv
<1> QED BY <1>1, Invariance, PTL

\* A target hands its turn only to one that waits for it, or is about to.
THEOREM NeverGivenToTheDone == Spec => []GivenToTheLiving
<1>1. IInv => GivenToTheLiving
  <2> SUFFICES ASSUME IInv, NEW t \in Targets, pc[t] = "give"
               PROVE  pc[look[t]] \in {"clear", "wait"}
    BY DEF GivenToTheLiving
  <2>1. t \in Members BY DEF IInv, Linked
  <2> QED BY <2>1 DEF IInv, Looks
<1> QED BY <1>1, Invariance, PTL

-----------------------------------------------------------------------------
(* The turns go round, in the first pass: in a later one, what is left of   *)
(* the pass before may be read by others before it is cleared.              *)

\* The members are one ring.
Ring == \A S \in SUBSET Members :
          S # {} /\ (\A x \in S : next[x] \in S) => S = Members

Turning == {"issue", "drain", "look", "give"}
Alive(u) == pc[u] \in {"clear", "wait"} \cup Turning /\ ~complete[u]

\* How far the walk of the target that has the turn has come.
Frontier(h) == IF pc[h] \in {"look", "give"} THEN look[h] ELSE next[h]

\* Those who have had their turn in this round of the ring, A, are next to each other
\* up to the one whose turn it is or would be; the others are one turn behind.
Round(h, A) ==
  /\ h \in A /\ \A x \in A : next[x] \in A \cup {Frontier(h)}
  /\ \A x \in Members : turns[x] <= turns[h]
  /\ \A x \in Members : Alive(x) => turns[x] = IF x \in A THEN turns[h] ELSE turns[h] - 1

Fresh == \A t \in Targets :
           /\ pc[t] \in {"parse", "clear", "wait", "issue", "drain"} => ~complete[t]
           /\ pc[t] = "look" /\ complete[t] => todo[t] = 0
None == AllAt("parse") \/ (\E t \in first : pc[t] = "clear")
          => \A u \in Targets : turns[u] = 0
Even == \A t, u \in Members : Alive(u) => turns[t] <= turns[u] + 1
InRound == \A h \in Members : pc[h] \in Turning => \E A \in SUBSET Members : Round(h, A)

Rounds == pass = 1 => Fresh /\ None /\ Even /\ InRound

\* Every option leaves one ring.
LEMMA RingStep == IInv /\ Ring /\ [Next]_vars => Ring'
<1> SUFFICES ASSUME IInv, Ring, [Next]_vars PROVE Ring' OBVIOUS
<1>1. CASE next' = next
  BY <1>1 DEF Ring, Members
<1>2. ASSUME NEW m \in Targets, NEW s \in Targets, NEW ends \in {"complete", "stop"},
             Option(m, s, ends)
      PROVE  Ring'
  <2>1. /\ m # Null /\ s # Null /\ m # s /\ s \notin Members
        /\ Members = {} \/ m \in Members
        /\ next' = [next EXCEPT ![s] = Behind(m), ![m] = s]
        /\ next \in [Targets -> Targets \cup {Null}]
    BY <1>2 DEF Option, Targets, Null, IInv, TypeOK
  <2>2. /\ Behind(m) # Null /\ Behind(m) \in Members \cup {m}
        /\ m \in Members => Behind(m) = next[m]
    BY <2>1 DEF Behind, Members, IInv, Linked
  <2>3. /\ Members' = Members \cup {m, s}
        /\ next'[m] = s /\ next'[s] = Behind(m)
        /\ \A x \in Members \ {m, s} : next'[x] = next[x]
    BY <2>1, <2>2 DEF Members
  <2> SUFFICES ASSUME NEW S \in SUBSET Members', S # {}, \A x \in S : next'[x] \in S
               PROVE  S = Members'
    BY DEF Ring
  <2>4. m \in S
    <3>1. CASE Members = {}
      BY <2>1, <2>2, <2>3, <3>1
    <3>2. CASE m \in Members
      <4> DEFINE R == S \ {s}
      <4> SUFFICES ASSUME m \notin S PROVE FALSE OBVIOUS
      <4>1. R \in SUBSET Members BY <2>3, <3>2
      <4>2. R # {}
        BY <2>1, <2>2, <2>3
      <4>3. \A x \in R : next[x] \in R
        <5> SUFFICES ASSUME NEW x \in R PROVE next[x] \in R OBVIOUS
        <5>1. x \in Members \ {m, s} BY <4>1
        <5>2. next[x] \in S BY <2>3, <5>1
        <5>3. next[x] \in Members BY <5>1 DEF IInv, Linked
        <5> QED BY <2>1, <5>2, <5>3
      <4>4. R = Members BY <4>1, <4>2, <4>3 DEF Ring
      <4> QED BY <3>2, <4>4
    <3> QED BY <2>1, <3>1, <3>2
  <2>5. s \in S /\ Behind(m) \in S
    BY <2>3, <2>4
  <2>6. Members \subseteq S
    <3>1. CASE Members = {} BY <3>1
    <3>2. CASE m \in Members
      <4> DEFINE R == S \cap Members
      <4>1. R # {} /\ R \in SUBSET Members BY <2>4, <3>2
      <4>2. \A x \in R : next[x] \in R
        <5> SUFFICES ASSUME NEW x \in R PROVE next[x] \in R OBVIOUS
        <5>1. next[x] \in Members BY DEF IInv, Linked
        <5>2. CASE x = m BY <2>2, <2>5, <3>2, <5>1, <5>2
        <5>3. CASE x # m
          <6>1. x \in Members \ {m, s} BY <2>1, <5>3
          <6>2. next'[x] = next[x] BY <2>3, <6>1
          <6> QED BY <5>1, <6>2
        <5> QED BY <5>2, <5>3
      <4>3. R = Members BY <4>1, <4>2 DEF Ring
      <4> QED BY <4>3
    <3> QED BY <2>1, <3>1, <3>2
  <2> QED BY <2>3, <2>4, <2>5, <2>6
<1>3. (\E m, s \in Targets, ends \in {"complete", "stop"} : Option(m, s, ends)) \/ next' = next
  BY DEF Next, Run, Handover, Target, Finished, PassStarts, RunEnds, Halt, vars, ring,
         Clear, Issue, Issued, WorkerEnds, Drain, LookOn, Found, Final, Meet
<1> QED BY <1>1, <1>2, <1>3

\* A step after which everybody has had as many turns, and the same target has the
\* turn or none.
LEMMA SameRound ==
  ASSUME IInv, IInv', Rounds, UNCHANGED <<pass, next, first, turns>>,
         \A u \in Members : Alive(u)' => Alive(u),
         Fresh', \A t \in Targets : pc'[t] \in {"parse", "clear"} => pc[t] = pc'[t],
         \A h \in Members : pc'[h] \in Turning => pc[h] \in Turning /\ Frontier(h)' = Frontier(h)
  PROVE  Rounds'
<1> SUFFICES ASSUME pass = 1 PROVE (None /\ Even /\ InRound)' BY DEF Rounds
<1> USE DEF Rounds
<1>1. Members' = Members BY DEF Members
<1>2. None' BY DEF None, AllAt, IInv, TypeOK
<1>5. Even' BY <1>1 DEF Even
<1>3. ASSUME NEW h \in Members, pc'[h] \in Turning
      PROVE  \E A \in SUBSET Members : Round(h, A)'
  <2>1. PICK A \in SUBSET Members : Round(h, A) BY <1>3 DEF InRound
  <2>2. Round(h, A)' BY <1>1, <1>3, <2>1 DEF Round
  <2> QED BY <2>2
<1>4. InRound' BY <1>1, <1>3 DEF InRound
<1> QED BY <1>2, <1>4, <1>5

\* A target that has had all the others' turns before it, or is the first of the pass,
\* has the turn: u, after h.
LEMMA NewRound ==
  ASSUME IInv, IInv', Ring, Rounds, pass' = pass, next' = next, first' = first,
         NEW h \in Members, NEW u \in Members, NEW A \in SUBSET Members,
         pc[h] \in Turning, Round(h, A), Frontier(h) = u, Alive(u),
         pc'[u] = "issue", turns' = [turns EXCEPT ![u] = @ + 1],
         \A x \in Members : Alive(x)' => Alive(x), Fresh'
  PROVE  Rounds'
<1> SUFFICES ASSUME pass = 1 PROVE (None /\ Even /\ InRound)' BY DEF Rounds
<1>1. Members' = Members BY DEF Members
<1>2. \A x \in Members : pc'[x] \in Turning => x = u
  BY <1>1 DEF IInv, OneTurn, HasTurn, Turning
<1>3. None'
  BY <1>1 DEF IInv, OneTurn, HasTurn, None, Linked, AllAt, Members
<1>4. turns \in [Targets -> Nat] /\ Members \subseteq Targets BY DEF IInv, TypeOK, Members
<1>5. /\ turns'[u] = turns[u] + 1 /\ \A x \in Members : x # u => turns'[x] = turns[x]
      /\ turns[u] \in Nat /\ \A x \in Members : turns[x] \in Nat
  BY <1>4
<1>6. Frontier(u)' = next[u]
  BY DEF Frontier
<1>7. \E B \in SUBSET Members : Round(u, B)'
  <2>1. CASE u \in A
    <3>1. A = Members BY <2>1 DEF Round, Ring
    <3>2. \A x \in Members : turns[x] <= turns[u] BY <2>1 DEF Round
    <3>3. \A x \in Members : Alive(x) => turns[x] = turns[u] BY <2>1, <3>1 DEF Round
    <3>4. Round(u, {u})'
      BY <1>1, <1>5, <1>6, <3>2, <3>3 DEF Round
    <3> QED BY <3>4
  <2>2. CASE u \notin A
    <3>1. turns[u] = turns[h] - 1 BY <2>2 DEF Round
    <3>2. Round(u, A \cup {u})'
      BY <1>1, <1>5, <1>6, <3>1 DEF Round
    <3> QED BY <3>2
  <2> QED BY <2>1, <2>2
<1>8. Even'
  BY <1>1, <1>5, <1>7 DEF Even, Round
<1>9. InRound' BY <1>1, <1>2, <1>7 DEF InRound
<1> QED BY <1>3, <1>8, <1>9

\* Every step keeps the rounds.
LEMMA RoundsStep == IInv /\ IInv' /\ Ring /\ Rounds /\ [Next]_vars => Rounds'
<1> SUFFICES ASSUME IInv, IInv', Ring, Rounds, [Next]_vars PROVE Rounds' OBVIOUS
<1> USE DEF Goto, ring, halts, local, pool, IInv, TypeOK
<1>1. ASSUME NEW m \in Targets, NEW s \in Targets, NEW ends \in {"complete", "stop"},
             Option(m, s, ends)
      PROVE  Rounds'
  <2>1. /\ \A t \in Targets : pc'[t] = "parse" /\ UNCHANGED <<pass, pc, turns, complete, todo>>
        /\ first' \subseteq first \cup {m}
    BY <1>1 DEF Option, AllAt, NotFirst
  <2>2. \A t \in Members' : t \in Targets /\ ~Alive(t)' /\ pc'[t] \notin Turning
    BY <2>1 DEF Members, Alive, Turning
  <2>3. Rounds => (pass' = 1 => (Fresh /\ None)')
    BY <2>1 DEF Rounds, Fresh, None, AllAt
  <2> QED BY <2>2, <2>3 DEF Rounds, Even, InRound
<1>2. CASE PassStarts
  <2>1. pass' = 1 => AllAt("parse") /\ pass = 1
    <3>1. 1 \in Targets BY Constants DEF Targets
    <3> QED BY <1>2, <3>1 DEF PassStarts, AllAt
  <2> SUFFICES ASSUME pass' = 1 PROVE (Fresh /\ None /\ Even /\ InRound)' BY DEF Rounds
  <2>2. /\ \A t \in Targets : pc[t] = "parse" /\ pc'[t] = "clear" /\ turns'[t] = 0
        /\ UNCHANGED <<next, first, complete, todo>>
    BY <1>2, <2>1 DEF PassStarts, AllAt
  <2> QED BY <2>1, <2>2 DEF Rounds, Fresh, None, Even, InRound, Turning, Members
<1>3. CASE RunEnds
  <2>1. \A t \in Targets : pc'[t] = "done" /\ UNCHANGED <<pass, next, first, turns>>
    BY <1>3 DEF RunEnds
  <2>2. \A t \in Members : t \in Targets /\ ~Alive(t)' /\ pc'[t] \notin Turning
    BY <2>1 DEF Members, Alive, Turning
  <2>3. Fresh' BY <2>1 DEF Fresh
  <2>4. UNCHANGED <<pass, next, first, turns>> BY <1>3 DEF RunEnds
  <2> QED BY <2>1, <2>2, <2>3, <2>4, SameRound
<1>4. CASE Halt
  <2>1. UNCHANGED <<pass, next, first, turns, pc, complete, look, todo>> BY <1>4 DEF Halt
  <2> QED BY <2>1 DEF Rounds, Fresh, None, AllAt, Even, InRound, Round, Alive, Frontier, Members
<1>5. CASE UNCHANGED vars
  <2>1. UNCHANGED <<pass, next, first, turns, pc, complete, look, todo>> BY <1>5 DEF vars
  <2> QED BY <2>1 DEF Rounds, Fresh, None, AllAt, Even, InRound, Round, Alive, Frontier, Members
<1>6. ASSUME NEW t \in Targets, Clear(t) PROVE Rounds'
  <2>1. CASE t \notin first
    <3>1. /\ UNCHANGED <<pass, next, first, turns, look>> /\ pc[t] = "clear"
          /\ pc' = [pc EXCEPT ![t] = IF t \notin Members THEN "over" ELSE "wait"]
          /\ complete' = [complete EXCEPT ![t] = FALSE]
      BY <1>6, <2>1 DEF Clear
    <3> SUFFICES ASSUME pass = 1 PROVE Rounds' BY <3>1 DEF Rounds
    <3>2. \A u \in Members : Alive(u)' => Alive(u)
      BY <3>1 DEF Rounds, Fresh, Alive, Turning, Members
    <3>3. Fresh'
      <4>1. \A u \in Targets : /\ ~complete'[u] \/ (u # t /\ complete'[u] = complete[u])
                               /\ pc'[u] = "look" => u # t /\ todo'[u] = todo[u] /\ pc[u] = "look"
                               /\ u # t => pc'[u] = pc[u]
        BY <1>6, <3>1 DEF Clear
      <4> QED BY <4>1 DEF Rounds, Fresh
    <3>4. \A h \in Members : pc'[h] \in Turning => pc[h] \in Turning /\ Frontier(h)' = Frontier(h)
      BY <3>1 DEF Turning, Frontier, Members
    <3>5. \A u \in Targets : pc'[u] \in {"parse", "clear"} => pc[u] = pc'[u]
      BY <3>1
    <3> QED BY <3>1, <3>2, <3>3, <3>4, <3>5, SameRound
  <2>2. CASE t \in first
    <3>1. /\ UNCHANGED <<pass, next, first, look>> /\ pc[t] = "clear" /\ t \in Members
          /\ pc' = [pc EXCEPT ![t] = "issue"]
          /\ complete' = [complete EXCEPT ![t] = FALSE]
          /\ turns' = [turns EXCEPT ![t] = @ + 1]
      BY <1>6, <2>2 DEF Clear, TakesTurn, Linked
    <3> SUFFICES ASSUME pass = 1 PROVE (Fresh /\ None /\ Even /\ InRound)' BY <3>1 DEF Rounds
    <3>2. Members' = Members /\ Members \subseteq Targets BY <3>1 DEF Members
    <3>3. \A x \in Targets : turns'[x] = IF x = t THEN 1 ELSE 0
      BY <2>2, <3>1 DEF Rounds, None
    <3>4. Fresh'
      <4>1. \A u \in Targets : /\ ~complete'[u] \/ (u # t /\ complete'[u] = complete[u])
                               /\ pc'[u] = "look" => u # t /\ todo'[u] = todo[u] /\ pc[u] = "look"
                               /\ u # t => pc'[u] = pc[u]
        BY <1>6, <3>1 DEF Clear
      <4> QED BY <4>1 DEF Rounds, Fresh
    <3>5. None' BY <2>2, <3>1 DEF Linked, None, AllAt, Members
    <3>6. Even' BY <3>2, <3>3 DEF Even
    <3>7. \A x \in Members : pc'[x] \in Turning => x = t
      BY <3>1, <3>2, <2>2 DEF OneTurn, HasTurn, Turning
    <3>8. Frontier(t)' = next[t] BY <3>1 DEF Frontier
    <3>9. Round(t, {t})' BY <3>1, <3>2, <3>3, <3>8 DEF Round
    <3>10. InRound' BY <3>1, <3>2, <3>7, <3>9 DEF InRound
    <3> QED BY <3>4, <3>5, <3>6, <3>10
  <2> QED BY <2>1, <2>2
<1>7. ASSUME NEW t \in Targets, Issue(t) PROVE Rounds'
  <2>1. /\ UNCHANGED <<pass, next, first, turns, complete, look>> /\ pc[t] = "issue"
        /\ pc' = pc \/ pc' = [pc EXCEPT ![t] = "drain"]
        /\ \A u \in Targets \ {t} : todo'[u] = todo[u]
    BY <1>7 DEF Issue
  <2> SUFFICES ASSUME pass = 1 PROVE Rounds' BY <2>1 DEF Rounds
  <2>2. \A u \in Members : Alive(u)' => Alive(u) BY <2>1 DEF Alive, Turning, Members
  <2>3. Fresh' BY <2>1 DEF Rounds, Fresh
  <2>4. \A u \in Targets : pc'[u] \in {"parse", "clear"} => pc[u] = pc'[u] BY <2>1
  <2>5. \A h \in Members : pc'[h] \in Turning => pc[h] \in Turning /\ Frontier(h)' = Frontier(h)
    BY <2>1 DEF Turning, Frontier, Members
  <2> QED BY <2>1, <2>2, <2>3, <2>4, <2>5, SameRound
<1>8. ASSUME NEW t \in Targets, Issued(t) PROVE Rounds'
  <2>1. /\ UNCHANGED <<pass, next, first, turns, complete, look, todo>> /\ pc[t] = "issue"
        /\ pc' = [pc EXCEPT ![t] = "drain"]
    BY <1>8 DEF Issued
  <2> SUFFICES ASSUME pass = 1 PROVE Rounds' BY <2>1 DEF Rounds
  <2>2. \A u \in Members : Alive(u)' => Alive(u) BY <2>1 DEF Alive, Turning, Members
  <2>3. Fresh' BY <2>1 DEF Rounds, Fresh
  <2>4. \A u \in Targets : pc'[u] \in {"parse", "clear"} => pc[u] = pc'[u] BY <2>1
  <2>5. \A h \in Members : pc'[h] \in Turning => pc[h] \in Turning /\ Frontier(h)' = Frontier(h)
    BY <2>1 DEF Turning, Frontier, Members
  <2> QED BY <2>1, <2>2, <2>3, <2>4, <2>5, SameRound
<1>9. ASSUME NEW t \in Targets, WorkerEnds(t) PROVE Rounds'
  <2>1. UNCHANGED <<pass, next, first, turns, complete, look, pc, todo>> BY <1>9 DEF WorkerEnds
  <2> QED BY <2>1 DEF Rounds, Fresh, None, AllAt, Even, InRound, Round, Alive, Frontier, Members
<1>10. ASSUME NEW t \in Targets, Drain(t) PROVE Rounds'
  <2>1. /\ UNCHANGED <<pass, next, first, turns, todo>> /\ pc[t] = "drain"
        /\ pc' = [pc EXCEPT ![t] = "look"] /\ look' = [look EXCEPT ![t] = next[t]]
        /\ complete' = [complete EXCEPT ![t] = @ \/ todo[t] = 0]
    BY <1>10 DEF Drain, NextOf
  <2> SUFFICES ASSUME pass = 1 PROVE Rounds' BY <2>1 DEF Rounds
  <2>2. \A u \in Members : Alive(u)' => Alive(u) BY <2>1 DEF Alive, Turning, Members
  <2>3. Fresh' BY <2>1 DEF Rounds, Fresh
  <2>4. \A u \in Targets : pc'[u] \in {"parse", "clear"} => pc[u] = pc'[u] BY <2>1
  <2>5. \A h \in Members : pc'[h] \in Turning => pc[h] \in Turning /\ Frontier(h)' = Frontier(h)
    BY <2>1 DEF Turning, Frontier, Members
  <2> QED BY <2>1, <2>2, <2>3, <2>4, <2>5, SameRound
<1>11. ASSUME NEW t \in Targets, LookOn(t) PROVE Rounds'
  <2>1. /\ UNCHANGED <<pass, next, first, turns, pc, complete, todo>> /\ pc[t] = "look"
        /\ complete[look[t]] /\ look' = [look EXCEPT ![t] = next[look[t]]]
    BY <1>11 DEF LookOn, Skips
  <2>2. t \in Members /\ look[t] \in Members BY <2>1 DEF Looks, Linked
  <2> SUFFICES ASSUME pass = 1 PROVE InRound'
    BY <2>1 DEF Rounds, Fresh, None, AllAt, Even, Alive, Members
  <2>3. Members' = Members /\ \A x \in Members : Alive(x)' = Alive(x) BY <2>1 DEF Members, Alive
  <2>4. \A x \in Members : pc[x] \in Turning => x = t
    BY <2>1, <2>2 DEF OneTurn, HasTurn, Turning
  <2>5. PICK A \in SUBSET Members : Round(t, A)
    BY <2>1, <2>2 DEF Rounds, InRound, Turning
  <2>6. Frontier(t) = look[t] /\ Frontier(t)' = next[look[t]]
    BY <2>1, <2>2 DEF Frontier
  <2>7. ~Alive(look[t]) BY <2>1 DEF Alive
  <2>8. PICK B \in SUBSET Members : B = A \cup {look[t]} BY <2>2
  <2>9. Round(t, B)'
    <3>1. /\ t \in A /\ \A x \in A : next[x] \in A \cup {look[t]}
          /\ \A x \in Members : turns[x] <= turns[t]
          /\ \A x \in Members : Alive(x) => turns[x] = IF x \in A THEN turns[t] ELSE turns[t] - 1
      BY <2>5, <2>6 DEF Round
    <3>2. \A x \in Members : Alive(x) => turns[x] = IF x \in B THEN turns[t] ELSE turns[t] - 1
      BY <2>7, <2>8, <3>1
    <3>3. t \in B /\ \A x \in B : next[x] \in B \cup {next[look[t]]}
      BY <2>8, <3>1
    <3> QED BY <2>1, <2>3, <2>6, <3>1, <3>2, <3>3 DEF Round
  <2>10. \A h \in Members : pc'[h] \in Turning => h = t BY <2>1, <2>4
  <2> QED BY <2>3, <2>9, <2>10 DEF InRound
<1>12. ASSUME NEW t \in Targets, Found(t) PROVE Rounds'
  <2>1. /\ UNCHANGED <<pass, next, first, look>> /\ pc[t] = "look" /\ t \in Members
        /\ \E b \in BOOLEAN : complete' = [complete EXCEPT ![t] = @ \/ b]
        /\ \/ pc' = [pc EXCEPT ![t] = "give"] /\ turns' = turns
           \/ pc' = [pc EXCEPT ![t] = "final"] /\ turns' = turns
           \/ /\ pc' = [pc EXCEPT ![t] = "issue"] /\ turns' = [turns EXCEPT ![t] = @ + 1]
              /\ look[t] = t /\ todo'[t] # 0
    <3>1. t \in Members BY <1>12 DEF Found, Linked
    <3>2. \E b \in BOOLEAN : complete' = [complete EXCEPT ![t] = @ \/ b]
      BY <1>12 DEF Found
    <3> QED BY <1>12, <3>1, <3>2 DEF Found, TakesTurn
  <2>2. \A x \in Members : Alive(x)' => Alive(x)
    BY <2>1 DEF Alive, Turning, Members
  <2>3. Rounds => (pass = 1 => Fresh')
    <3>1. \A u \in Targets \ {t} : /\ complete'[u] = complete[u] /\ todo'[u] = todo[u]
                                   /\ pc'[u] = pc[u]
      BY <1>12, <2>1 DEF Found
    <3>2. pc'[t] \notin {"parse", "clear", "wait", "drain", "look"} BY <2>1
    <3>3. Rounds /\ pass = 1 /\ pc'[t] = "issue" => ~complete'[t]
      <4>1. pc'[t] = "issue" => todo[t] # 0 /\ complete'[t] = complete[t]
        BY <1>12 DEF Found
      <4> QED BY <2>1, <4>1 DEF Rounds, Fresh
    <3> QED BY <3>1, <3>2, <3>3 DEF Rounds, Fresh
  <2> SUFFICES ASSUME pass = 1 PROVE Rounds' BY <2>1 DEF Rounds
  <2>4. CASE turns' = turns
    <3>1. \A h \in Members : pc'[h] \in Turning => pc[h] \in Turning /\ Frontier(h)' = Frontier(h)
      BY <2>1, <2>4 DEF Turning, Frontier, Members
    <3>2. \A u \in Targets : pc'[u] \in {"parse", "clear"} => pc[u] = pc'[u]
      BY <2>1 DEF Members
    <3> QED BY <2>1, <2>2, <2>3, <2>4, <3>1, <3>2, SameRound
  <2>5. CASE turns' # turns
    <3>1. /\ pc' = [pc EXCEPT ![t] = "issue"] /\ turns' = [turns EXCEPT ![t] = @ + 1]
          /\ look[t] = t /\ todo'[t] # 0
      BY <2>1, <2>5
    <3>2. PICK A \in SUBSET Members : Round(t, A)
      BY <2>1 DEF Rounds, InRound, Turning
    <3>3. Frontier(t) = t /\ pc'[t] = "issue" /\ pc[t] \in Turning
      BY <2>1, <3>1 DEF Frontier, Turning, Members
    <3>4. Alive(t)
      <4>1. todo[t] # 0 BY <1>12, <3>1 DEF Found
      <4> QED BY <2>1, <4>1 DEF Rounds, Fresh, Alive, Turning
    <3> QED BY <2>1, <2>2, <2>3, <3>1, <3>2, <3>3, <3>4, NewRound
  <2> QED BY <2>4, <2>5
<1>13. ASSUME NEW t \in Targets, Final(t) PROVE Rounds'
  <2>1. /\ UNCHANGED <<pass, next, first, turns, complete, look, todo>> /\ pc[t] = "final"
        /\ pc' = [pc EXCEPT ![t] = "over"]
    BY <1>13 DEF Final
  <2> SUFFICES ASSUME pass = 1 PROVE Rounds' BY <2>1 DEF Rounds
  <2>2. \A u \in Members : Alive(u)' => Alive(u) BY <2>1 DEF Alive, Turning, Members
  <2>3. Fresh' BY <2>1 DEF Rounds, Fresh
  <2>4. \A u \in Targets : pc'[u] \in {"parse", "clear"} => pc[u] = pc'[u] BY <2>1
  <2>5. \A h \in Members : pc'[h] \in Turning => pc[h] \in Turning /\ Frontier(h)' = Frontier(h)
    BY <2>1 DEF Turning, Frontier, Members
  <2> QED BY <2>1, <2>2, <2>3, <2>4, <2>5, SameRound
<1>14. ASSUME NEW t \in Targets, NEW u \in Targets, Meet(t, u) PROVE Rounds'
  <2>1. t \in Members /\ u \in Members /\ pc[t] = "give" /\ pc[u] = "wait" /\ look[t] = u /\ t # u
    BY <1>14 DEF Meet, Barrier, OneTurn, HasTurn, Linked
  <2>2. /\ UNCHANGED <<pass, next, first, look, complete, todo>>
        /\ pc' = [pc EXCEPT ![t] = Leaves(t), ![u] = "issue"]
        /\ turns' = [turns EXCEPT ![u] = @ + 1]
    BY <1>14, <2>1 DEF Meet, TakesTurn
  <2>3. ~complete[u] BY <2>1 DEF Looks
  <2> SUFFICES ASSUME pass = 1 PROVE Rounds' BY <2>2 DEF Rounds
  <2>4. PICK A \in SUBSET Members : Round(t, A)
    BY <2>1 DEF Rounds, InRound, Turning
  <2>5. Frontier(t) = u /\ Alive(u) /\ pc'[u] = "issue" /\ pc[t] \in Turning
    BY <2>1, <2>2, <2>3 DEF Frontier, Alive, Turning
  <2>6. \A x \in Members : Alive(x)' => Alive(x)
    BY <2>1, <2>2 DEF Alive, Turning, Leaves, Members
  <2>7. Fresh'
    BY <2>1, <2>2 DEF Rounds, Fresh, Leaves, Members
  <2> QED BY <2>1, <2>2, <2>4, <2>5, <2>6, <2>7, NewRound
<1> QED BY NextCases, <1>1, <1>2, <1>3, <1>4, <1>5, <1>6, <1>7, <1>8, <1>9, <1>10, <1>11,
           <1>12, <1>13, <1>14

\* The turns of the targets in lockstep go round: until the end of the first pass
\* nobody gets two turns ahead of a target that still has operations to do,
\* whoever completes its pass meanwhile and is passed over (xdd_lockstep).  In a
\* later pass the flags of the pass before may be read, see README.
THEOREM TurnsGoRound == Spec => [](pass = 1 => NobodyRunsAhead)
<1>1. Init => Ring /\ Rounds
  <2> SUFFICES ASSUME Init PROVE Ring /\ Rounds OBVIOUS
  <2>1. Members = {} /\ first = {} BY DEF Init, Members
  <2>2. \A t \in Targets : pc[t] = "parse" /\ ~complete[t] /\ turns[t] = 0 BY DEF Init
  <2> QED BY <2>1, <2>2 DEF Ring, Rounds, Fresh, None, Even, InRound
<1>2. IInv /\ IInv' /\ Ring /\ Rounds /\ [Next]_vars => Ring' /\ Rounds'
  BY RingStep, RoundsStep
<1>3. IInv /\ Rounds => (pass = 1 => NobodyRunsAhead)
  BY DEF Rounds, Even, NobodyRunsAhead, Alive, Turning
<1>4. Spec => [](IInv /\ Ring /\ Rounds)
  BY Invariance, <1>1, <1>2, PTL DEF Spec
<1> QED BY <1>3, <1>4, PTL
=============================================================================
