------------------------------ MODULE XddBarrier ------------------------------
(***************************************************************************)
(* The barrier all the threads of XDD meet at: xdd_barrier() with its      *)
(* chain of occupants, over the barrier XDD brings along for systems       *)
(* without POSIX barriers (xint_barrier_wait).                             *)
(*                                                                         *)
(* Every section under bp->mutex is one step.  The sections under the      *)
(* mutex of the waiting count are cut where another thread may look        *)
(* without it: the assertion at the entry reads the count unlocked.        *)
(***************************************************************************)
EXTENDS Naturals, FiniteSets

CONSTANTS Threads,      \* threads that may meet at the barrier
          NoThread,     \* a null pointer
          Rounds        \* bound: meetings each thread comes to

ASSUME Assumptions ==
  /\ IsFiniteSet(Threads)
  /\ NoThread \notin Threads
  /\ Rounds \in Nat

VARIABLES
  party,      \* the threads the barrier was initialised for (bp->threads)
  owner,      \* the one that calls with owner = 1, NoThread if none does
  pc,         \* where each thread is in xdd_barrier
  first,      \* bp->first_occupant
  last,       \* bp->last_occupant
  nextOf,     \* occupantp->next_occupant
  counter,    \* bp->counter
  waiters,    \* barrier->waiters
  mutex,      \* the holder of barrier->mutex
  entered,    \* history: how often each thread came in
  passed,     \* history: how often the barrier let it go
  disturbed   \* history: a wait on the condition variable ended by itself

chain == <<first, last, nextOf, counter>>
vars == <<party, owner, pc, chain, waiters, mutex, entered, passed, disturbed>>

Init ==
  /\ party \in (SUBSET Threads) \ {{}}
  /\ owner \in party \cup {NoThread}
  /\ pc = [t \in Threads |-> "out"]
  /\ first = NoThread
  /\ last = NoThread
  /\ nextOf = [t \in Threads |-> NoThread]
  /\ counter = 0
  /\ waiters = 0
  /\ mutex = NoThread
  /\ entered = [t \in Threads |-> 0]
  /\ passed = [t \in Threads |-> 0]
  /\ disturbed = FALSE

Alone == Cardinality(party) = 1

\* "If there is only one thread then why bother sleeping".
ReturnAtOnce(t) ==
  /\ pc[t] = "out"
  /\ Alone
  /\ entered[t] < Rounds
  /\ entered' = [entered EXCEPT ![t] = @ + 1]
  /\ passed' = [passed EXCEPT ![t] = @ + 1]
  /\ UNCHANGED <<party, owner, pc, chain, waiters, mutex, disturbed>>

\* The thread puts itself at the end of the ring of occupants.
LinkTail(t) ==
  /\ first' = IF counter = 0 THEN t ELSE first
  /\ last' = t
  /\ nextOf' = IF counter = 0
                 THEN [nextOf EXCEPT ![t] = t]
                 ELSE [[nextOf EXCEPT ![t] = first] EXCEPT ![last] = t]
  /\ counter' = counter + 1

Arrive(t) ==
  /\ pc[t] = "out"
  /\ ~Alone
  /\ entered[t] < Rounds
  /\ entered' = [entered EXCEPT ![t] = @ + 1]
  /\ pc' = [pc EXCEPT ![t] = "listed"]
  /\ LinkTail(t)
  /\ UNCHANGED <<party, owner, waiters, mutex, passed, disturbed>>

Count(t) ==
  /\ pc[t] = "listed"
  /\ mutex = NoThread
  /\ mutex' = t
  /\ waiters' = waiters + 1
  /\ pc' = [pc EXCEPT ![t] = "counted"]
  /\ UNCHANGED <<party, owner, chain, entered, passed, disturbed>>

OneShort == waiters = Cardinality(party) - 1  \* slip: the barrier opens one short
Complete == waiters = Cardinality(party)

\* slip: pthread_cond_signal in place of pthread_cond_broadcast
OneSleeper ==
  LET asleep == {u \in party : pc[u] = "asleep"}
  IN IF asleep = {} THEN {} ELSE {CHOOSE u \in asleep : TRUE}

\* Those pthread_cond_broadcast wakes: everybody who sleeps.
Sleepers == {u \in party : pc[u] = "asleep"}

StaleCount == waiters                \* slip: the count is left as it is
FreshCount == 0

\* The last one resets the count, wakes the others and goes on.
LetGo(t) ==
  /\ pc[t] = "counted"
  /\ Complete
  /\ waiters' = FreshCount
  /\ mutex' = NoThread
  /\ pc' = [u \in Threads |-> CASE u = t -> "through"
                                [] u \in Sleepers -> "woken"
                                [] OTHER -> pc[u]]
  /\ passed' = [passed EXCEPT ![t] = @ + 1]
  /\ UNCHANGED <<party, owner, chain, entered, disturbed>>

Sleep(t) ==
  /\ pc[t] = "counted"
  /\ ~Complete
  /\ mutex' = NoThread
  /\ pc' = [pc EXCEPT ![t] = "asleep"]
  /\ UNCHANGED <<party, owner, chain, waiters, entered, passed, disturbed>>

\* A woken thread takes the mutex again, tests nothing and lets it go.
Wake(t) ==
  /\ pc[t] = "woken"
  /\ mutex = NoThread
  /\ pc' = [pc EXCEPT ![t] = "through"]
  /\ passed' = [passed EXCEPT ![t] = @ + 1]
  /\ UNCHANGED <<party, owner, chain, waiters, mutex, entered, disturbed>>

\* pthread_cond_wait may return although nobody has signalled.
SpuriousWakeup(t) ==
  /\ pc[t] = "asleep"
  /\ pc' = [pc EXCEPT ![t] = "woken"]
  /\ disturbed' = TRUE
  /\ UNCHANGED <<party, owner, chain, waiters, mutex, entered, passed>>

\* slip: the owner forgets the count of the occupants
ForgetsCounter ==
  /\ first' = NoThread
  /\ last' = NoThread
  /\ UNCHANGED <<counter, nextOf>>

EmptyChain ==
  /\ first' = NoThread
  /\ last' = NoThread
  /\ counter' = 0
  /\ UNCHANGED nextOf

Anybody(t) == TRUE                   \* slip: every thread empties the chain
Empties(t) == t = owner

\* Only the owner of the barrier empties the chain.
Return(t) ==
  /\ pc[t] = "through"
  /\ pc' = [pc EXCEPT ![t] = "out"]
  /\ IF Empties(t) THEN EmptyChain ELSE UNCHANGED chain
  /\ UNCHANGED <<party, owner, waiters, mutex, entered, passed, disturbed>>

\* Every thread has come as often as the bound lets it and has left.
Finished ==
  /\ \A t \in party : pc[t] = "out" /\ entered[t] = Rounds
  /\ UNCHANGED vars

Proceed(t) ==
  Count(t) \/ LetGo(t) \/ Sleep(t) \/ Wake(t) \/ Return(t)

Next ==
  \/ \E t \in party :
       ReturnAtOnce(t) \/ Arrive(t) \/ Proceed(t) \/ SpuriousWakeup(t)
  \/ Finished

Spec == Init /\ [][Next]_vars

\* A thread in xdd_barrier goes on when the mutex lets it.  Nothing makes a
\* thread come to the barrier.
FairSpec == Spec /\ \A t \in Threads : WF_vars(Proceed(t))

-----------------------------------------------------------------------------
(* Type and safety.                                                          *)

TypeOK ==
  /\ party \in (SUBSET Threads) \ {{}}
  /\ owner \in party \cup {NoThread}
  /\ pc \in [Threads -> {"out", "listed", "counted", "asleep", "woken", "through"}]
  /\ first \in Threads \cup {NoThread}
  /\ last \in Threads \cup {NoThread}
  /\ nextOf \in [Threads -> Threads \cup {NoThread}]
  /\ counter \in Nat
  /\ (counter > 0) => last \in Threads /\ first \in Threads
  /\ waiters \in Nat
  /\ mutex \in Threads \cup {NoThread}
  /\ entered \in [Threads -> Nat]
  /\ passed \in [Threads -> Nat]
  /\ disturbed \in BOOLEAN

\* xdd_barrier: "The caller will block in this subroutine until all required
\* threads enter": nobody is let go more often than the slowest thread of the
\* party came in, as long as no wait ended by itself.
NobodyLeavesEarly ==
  ~disturbed => \A t, u \in party : passed[t] <= entered[u]

\* The assertion at the entry of xint_barrier_wait, read without the mutex,
\* never fails: a thread that comes to the next meeting early cannot see the
\* full count of this one.
AssertionHolds ==
  ~disturbed => \A t \in party : pc[t] = "listed" => waiters < Cardinality(party)

Inside == {t \in party : pc[t] \in {"listed", "counted", "asleep"}}

\* The occupant k links after the first.
Occupant[k \in Nat] == IF k = 0 THEN first ELSE nextOf[Occupant[k - 1]]

\* Interactive mode walks counter links from the first occupant to show who is
\* in a barrier: while the owner waits, whom it meets is in the barrier, it
\* meets nobody twice, and it meets the owner.
ChainShowsOccupants ==
  ~disturbed /\ owner \in Inside =>
    LET Shown == {Occupant[k] : k \in 0..counter - 1}
    IN /\ owner \in Shown
       /\ Shown \subseteq Inside
       /\ Cardinality(Shown) = counter

\* Everybody who came to a meeting gets away from it once the whole party has
\* come: the broadcast reaches everybody who counted before it.
EveryMeetingEnds ==
  \A n \in 1..Rounds :
    (\A t \in party : entered[t] >= n)
      ~> (disturbed \/ \A t \in party : passed[t] >= n /\ (entered[t] = n => pc[t] = "out"))

-----------------------------------------------------------------------------
(* The barrier implements the abstract one.                                 *)

Freed == {t \in party : pc[t] \in {"woken", "through"}}

Abstract == INSTANCE Barrier WITH inside <- Inside, freed <- Freed

\* Until a wait ends by itself, every step of the code is a step of the
\* abstract barrier or is invisible in it.
ImplementsBarrier ==
  Abstract!Init /\ [][~disturbed' => Abstract!Next]_<<party, Inside, Freed>>
===============================================================================
