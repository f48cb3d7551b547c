--------------------------- MODULE XddBarrierProofs ---------------------------
(***************************************************************************)
(* Proofs about the barrier of XDD: nobody leaves it early, its assertion   *)
(* holds, and it implements the abstract barrier, for every set of threads *)
(* and every number of meetings, until a wait ends by itself.              *)
(*                                                                         *)
(* The inductive invariant: the mutex is held by the one thread between     *)
(* counting itself and its test; a thread is inside for exactly one meeting *)
(* more than it was let go from; and, until a wait ended by itself, the     *)
(* party has been let go together, and waiters is the number of those that *)
(* counted.  On top of it, the chain lists who is in the barrier while its  *)
(* owner is.                                                                *)
(***************************************************************************)
EXTENDS XddBarrier, FiniteSetTheorems, WellFoundedInduction, TLAPS

Holder == \A t \in Threads : mutex = t <=> pc[t] = "counted"

InMeeting(t) == pc[t] \in {"listed", "counted", "asleep", "woken"}

Balance ==
  \A t \in Threads : entered[t] = passed[t] + (IF InMeeting(t) THEN 1 ELSE 0)

\* How many meetings the party has been let go from, as t will see it once it
\* is awake.
Gone(t) == passed[t] + (IF pc[t] = "woken" THEN 1 ELSE 0)

Together == \A t, u \in party : Gone(t) = Gone(u)

Waiting == {t \in party : pc[t] \in {"counted", "asleep"}}

CountIsExact == waiters = Cardinality(Waiting)

IInv ==
  /\ TypeOK
  /\ Holder
  /\ Balance
  /\ ~disturbed => Together /\ CountIsExact

-----------------------------------------------------------------------------
(* Facts about the sets of threads.                                          *)

\* What the proofs use of the constants.
LEMMA Constants ==
  IsFiniteSet(Threads) /\ NoThread \notin Threads /\ Rounds \in Nat
BY Assumptions DEF Assumptions

\* The party and everybody who waits in it are finite sets, and those who wait
\* are the party as soon as they are as many.
LEMMA PartyIsFinite ==
  ASSUME TypeOK
  PROVE  /\ party \subseteq Threads
         /\ IsFiniteSet(party)
         /\ Cardinality(party) \in Nat
         /\ IsFiniteSet(Waiting)
         /\ Cardinality(Waiting) \in Nat
         /\ Cardinality(Waiting) <= Cardinality(party)
         /\ Cardinality(Waiting) = Cardinality(party) => Waiting = party
<1>1. party \in SUBSET Threads
  BY DEF TypeOK
<1>2. IsFiniteSet(party)
  BY <1>1, Constants, FS_Subset
<1>3. Waiting \in SUBSET party
  BY DEF Waiting
<1>4. IsFiniteSet(Waiting) /\ Cardinality(Waiting) <= Cardinality(party)
      /\ (Cardinality(party) = Cardinality(Waiting) => party = Waiting)
  BY <1>2, <1>3, FS_Subset
<1>5. Cardinality(party) \in Nat /\ Cardinality(Waiting) \in Nat
  BY <1>2, <1>4, FS_CardinalityType
<1> QED
  BY <1>1, <1>2, <1>4, <1>5

\* When the count is complete, everybody of the party waits: whoever is not
\* the one that completes it sleeps.
LEMMA CompleteMeansAll ==
  ASSUME IInv, ~disturbed, NEW t \in party, pc[t] = "counted", Complete
  PROVE  /\ Waiting = party
         /\ \A u \in party : u # t => pc[u] = "asleep"
<1>1. Waiting = party
  BY PartyIsFinite DEF IInv, CountIsExact, Complete
<1>2. t \in Threads
  BY PartyIsFinite DEF IInv
<1>3. mutex = t
  BY <1>2 DEF IInv, Holder
<1>4. ASSUME NEW u \in party, u # t PROVE pc[u] = "asleep"
  <2>1. u \in Threads
    BY PartyIsFinite DEF IInv
  <2>2. pc[u] # "counted"
    BY <1>3, <1>4, <2>1 DEF IInv, Holder
  <2> QED
    BY <1>1, <2>2 DEF Waiting
<1> QED
  BY <1>1, <1>4

-----------------------------------------------------------------------------
(* The invariant.                                                            *)

\* Initially the barrier is empty.
LEMMA InitInvariant == Init => IInv
<1> SUFFICES ASSUME Init PROVE IInv
  OBVIOUS
<1> USE DEF Init
<1>1. TypeOK
  <2>1. pc \in [Threads -> {"out", "listed", "counted", "asleep", "woken", "through"}]
    OBVIOUS
  <2>2. nextOf \in [Threads -> Threads \cup {NoThread}]
    OBVIOUS
  <2>3. entered \in [Threads -> Nat] /\ passed \in [Threads -> Nat]
    OBVIOUS
  <2>4. /\ party \in (SUBSET Threads) \ {{}}
        /\ owner \in party \cup {NoThread}
        /\ first \in Threads \cup {NoThread}
        /\ last \in Threads \cup {NoThread}
        /\ mutex \in Threads \cup {NoThread}
    OBVIOUS
  <2>5. counter \in Nat /\ waiters \in Nat /\ disturbed \in BOOLEAN
    OBVIOUS
  <2>6. (counter > 0) => last \in Threads /\ first \in Threads
    OBVIOUS
  <2> HIDE DEF Init
  <2> QED
    BY <2>1, <2>2, <2>3, <2>4, <2>5, <2>6, Zenon DEF TypeOK
<1>2. Holder
  BY Constants DEF Holder
<1>3. Balance
  BY DEF Balance, InMeeting
<1>4. Together
  BY DEF Together, Gone
<1>5. Waiting = {}
  BY DEF Waiting
<1>6. CountIsExact
  BY <1>5, FS_EmptySet DEF CountIsExact
<1> QED
  BY <1>1, <1>2, <1>3, <1>4, <1>6 DEF IInv

\* ReturnAtOnce keeps the invariant.
LEMMA ReturnAtOnceKeeps ==
  ASSUME IInv, NEW t \in party, ReturnAtOnce(t)
  PROVE  IInv'
<1> USE DEF ReturnAtOnce, chain
<1>1. t \in Threads
  BY PartyIsFinite DEF IInv
<1>2. TypeOK'
  BY <1>1 DEF IInv, TypeOK
<1>3. Holder'
  BY DEF IInv, Holder
<1>4. Balance'
  BY <1>1 DEF IInv, TypeOK, Balance, InMeeting
<1>5. ASSUME ~disturbed PROVE Together' /\ CountIsExact'
  <2>1. \E x : party = {x}
    BY PartyIsFinite, FS_Singleton DEF IInv, Alone
  <2>2. party' = {t}
    BY <2>1
  <2>3. Together'
    BY <2>2 DEF Together
  <2>4. Waiting' = Waiting
    BY DEF Waiting
  <2> QED
    BY <1>5, <2>3, <2>4 DEF IInv, CountIsExact
<1> QED
  BY <1>2, <1>3, <1>4, <1>5 DEF IInv

\* Arrive keeps the invariant.
LEMMA ArriveKeeps ==
  ASSUME IInv, NEW t \in party, Arrive(t)
  PROVE  IInv'
<1> USE DEF Arrive
<1>1. t \in Threads
  BY PartyIsFinite DEF IInv
<1>2. TypeOK'
  <2>1. first' \in Threads /\ last' \in Threads /\ counter' \in Nat
    BY <1>1 DEF IInv, TypeOK, LinkTail
  <2>2. nextOf' \in [Threads -> Threads \cup {NoThread}]
    BY <1>1 DEF IInv, TypeOK, LinkTail
  <2>3. /\ pc' \in [Threads -> {"out", "listed", "counted", "asleep", "woken", "through"}]
        /\ entered' \in [Threads -> Nat]
    BY <1>1 DEF IInv, TypeOK
  <2>4. /\ party' \in (SUBSET Threads) \ {{}}
        /\ owner' \in party' \cup {NoThread}
        /\ waiters' \in Nat
        /\ mutex' \in Threads \cup {NoThread}
        /\ passed' \in [Threads -> Nat]
        /\ disturbed' \in BOOLEAN
    BY DEF IInv, TypeOK
  <2> QED
    BY <2>1, <2>2, <2>3, <2>4 DEF TypeOK
<1>3. Holder'
  BY <1>1 DEF IInv, TypeOK, Holder
<1>4. Balance'
  BY <1>1 DEF IInv, TypeOK, Balance, InMeeting
<1>5. ASSUME ~disturbed PROVE Together' /\ CountIsExact'
  <2>1. Together'
    BY <1>1, <1>5 DEF IInv, TypeOK, Together, Gone
  <2>2. Waiting' = Waiting
    BY <1>1 DEF IInv, TypeOK, Waiting
  <2> QED
    BY <1>5, <2>1, <2>2 DEF IInv, CountIsExact
<1> QED
  BY <1>2, <1>3, <1>4, <1>5 DEF IInv

\* Count keeps the invariant.
LEMMA CountKeeps ==
  ASSUME IInv, NEW t \in party, Count(t)
  PROVE  IInv'
<1> USE DEF Count, chain
<1>1. t \in Threads
  BY PartyIsFinite DEF IInv
<1>2. TypeOK'
  BY <1>1 DEF IInv, TypeOK
<1>3. Holder'
  BY <1>1, Constants DEF IInv, TypeOK, Holder
<1>4. Balance'
  BY <1>1 DEF IInv, TypeOK, Balance, InMeeting
<1>5. ASSUME ~disturbed PROVE Together' /\ CountIsExact'
  <2>1. Together'
    BY <1>1, <1>5 DEF IInv, TypeOK, Together, Gone
  <2>2. Waiting' = Waiting \cup {t}
    BY <1>1 DEF IInv, TypeOK, Waiting
  <2>3. t \notin Waiting
    BY DEF Waiting
  <2>4. Cardinality(Waiting') = Cardinality(Waiting) + 1
    BY <2>2, <2>3, PartyIsFinite, FS_AddElement DEF IInv
  <2> QED
    BY <1>5, <2>1, <2>4 DEF IInv, CountIsExact
<1> QED
  BY <1>2, <1>3, <1>4, <1>5 DEF IInv

\* LetGo keeps the invariant.
LEMMA LetGoKeeps ==
  ASSUME IInv, NEW t \in party, LetGo(t)
  PROVE  IInv'
<1> USE DEF LetGo, chain
<1>1. t \in Threads
  BY PartyIsFinite DEF IInv
<1>2. \A u \in Threads : pc'[u] = CASE u = t -> "through"
                                    [] u \in Sleepers -> "woken"
                                    [] OTHER -> pc[u]
  BY DEF LetGo
<1>3. TypeOK'
  <2>1. pc' \in [Threads -> {"out", "listed", "counted", "asleep", "woken", "through"}]
    BY DEF IInv, TypeOK
  <2> QED
    BY <1>1, <2>1, Constants DEF IInv, TypeOK, FreshCount
<1>4. Holder'
  BY <1>1, <1>2, Constants DEF IInv, TypeOK, Holder, Sleepers
<1>5. Balance'
  BY <1>1, <1>2 DEF IInv, TypeOK, Balance, InMeeting, Sleepers
<1>6. ASSUME ~disturbed PROVE Together' /\ CountIsExact'
  <2>1. \A u \in party : u # t => pc[u] = "asleep"
    BY <1>6, CompleteMeansAll
  <2>2. party \subseteq Threads
    BY PartyIsFinite DEF IInv
  <2>3. \A u \in party : pc'[u] = IF u = t THEN "through" ELSE "woken"
    BY <1>2, <2>1, <2>2 DEF Sleepers
  <2>4. \A u \in party : Gone(u)' = Gone(u) + 1
    BY <1>1, <2>1, <2>2, <2>3 DEF IInv, TypeOK, Gone
  <2>5. Together'
    BY <1>6, <2>4 DEF IInv, Together
  <2>6. Waiting' = {}
    BY <2>3 DEF Waiting
  <2> QED
    BY <2>5, <2>6, FS_EmptySet DEF CountIsExact, FreshCount
<1> QED
  BY <1>3, <1>4, <1>5, <1>6 DEF IInv

\* Sleep keeps the invariant.
LEMMA SleepKeeps ==
  ASSUME IInv, NEW t \in party, Sleep(t)
  PROVE  IInv'
<1> USE DEF Sleep, chain
<1>1. t \in Threads
  BY PartyIsFinite DEF IInv
<1>2. TypeOK'
  BY <1>1 DEF IInv, TypeOK
<1>3. Holder'
  BY <1>1, Constants DEF IInv, TypeOK, Holder
<1>4. Balance'
  BY <1>1 DEF IInv, TypeOK, Balance, InMeeting
<1>5. ASSUME ~disturbed PROVE Together' /\ CountIsExact'
  <2>1. Together'
    BY <1>1, <1>5 DEF IInv, TypeOK, Together, Gone
  <2>2. Waiting' = Waiting
    BY <1>1 DEF IInv, TypeOK, Waiting
  <2> QED
    BY <1>5, <2>1, <2>2 DEF IInv, CountIsExact
<1> QED
  BY <1>2, <1>3, <1>4, <1>5 DEF IInv

\* Wake keeps the invariant.
LEMMA WakeKeeps ==
  ASSUME IInv, NEW t \in party, Wake(t)
  PROVE  IInv'
<1> USE DEF Wake, chain
<1>1. t \in Threads
  BY PartyIsFinite DEF IInv
<1>2. TypeOK'
  BY <1>1 DEF IInv, TypeOK
<1>3. Holder'
  BY <1>1, Constants DEF IInv, TypeOK, Holder
<1>4. Balance'
  BY <1>1 DEF IInv, TypeOK, Balance, InMeeting
<1>5. ASSUME ~disturbed PROVE Together' /\ CountIsExact'
  <2>1. party \subseteq Threads
    BY PartyIsFinite DEF IInv
  <2>2. \A u \in party : Gone(u)' = Gone(u)
    BY <1>1, <2>1 DEF IInv, TypeOK, Gone
  <2>3. Together'
    BY <1>5, <2>2 DEF IInv, Together
  <2>4. Waiting' = Waiting
    BY <1>1 DEF IInv, TypeOK, Waiting
  <2> QED
    BY <1>5, <2>3, <2>4 DEF IInv, CountIsExact
<1> QED
  BY <1>2, <1>3, <1>4, <1>5 DEF IInv

\* SpuriousWakeup keeps the invariant.
LEMMA SpuriousWakeupKeeps ==
  ASSUME IInv, NEW t \in party, SpuriousWakeup(t)
  PROVE  IInv'
<1> USE DEF SpuriousWakeup, chain
<1>1. t \in Threads
  BY PartyIsFinite DEF IInv
<1>2. TypeOK'
  BY <1>1 DEF IInv, TypeOK
<1>3. Holder'
  BY <1>1 DEF IInv, TypeOK, Holder
<1>4. Balance'
  BY <1>1 DEF IInv, TypeOK, Balance, InMeeting
<1> QED
  BY <1>2, <1>3, <1>4 DEF IInv

\* Return keeps the invariant.
LEMMA ReturnKeeps ==
  ASSUME IInv, NEW t \in party, Return(t)
  PROVE  IInv'
<1> USE DEF Return
<1>1. t \in Threads
  BY PartyIsFinite DEF IInv
<1>2. TypeOK'
  <2>1. CASE Empties(t)
    BY <1>1, <2>1 DEF IInv, TypeOK, EmptyChain
  <2>2. CASE ~Empties(t)
    BY <1>1, <2>2 DEF IInv, TypeOK, chain
  <2> QED
    BY <2>1, <2>2
<1>3. Holder'
  BY <1>1 DEF IInv, TypeOK, Holder
<1>4. Balance'
  BY <1>1 DEF IInv, TypeOK, Balance, InMeeting
<1>5. ASSUME ~disturbed PROVE Together' /\ CountIsExact'
  <2>1. Together'
    BY <1>1, <1>5 DEF IInv, TypeOK, Together, Gone
  <2>2. Waiting' = Waiting
    BY <1>1 DEF IInv, TypeOK, Waiting
  <2> QED
    BY <1>5, <2>1, <2>2 DEF IInv, CountIsExact
<1> QED
  BY <1>2, <1>3, <1>4, <1>5 DEF IInv

\* A step in which nothing happens keeps the invariant.
LEMMA StutterKeeps ==
  ASSUME IInv, UNCHANGED vars
  PROVE  IInv'
<1>1. Waiting' = Waiting
  BY DEF vars, Waiting
<1>2. CountIsExact' <=> CountIsExact
  BY <1>1 DEF CountIsExact, vars
<1>3. (Together' <=> Together) /\ (Balance' <=> Balance) /\ (Holder' <=> Holder)
  BY DEF vars, Together, Gone, Balance, InMeeting, Holder
<1>4. TypeOK' <=> TypeOK
  BY DEF vars, chain, TypeOK
<1> QED
  BY <1>2, <1>3, <1>4 DEF IInv, vars

\* Every step keeps the inductive invariant.
LEMMA StepKeeps == IInv /\ [Next]_vars => IInv'
<1> SUFFICES ASSUME IInv, [Next]_vars PROVE IInv'
  OBVIOUS
<1>1. ASSUME NEW t \in party, ReturnAtOnce(t) PROVE IInv'
  BY <1>1, ReturnAtOnceKeeps
<1>2. ASSUME NEW t \in party, Arrive(t) PROVE IInv'
  BY <1>2, ArriveKeeps
<1>3. ASSUME NEW t \in party, Count(t) PROVE IInv'
  BY <1>3, CountKeeps
<1>4. ASSUME NEW t \in party, LetGo(t) PROVE IInv'
  BY <1>4, LetGoKeeps
<1>5. ASSUME NEW t \in party, Sleep(t) PROVE IInv'
  BY <1>5, SleepKeeps
<1>6. ASSUME NEW t \in party, Wake(t) PROVE IInv'
  BY <1>6, WakeKeeps
<1>7. ASSUME NEW t \in party, Return(t) PROVE IInv'
  BY <1>7, ReturnKeeps
<1>8. ASSUME NEW t \in party, SpuriousWakeup(t) PROVE IInv'
  BY <1>8, SpuriousWakeupKeeps
<1>9. ASSUME Finished \/ UNCHANGED vars PROVE IInv'
  BY <1>9, StutterKeeps DEF Finished
<1> QED
  BY <1>1, <1>2, <1>3, <1>4, <1>5, <1>6, <1>7, <1>8, <1>9 DEF Next, Proceed

\* The invariant above holds in every state of the barrier.
THEOREM Invariance == Spec => []IInv
<1> QED
  BY InitInvariant, StepKeeps, PTL DEF Spec

-----------------------------------------------------------------------------
(* What follows from it.                                                     *)

\* Every variable of the barrier keeps its type, and a chain that is not empty
\* has a first and a last occupant.
THEOREM TypeCorrect == Spec => []TypeOK
<1>1. IInv => TypeOK
  BY DEF IInv
<1> QED
  BY <1>1, Invariance, PTL

\* xdd_barrier blocks its caller "until all required threads enter".
THEOREM BarrierHolds == Spec => []NobodyLeavesEarly
<1>1. ASSUME IInv, ~disturbed, NEW t \in party, NEW u \in party
      PROVE  passed[t] <= entered[u]
  <2>1. t \in Threads /\ u \in Threads
    BY <1>1, PartyIsFinite DEF IInv
  <2>2. passed[t] \in Nat /\ passed[u] \in Nat /\ entered[u] \in Nat
    BY <1>1, <2>1 DEF IInv, TypeOK
  <2>3. passed[t] <= Gone(t) /\ Gone(t) = Gone(u)
    BY <1>1, <2>2 DEF IInv, Together, Gone
  <2>4. Gone(u) <= entered[u]
    BY <1>1, <2>1, <2>2 DEF IInv, Balance, InMeeting, Gone
  <2> QED
    BY <2>2, <2>3, <2>4 DEF Gone
<1>2. IInv => NobodyLeavesEarly
  BY <1>1 DEF NobodyLeavesEarly
<1> QED
  BY <1>2, Invariance, PTL

\* The assertion at the entry of xint_barrier_wait never fails, although it
\* reads the count without the mutex.
THEOREM AssertionNeverFails == Spec => []AssertionHolds
<1>1. ASSUME IInv, ~disturbed, NEW t \in party, pc[t] = "listed"
      PROVE  waiters < Cardinality(party)
  <2>1. t \notin Waiting
    BY <1>1 DEF Waiting
  <2>2. Cardinality(Waiting) # Cardinality(party)
    BY <1>1, <2>1, PartyIsFinite DEF IInv
  <2> QED
    BY <1>1, <2>2, PartyIsFinite DEF IInv, CountIsExact
<1>2. IInv => AssertionHolds
  BY <1>1 DEF AssertionHolds
<1> QED
  BY <1>2, Invariance, PTL

-----------------------------------------------------------------------------
(* The refinement.                                                           *)

\* Initially nobody is inside.
LEMMA InitRefines == Init => Abstract!Init
<1> SUFFICES ASSUME Init PROVE Abstract!Init
  OBVIOUS
<1>1. Inside = {} /\ Freed = {}
  BY DEF Init, Inside, Freed
<1> QED
  BY <1>1 DEF Init, Abstract!Init

\* A step that changes neither who is inside nor who is let go is invisible.
LEMMA Invisible ==
  ASSUME IInv, NEW t \in party,
         ReturnAtOnce(t) \/ Count(t) \/ Sleep(t) \/ Wake(t)
  PROVE  UNCHANGED <<party, Inside, Freed>>
<1>1. t \in Threads
  BY PartyIsFinite DEF IInv
<1>2. party' = party
  BY DEF ReturnAtOnce, Count, Sleep, Wake
<1>3. Inside' = Inside
  BY <1>1 DEF ReturnAtOnce, Count, Sleep, Wake, Inside, IInv, TypeOK
<1>4. Freed' = Freed
  BY <1>1 DEF ReturnAtOnce, Count, Sleep, Wake, Freed, IInv, TypeOK
<1> QED
  BY <1>2, <1>3, <1>4

\* To arrive is to enter the abstract barrier.
LEMMA ArriveEnters ==
  ASSUME IInv, NEW t \in party, Arrive(t)
  PROVE  Abstract!Next
<1>1. t \in Threads
  BY PartyIsFinite DEF IInv
<1>2. t \notin Inside \cup Freed
  BY DEF Arrive, Inside, Freed
<1>3. Inside' = Inside \cup {t} /\ Freed' = Freed /\ party' = party
  BY <1>1 DEF Arrive, Inside, Freed, IInv, TypeOK
<1> QED
  BY <1>2, <1>3 DEF Abstract!Next, Abstract!Enter

\* The last to count opens it.
LEMMA LetGoOpens ==
  ASSUME IInv, ~disturbed, NEW t \in party, LetGo(t)
  PROVE  Abstract!Next
<1>1. party \subseteq Threads
  BY PartyIsFinite DEF IInv
<1>2. \A u \in party : u # t => pc[u] = "asleep"
  BY CompleteMeansAll DEF LetGo
<1>3. pc[t] = "counted" /\ party' = party
  BY DEF LetGo
<1>4. \A u \in party : pc'[u] = IF u = t THEN "through" ELSE "woken"
  BY <1>1, <1>2 DEF LetGo, Sleepers
<1>5. Inside = party
  BY <1>2, <1>3 DEF Inside
<1>6. Inside' = {} /\ Freed' = party
  BY <1>3, <1>4 DEF Inside, Freed
<1> QED
  BY <1>3, <1>5, <1>6 DEF Abstract!Next, Abstract!Open

\* To return is to leave it.
LEMMA ReturnLeaves ==
  ASSUME IInv, NEW t \in party, Return(t)
  PROVE  Abstract!Next
<1>1. t \in Threads
  BY PartyIsFinite DEF IInv
<1>2. t \in Freed
  BY DEF Return, Freed
<1>3. Freed' = Freed \ {t} /\ Inside' = Inside /\ party' = party
  BY <1>1 DEF Return, Inside, Freed, IInv, TypeOK
<1> QED
  BY <1>2, <1>3 DEF Abstract!Next, Abstract!Leave

\* Every step, as long as no wait has ended by itself, is one of the abstract barrier or none.
LEMMA StepRefines ==
  IInv /\ [Next]_vars
    => [~disturbed' => Abstract!Next]_<<party, Inside, Freed>>
<1> SUFFICES ASSUME IInv, [Next]_vars, ~disturbed'
             PROVE  Abstract!Next \/ UNCHANGED <<party, Inside, Freed>>
  OBVIOUS
<1>1. ASSUME NEW t \in party, ReturnAtOnce(t) \/ Count(t) \/ Sleep(t) \/ Wake(t)
      PROVE  UNCHANGED <<party, Inside, Freed>>
  BY <1>1, Invisible
<1>2. ASSUME NEW t \in party, Arrive(t) PROVE Abstract!Next
  BY <1>2, ArriveEnters
<1>3. ASSUME NEW t \in party, LetGo(t) PROVE Abstract!Next
  BY <1>3, LetGoOpens DEF LetGo
<1>4. ASSUME NEW t \in party, Return(t) PROVE Abstract!Next
  BY <1>4, ReturnLeaves
<1>5. ASSUME NEW t \in party, SpuriousWakeup(t) PROVE FALSE
  BY <1>5 DEF SpuriousWakeup
<1>6. ASSUME Finished \/ UNCHANGED vars
      PROVE  UNCHANGED <<party, Inside, Freed>>
  BY <1>6 DEF Finished, vars, Inside, Freed
<1> QED
  BY <1>1, <1>2, <1>3, <1>4, <1>5, <1>6 DEF Next, Proceed

\* Until a wait ends by itself, the barrier XDD brings along does what POSIX
\* promises of pthread_barrier_wait.
THEOREM Refinement == Spec => ImplementsBarrier
<1> QED
  BY Invariance, InitRefines, StepRefines, PTL DEF Spec, ImplementsBarrier

-----------------------------------------------------------------------------
(* The chain of occupants.  Occupant is a recursive function, so it is shown *)
(* first that there is such a function: the walks of every length, which     *)
(* agree, put together.                                                      *)

\* The order of the naturals, which is well founded.
Below == {ss \in Nat \X Nat : ss[1] < ss[2]}

\* A set of naturals that has 0 and the successor of each of its members is Nat.
LEMMA Induction ==
  ASSUME NEW S, S \subseteq Nat, 0 \in S, \A n \in S : n + 1 \in S
  PROVE  S = Nat
<1> SUFFICES ASSUME Nat \ S # {} PROVE FALSE OBVIOUS
<1>1. IsWellFoundedOn(Below, Nat) BY NatLessThanWellFounded DEF OpToRel, Below
<1>2. PICK x \in Nat \ S : \A y \in Nat \ S : ~ (<<y, x>> \in Below)
  <2>1. Nat \ S \subseteq Nat OBVIOUS
  <2> QED BY <1>1, <2>1, WFMin
<1>3. x # 0 /\ x - 1 \in Nat OBVIOUS
<1>4. x - 1 \in S
  <2>1. <<x - 1, x>> \in Below BY <1>3 DEF Below
  <2> QED BY <1>2, <1>3, <2>1
<1> QED BY <1>3, <1>4

\* h is the chain up to the occupant n links after the first.
Walk(h, n) == h = [k \in 0..n |-> IF k = 0 THEN first ELSE nextOf[h[k - 1]]]

\* There is a walk of every length.
LEMMA WalkExists == \A n \in Nat : \E h : Walk(h, n)
<1> DEFINE S == {n \in Nat : \E h : Walk(h, n)}
<1>1. 0 \in S
  <2> DEFINE h == [k \in 0..0 |-> first]
  <2>1. Walk(h, 0) BY DEF Walk
  <2> QED BY <2>1
<1>2. ASSUME NEW n \in S PROVE n + 1 \in S
  <2>1. n \in Nat /\ \E h : Walk(h, n) OBVIOUS
  <2>2. PICK h : Walk(h, n) BY <2>1
  <2> DEFINE g == [k \in 0..n + 1 |-> IF k <= n THEN h[k] ELSE nextOf[h[n]]]
  <2>3. \A k \in 0..n : h[k] = IF k = 0 THEN first ELSE nextOf[h[k - 1]] BY <2>2 DEF Walk
  <2>4. \A k \in 0..n : g[k] = h[k] BY <2>1
  <2>5. g[n + 1] = nextOf[h[n]] BY <2>1
  <2>6. \A k \in 0..n + 1 : g[k] = IF k = 0 THEN first ELSE nextOf[g[k - 1]]
    <3> TAKE k \in 0..n + 1
    <3>1. CASE k = n + 1 BY <2>1, <2>4, <2>5, <3>1
    <3>2. CASE k \in 0..n
      <4>1. k = 0 \/ k - 1 \in 0..n BY <2>1, <3>2
      <4> QED BY <2>3, <2>4, <3>2, <4>1
    <3> QED BY <2>1, <3>1, <3>2
  <2>7. g = [k \in 0..n + 1 |-> g[k]] OBVIOUS
  <2> HIDE DEF g
  <2>8. Walk(g, n + 1) BY <2>6, <2>7 DEF Walk
  <2> QED BY <2>1, <2>8
<1>3. S = Nat
  <2> HIDE DEF S
  <2>1. S \subseteq Nat BY DEF S
  <2> QED BY <1>1, <1>2, <2>1, Induction
<1> QED BY <1>3

\* Two walks agree as far as both go.
LEMMA WalkIsOne ==
  ASSUME NEW f, NEW g, NEW m \in Nat, NEW n \in Nat, Walk(f, m), Walk(g, n)
  PROVE  \A k \in Nat : k <= m /\ k <= n => f[k] = g[k]
<1> DEFINE S == {k \in Nat : k <= m /\ k <= n => f[k] = g[k]}
<1>1. \A k \in 0..m : f[k] = IF k = 0 THEN first ELSE nextOf[f[k - 1]] BY DEF Walk
<1>2. \A k \in 0..n : g[k] = IF k = 0 THEN first ELSE nextOf[g[k - 1]] BY DEF Walk
<1>3. 0 \in S BY <1>1, <1>2
<1>4. ASSUME NEW k \in S PROVE k + 1 \in S
  <2> SUFFICES ASSUME k + 1 <= m, k + 1 <= n PROVE f[k + 1] = g[k + 1] OBVIOUS
  <2>1. f[k] = g[k] OBVIOUS
  <2>2. f[k + 1] = nextOf[f[k]] /\ g[k + 1] = nextOf[g[k]] BY <1>1, <1>2
  <2> QED BY <2>1, <2>2
<1>5. S = Nat
  <2> HIDE DEF S
  <2>1. S \subseteq Nat BY DEF S
  <2> QED BY <1>3, <1>4, <2>1, Induction
<1> QED BY <1>5

\* The occupant k + 1 links after the first is the next one after the occupant k links
\* after it.
LEMMA OccupantIs ==
  \A k \in Nat : Occupant[k] = IF k = 0 THEN first ELSE nextOf[Occupant[k - 1]]
<1> DEFINE W(n) == CHOOSE h : Walk(h, n)
           f == [k \in Nat |-> W(k)[k]]
<1>1. \A n \in Nat : Walk(W(n), n) BY WalkExists
<1> HIDE DEF W
<1>2. \A k \in Nat : f[k] = IF k = 0 THEN first ELSE nextOf[f[k - 1]]
  <2> TAKE k \in Nat
  <2>1. W(k)[k] = IF k = 0 THEN first ELSE nextOf[W(k)[k - 1]] BY <1>1 DEF Walk
  <2>2. CASE k = 0 BY <2>1, <2>2
  <2>3. CASE k # 0
    <3>1. k - 1 \in Nat /\ k - 1 <= k BY <2>3
    <3>2. Walk(W(k), k) /\ Walk(W(k - 1), k - 1) BY <1>1, <3>1
    <3>3. \A i \in Nat : i <= k /\ i <= k - 1 => W(k)[i] = W(k - 1)[i]
      BY <3>1, <3>2, WalkIsOne
    <3>4. W(k)[k - 1] = W(k - 1)[k - 1] BY <3>1, <3>3
    <3> QED BY <2>1, <2>3, <3>1, <3>4
  <2> QED BY <2>2, <2>3
<1>3. f = [k \in Nat |-> f[k]] OBVIOUS
<1> HIDE DEF f
<1>4. f = [k \in Nat |-> IF k = 0 THEN first ELSE nextOf[f[k - 1]]] BY <1>2, <1>3
<1>5. Occupant = [k \in Nat |-> IF k = 0 THEN first ELSE nextOf[Occupant[k - 1]]]
  <2> DEFINE P(o) == o = [k \in Nat |-> IF k = 0 THEN first ELSE nextOf[o[k - 1]]]
  <2>1. Occupant = CHOOSE o : P(o) BY DEF Occupant
  <2>2. \E o : P(o) BY <1>4
  <2> HIDE DEF P
  <2>3. P(CHOOSE o : P(o)) BY <2>2
  <2>4. P(Occupant) BY <2>1, <2>3
  <2> QED BY <2>4 DEF P
<1> QED BY <1>5

\* e names the occupants of the chain one after the other, the owner among them when
\* it is in the barrier.
Links(e) ==
  /\ \A i, j \in 0..counter - 1 : e[i] = e[j] => i = j
  /\ counter > 0 => e[0] = first /\ e[counter - 1] = last
  /\ \A k \in 1..counter - 1 : nextOf[e[k - 1]] = e[k]
  /\ owner \in Inside => \E k \in 0..counter - 1 : e[k] = owner

\* From the owner's way out, where it empties the chain, until it is let go the next
\* time, who is on the chain is in the barrier.
Listed ==
  ~disturbed /\ owner \in party /\ pc[owner] \notin {"woken", "through"}
    => \E e \in [0..counter - 1 -> Inside] : Links(e)

\* A new occupant is linked behind the others.
LEMMA ArriveLists ==
  ASSUME IInv, Listed, NEW t \in party, Arrive(t)
  PROVE  Listed'
<1> SUFFICES ASSUME ~disturbed', owner' \in party', pc'[owner'] \notin {"woken", "through"}
             PROVE  (\E e \in [0..counter - 1 -> Inside] : Links(e))'
  BY DEF Listed
<1>1. t \in Threads /\ party \subseteq Threads /\ t \notin Inside
  BY PartyIsFinite DEF IInv, Inside, Arrive
<1>2. /\ party' = party /\ owner' = owner /\ disturbed' = disturbed
      /\ pc' = [pc EXCEPT ![t] = "listed"] /\ pc[t] = "out"
      /\ counter' = counter + 1 /\ counter \in Nat /\ last' = t
      /\ first' = IF counter = 0 THEN t ELSE first
      /\ nextOf' = IF counter = 0 THEN [nextOf EXCEPT ![t] = t]
                     ELSE [[nextOf EXCEPT ![t] = first] EXCEPT ![last] = t]
      /\ nextOf \in [Threads -> Threads \cup {NoThread}] /\ pc \in [Threads -> {"out", "listed", "counted", "asleep", "woken", "through"}]
  BY DEF Arrive, LinkTail, IInv, TypeOK
<1>3. pc[owner] \notin {"woken", "through"} BY <1>1, <1>2
<1>4. PICK e \in [0..counter - 1 -> Inside] : Links(e) BY <1>2, <1>3 DEF Listed
<1>5. Inside' = Inside \cup {t} BY <1>1, <1>2 DEF Inside
<1> DEFINE g == [k \in 0..counter |-> IF k = counter THEN t ELSE e[k]]
<1>6. /\ g[counter] = t
      /\ \A k \in 0..counter - 1 : g[k] = e[k] /\ e[k] \in Inside /\ e[k] # t
  BY <1>1, <1>2
<1>7. g \in [0..counter' - 1 -> Inside'] BY <1>2, <1>5, <1>6
<1> HIDE DEF g
<1>8. \A i, j \in 0..counter : g[i] = g[j] => i = j
  BY <1>2, <1>4, <1>6 DEF Links
<1>9. g[0] = first' /\ g[counter] = last'
  <2>1. CASE counter = 0 BY <1>2, <1>6, <2>1
  <2>2. CASE counter # 0 BY <1>2, <1>4, <1>6, <2>2 DEF Links
  <2> QED BY <2>1, <2>2
<1>10. \A k \in 1..counter : nextOf'[g[k - 1]] = g[k]
  <2> TAKE k \in 1..counter
  <2>1. counter # 0 /\ last \in Inside /\ last \in Threads /\ e[counter - 1] = last
    BY <1>2, <1>4, <1>6 DEF Links, IInv, TypeOK
  <2>2. /\ nextOf'[last] = t
        /\ \A x \in Threads : x # last /\ x # t => nextOf'[x] = nextOf[x]
    BY <1>1, <1>2, <2>1
  <2>3. CASE k = counter BY <1>2, <1>6, <2>1, <2>2, <2>3
  <2>4. CASE k # counter
    <3>1. k - 1 \in 0..counter - 1 /\ k \in 0..counter - 1 /\ k - 1 # counter - 1
          /\ counter - 1 \in 0..counter - 1 /\ k \in 1..counter - 1
      BY <1>2, <2>4
    <3>2. e[k - 1] # last BY <1>4, <2>1, <3>1 DEF Links
    <3>3. e[k - 1] \in Threads /\ e[k - 1] # t BY <1>1, <1>6, <3>1 DEF Inside
    <3>4. nextOf[e[k - 1]] = e[k] BY <1>4, <3>1 DEF Links
    <3> QED BY <1>6, <2>2, <3>1, <3>2, <3>3, <3>4
  <2> QED BY <2>3, <2>4
<1>11. owner \in Inside' => \E k \in 0..counter : g[k] = owner
  <2>1. CASE owner = t BY <1>2, <1>6, <2>1
  <2>2. CASE owner # t
    <3> SUFFICES ASSUME owner \in Inside' PROVE \E k \in 0..counter : g[k] = owner OBVIOUS
    <3>1. owner \in Inside BY <1>5, <2>2
    <3>2. PICK k \in 0..counter - 1 : e[k] = owner BY <1>4, <3>1 DEF Links
    <3> QED BY <1>2, <1>6, <3>2
  <2> QED BY <2>1, <2>2
<1>12. counter' - 1 = counter BY <1>2
<1>13. PICK h : h = g OBVIOUS
<1>14. h \in [0..counter' - 1 -> Inside'] /\ Links(h)'
  BY <1>2, <1>7, <1>8, <1>9, <1>10, <1>11, <1>12, <1>13 DEF Links
<1> QED BY <1>14

\* Every other step leaves the chain as it is, or lets everybody go, or empties it.
LEMMA ListedStep == IInv /\ Listed /\ [Next]_vars => Listed'
<1> SUFFICES ASSUME IInv, Listed, [Next]_vars PROVE Listed' OBVIOUS
<1>1. ASSUME UNCHANGED <<party, owner, chain, Inside, disturbed>>,
             owner \in party =>
               (pc'[owner] \in {"woken", "through"} <=> pc[owner] \in {"woken", "through"})
      PROVE  Listed'
  BY <1>1 DEF Listed, Links, chain
<1>2. ASSUME NEW t \in party, ReturnAtOnce(t) \/ Count(t) \/ Sleep(t) \/ Wake(t)
      PROVE  Listed'
  <2>1. t \in Threads BY PartyIsFinite DEF IInv
  <2>2. UNCHANGED <<party, owner, chain, Inside, disturbed>>
    BY <1>2, Invisible DEF ReturnAtOnce, Count, Sleep, Wake
  <2>3. ASSUME owner \in party
        PROVE  pc'[owner] \in {"woken", "through"} <=> pc[owner] \in {"woken", "through"}
    <3>1. owner \in Threads BY <2>3, PartyIsFinite DEF IInv
    <3> QED BY <1>2, <2>1, <3>1 DEF ReturnAtOnce, Count, Sleep, Wake, IInv, TypeOK
  <2> QED BY <1>1, <2>2, <2>3
<1>3. ASSUME NEW t \in party, Arrive(t) PROVE Listed'
  BY <1>3, ArriveLists
<1>4. ASSUME NEW t \in party, LetGo(t) PROVE Listed'
  <2>1. UNCHANGED <<party, owner, disturbed>> BY <1>4 DEF LetGo
  <2> SUFFICES ASSUME ~disturbed, owner \in party PROVE pc'[owner] \in {"woken", "through"}
    BY <2>1 DEF Listed
  <2>2. \A u \in party : u \in Threads /\ (u # t => pc[u] = "asleep")
    BY <1>4, CompleteMeansAll, PartyIsFinite DEF LetGo, IInv
  <2> QED BY <1>4, <2>2 DEF LetGo, Sleepers
<1>5. ASSUME NEW t \in party, Return(t) PROVE Listed'
  <2>1. t \in Threads BY PartyIsFinite DEF IInv
  <2>2. /\ UNCHANGED <<party, owner, disturbed>> /\ pc[t] = "through"
        /\ pc' = [pc EXCEPT ![t] = "out"]
    BY <1>5 DEF Return
  <2>3. Inside' = Inside BY <2>1, <2>2 DEF Inside, IInv, TypeOK
  <2>4. CASE t # owner
    <3>1. UNCHANGED chain BY <1>5, <2>4 DEF Return, Empties
    <3>2. pc'[owner] = pc[owner] BY <2>2, <2>4 DEF IInv, TypeOK
    <3> QED BY <1>1, <2>2, <2>3, <3>1, <3>2
  <2>5. CASE t = owner
    <3>1. counter' = 0 /\ owner' \notin Inside'
      BY <1>5, <2>1, <2>2, <2>5 DEF Return, Empties, EmptyChain, Inside, IInv, TypeOK
    <3>2. PICK h : h = [k \in 0..counter' - 1 |-> t] OBVIOUS
    <3>3. 0..counter' - 1 = {} BY <3>1
    <3>4. h \in [0..counter' - 1 -> Inside'] /\ Links(h)' BY <3>1, <3>2, <3>3 DEF Links
    <3> QED BY <3>4 DEF Listed
  <2> QED BY <2>4, <2>5
<1>6. ASSUME NEW t \in party, SpuriousWakeup(t) PROVE Listed'
  BY <1>6 DEF SpuriousWakeup, Listed
<1>7. ASSUME Finished \/ UNCHANGED vars PROVE Listed'
  <2>1. UNCHANGED vars BY <1>7 DEF Finished
  <2> QED BY <1>1, <2>1 DEF vars, Inside
<1> QED
  BY <1>2, <1>3, <1>4, <1>5, <1>6, <1>7 DEF Next, Proceed

\* Whoever walks the chain from its first occupant, as interactive mode does, meets
\* the threads that are in the barrier, each once and the owner among them, while the
\* owner waits in it.
THEOREM ChainIsTrue == Spec => []ChainShowsOccupants
<1>1. Init => Listed
  <2> SUFFICES ASSUME Init PROVE \E e \in [0..counter - 1 -> Inside] : Links(e) BY DEF Listed
  <2>1. counter = 0 /\ Inside = {} BY DEF Init, Inside
  <2>2. 0..counter - 1 = {} BY <2>1
  <2> DEFINE h == [k \in 0..counter - 1 |-> k]
  <2>3. h \in [0..counter - 1 -> Inside] /\ Links(h) BY <2>1, <2>2 DEF Links
  <2> QED BY <2>3
<1>2. ASSUME IInv, Listed PROVE ChainShowsOccupants
  <2> SUFFICES ASSUME ~disturbed, owner \in Inside
               PROVE  LET Shown == {Occupant[k] : k \in 0..counter - 1}
                      IN /\ owner \in Shown
                         /\ Shown \subseteq Inside
                         /\ Cardinality(Shown) = counter
    BY DEF ChainShowsOccupants
  <2> DEFINE Shown == {Occupant[k] : k \in 0..counter - 1}
  <2>1. owner \in party /\ pc[owner] \notin {"woken", "through"} /\ counter \in Nat
    BY <1>2 DEF Inside, IInv, TypeOK
  <2>2. PICK e \in [0..counter - 1 -> Inside] : Links(e) BY <1>2, <2>1 DEF Listed
  <2>3. \A k \in 0..counter - 1 : Occupant[k] = e[k]
    <3> DEFINE S == {k \in Nat : k < counter => Occupant[k] = e[k]}
    <3>1. 0 \in S BY <2>1, <2>2, OccupantIs DEF Links
    <3>2. ASSUME NEW k \in S PROVE k + 1 \in S
      <4> SUFFICES ASSUME k + 1 < counter PROVE Occupant[k + 1] = e[k + 1] OBVIOUS
      <4>1. Occupant[k] = e[k] BY <2>1
      <4>2. Occupant[k + 1] = nextOf[Occupant[k]] BY OccupantIs
      <4>3. nextOf[e[k]] = e[k + 1]
        <5>1. k + 1 \in 1..counter - 1 /\ (k + 1) - 1 = k BY <2>1
        <5> QED BY <2>2, <5>1 DEF Links
      <4> QED BY <4>1, <4>2, <4>3
    <3>3. S = Nat
      <4> HIDE DEF S
      <4>1. S \subseteq Nat BY DEF S
      <4> QED BY <3>1, <3>2, <4>1, Induction
    <3> QED BY <2>1, <3>3
  <2>4. Shown = {e[k] : k \in 0..counter - 1} BY <2>3
  <2> HIDE DEF Shown
  <2>5. PICK i \in 0..counter - 1 : e[i] = owner BY <2>2 DEF Links
  <2>6. owner \in Shown /\ Shown \subseteq Inside BY <2>2, <2>4, <2>5
  <2>7. Cardinality(Shown) = counter
    <3>1. e \in Bijection(0..counter - 1, Shown)
      <4>1. e \in [0..counter - 1 -> Shown] BY <2>2, <2>4
      <4>2. \A k, l \in 0..counter - 1 : e[k] = e[l] => k = l BY <2>2 DEF Links
      <4>3. \A u \in Shown : \E k \in 0..counter - 1 : e[k] = u BY <2>4
      <4> QED BY <4>1, <4>2, <4>3 DEF Bijection, Injection, Surjection, IsInjective
    <3>2. IsFiniteSet(0..counter - 1) /\ Cardinality(0..counter - 1) = counter
      BY <2>1, FS_Interval
    <3> QED BY <3>1, <3>2, FS_Bijection DEF ExistsBijection
  <2> QED BY <2>6, <2>7 DEF Shown
<1>3. Spec => [](IInv /\ Listed)
  BY Invariance, <1>1, ListedStep, PTL DEF Spec
<1> QED BY <1>2, <1>3, PTL
===============================================================================
