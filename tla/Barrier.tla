------------------------------- MODULE Barrier -------------------------------
(***************************************************************************)
(* What a barrier promises the threads that meet at it, and what POSIX     *)
(* promises of pthread_barrier_wait: whoever comes in stays until the      *)
(* whole party is in, then the party is let go as one, and those let go    *)
(* walk out one by one.  A thread that walked out may come in again        *)
(* before its slower companions have left.                                 *)
(***************************************************************************)
CONSTANT Threads        \* threads that may meet at the barrier

VARIABLES party,        \* those that do, settled when it is initialised
          inside,       \* the threads that wait for the rest of the party
          freed         \* the threads let go that have not walked out yet

vars == <<party, inside, freed>>

Init ==
  /\ party \in (SUBSET Threads) \ {{}}
  /\ inside = {}
  /\ freed = {}

Enter(t) ==
  /\ t \notin inside \cup freed
  /\ inside' = inside \cup {t}
  /\ freed' = freed

\* The whole party is in: nobody can still be on the way out of the meeting
\* before this one.
Open ==
  /\ inside = party
  /\ inside' = {}
  /\ freed' = party

Leave(t) ==
  /\ t \in freed
  /\ freed' = freed \ {t}
  /\ inside' = inside

Next == UNCHANGED party /\ (Open \/ \E t \in party : Enter(t) \/ Leave(t))

Spec == Init /\ [][Next]_vars
===============================================================================
