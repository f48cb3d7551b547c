------------------------- MODULE TotOrderingProofs -------------------------
(***************************************************************************)
(* For any number of workers and operations, either ordering, aborts and   *)
(* spurious wakeups: until an operation laps the table, no waiter is       *)
(* forgotten, no release leaks into a later wait, nobody is appended to a  *)
(* chain, and with serial ordering who waited starts after its             *)
(* predecessor.                                                            *)
(*                                                                         *)
(* The argument: until then the operations under way differ by less than   *)
(* the table has entries, so an entry belongs to one of them, and only one *)
(* waits for it.  The chain of an entry has never more than one worker     *)
(* (Single, Linked), and its unlocked release is by the one worker whose   *)
(* entry it is, of the one that waits (Releasing).  A waiter found the     *)
(* entry UNAVAILABLE, so its predecessor has its release still ahead       *)
(* (Ahead).                                                                *)
(***************************************************************************)
EXTENDS TotOrdering, FiniteSetTheorems, TLAPS

\* Who is idle has no operation, and who is at another worker has its address.
Places ==
  /\ \A w \in Workers : pc[w] = "idle" <=> op[w] = NoOp
  /\ \A w \in Workers : pc[w] \in {"walk", "load", "store", "flag", "signal"}
                          => totwp[w] # NoWorker

TypeInv == TypeOK /\ Places

\* The operations under way are different ones, less than
\* a table behind.
UnderWay ==
  /\ \A w \in Workers : op[w] # NoOp => op[w] < nextOp /\ nextOp - op[w] <= TotEntries - 1
  /\ \A v, w \in Workers : op[v] = op[w] /\ op[v] # NoOp => v = w
  /\ \A w \in Workers : InWait(w) => op[w] # 0

\* A worker in a chain is alone there, waits for that entry, and is not released.
Single == \A w \in Workers : pc[w] # "walk" /\ nextp[w] = NoWorker

Linked == \A e \in Entries : waitp[e] # NoWorker =>
            /\ InWait(waitp[e]) /\ ~released[waitp[e]]
            /\ Entry(op[waitp[e]] - 1) = e

\* A worker that releases the next one is at that one.
Releasing == \A v \in Workers :
  /\ pc[v] \in {"load", "store"} => totwp[v] = waitp[Entry(op[v])]
  /\ pc[v] = "store" => loaded[v] = NoWorker
  /\ pc[v] = "flag" => /\ waitp[Entry(op[v])] = NoWorker
                       /\ InWait(totwp[v]) /\ ~released[totwp[v]]
                       /\ op[totwp[v]] = op[v] + 1

\* A flag that is set is that of a wait.
OneWait == \A w \in Workers : released[w] => InWait(w)

WillPost(v) ==
  pc[v] \in {"wait", "test", "block", "asleep", "relock", "check", "io", "post"}

\* Who is about to look at its predecessor's entry, or is handed out next, finds it
\* AVAILABLE, or the predecessor has not made it so for the last time.
Ahead ==
  \A n \in Ops : n < nextOp /\ (n + 1 = nextOp \/ \E w \in Workers : op[w] = n + 1 /\ pc[w] = "wait")
    => status[Entry(n)] = "AVAILABLE" \/ \E v \in Workers : op[v] = n /\ WillPost(v)

\* The release of a waiter is ahead, or under way.
Expected ==
  \A w \in Workers : InWait(w) /\ ~released[w] =>
    \E v \in Workers :
      /\ op[v] = op[w] - 1
      /\ \/ /\ WillPost(v) \/ pc[v] \in {"read", "load", "store"}
            /\ waitp[Entry(op[v])] = w
         \/ pc[v] = "flag" /\ totwp[v] = w

\* With serial ordering the next one is released after the I/O.
InOrder ==
  ordering = "serial" => \A w \in Workers :
    /\ pc[w] \in {"post", "read", "load", "store", "flag", "signal"} => op[w] \in over
    /\ released[w] => op[w] - 1 \in over

Chains == Single /\ Linked /\ Releasing /\ OneWait

InOneLap == UnderWay /\ Chains /\ Ahead /\ Expected /\ InOrder

IInv == TypeInv /\ (lapped \/ InOneLap)

-----------------------------------------------------------------------------
(* The table *)

\* The table has two entries or more.
LEMMA TableSize == TotEntries \in Nat /\ TotEntries > 1
<1>1. QueueDepth \in Nat \ {0}
  BY TotAssumption, FS_CardinalityType, FS_EmptySet DEF TotAssumption, QueueDepth
<1>2. \A a, b \in Nat \ {0} : a * b \in Nat \ {0}
  OBVIOUS
<1>3. Multiplier \in Nat \ {0} BY TotAssumption DEF TotAssumption
<1>4. QueueDepth * Multiplier > 1
  <2>1. Multiplier > 1 \/ QueueDepth > 1 BY TotAssumption DEF TotAssumption, QueueDepth
  <2>2. CASE Multiplier = 1 BY <1>1, <2>1, <2>2
  <2>3. CASE Multiplier # 1
    <3>1. PICK k \in Nat : Multiplier = k + 2 BY <1>3, <2>3
    <3>2. QueueDepth * Multiplier = QueueDepth * k + QueueDepth + QueueDepth BY <1>1, <3>1
    <3>3. QueueDepth * k \in Nat BY <1>1, <3>1
    <3> QED BY <1>1, <3>2, <3>3
  <2> QED BY <2>2, <2>3
<1>5. /\ QueueDepth * Multiplier \in Nat
      /\ 30 * QueueDepth * Multiplier = 30 * (QueueDepth * Multiplier)
  BY <1>1, <1>3
<1>6. NumOps \in Nat \ {0} BY TotAssumption DEF TotAssumption
<1>7. 30 * (QueueDepth * Multiplier) \in Nat /\ 30 * (QueueDepth * Multiplier) > 1
  BY <1>4, <1>5
<1> QED BY <1>1, <1>4, <1>5, <1>6, <1>7 DEF TotEntries

\* Division with remainder, for all integers.
LEMMA Quotient ==
  ASSUME NEW n \in Int, NEW T \in Nat \ {0}
  PROVE  /\ n \div T \in Int /\ n % T \in 0..T-1
         /\ n = T * (n \div T) + (n % T)
<1>1. n \div T \in Int OBVIOUS
<1>2. n % T \in 0..T-1 OBVIOUS
<1>3. n = T * (n \div T) + (n % T) OBVIOUS
<1> QED BY <1>1, <1>2, <1>3

\* Numbers less than a table apart have different entries.
LEMMA OwnEntry ==
  ASSUME NEW a \in Int, NEW b \in Int, Entry(a) = Entry(b),
         a - b < TotEntries, b - a < TotEntries
  PROVE  a = b
<1> DEFINE T == TotEntries
           p == a \div T
           q == b \div T
<1>1. T \in Nat \ {0} BY TableSize
<1>2. /\ p \in Int /\ q \in Int /\ a % T = b % T
      /\ a = T * p + (a % T) /\ b = T * q + (b % T) /\ a % T \in Int
  BY <1>1, Quotient DEF Entry
<1> HIDE DEF T, p, q
<1>3. a - b = T * (p - q) BY <1>1, <1>2
<1>4. \A k \in Int : k >= 1 => T * k >= T /\ T * (-k) <= -T BY <1>1
<1>5. ~(p - q >= 1) BY <1>1, <1>2, <1>3, <1>4 DEF T
<1>6. ~(q - p >= 1) BY <1>1, <1>2, <1>3, <1>4 DEF T
<1>7. p = q BY <1>2, <1>5, <1>6
<1> QED BY <1>1, <1>2, <1>3, <1>7

\* Every operation has an entry.
LEMMA EntryType == ASSUME NEW n \in Int PROVE Entry(n) \in Entries
BY TableSize, Quotient DEF Entry, Entries

\* The previous entry is that of the operation before.
LEMMA Previous ==
  ASSUME NEW n \in Int
  PROVE  PreviousEntry(n) = Entry(n - 1)
<1> DEFINE T == TotEntries
           q == n \div T
           r == n % T
           q1 == (n - 1) \div T
           r1 == (n - 1) % T
<1>1. T \in Nat \ {0} BY TableSize
<1>2. /\ q \in Int /\ r \in 0..T-1 /\ n = T * q + r
      /\ q1 \in Int /\ r1 \in 0..T-1 /\ n - 1 = T * q1 + r1
  BY <1>1, Quotient
<1>3. PreviousEntry(n) = IF r = 0 THEN T - 1 ELSE r - 1 BY DEF PreviousEntry
<1>4. Entry(n - 1) = r1 BY DEF Entry
<1> HIDE DEF T, q, r, q1, r1
<1>5. T * (q - q1) = r1 - r + 1 BY <1>1, <1>2
<1>6. \A k \in Int : (k >= 2 => T * k >= T + T) /\ (k <= -1 => T * k <= -T) BY <1>1
<1>7. q - q1 = 0 \/ q - q1 = 1
  <2>1. ~(q - q1 >= 2) BY <1>1, <1>2, <1>5, <1>6
  <2>2. ~(q - q1 <= -1) BY <1>1, <1>2, <1>5, <1>6
  <2> QED BY <1>2, <2>1, <2>2
<1>8. r1 - r + 1 = 0 \/ r1 - r + 1 = T BY <1>1, <1>2, <1>5, <1>7
<1> QED BY <1>1, <1>2, <1>3, <1>4, <1>8

-----------------------------------------------------------------------------
(* The workers *)

Waits == {"walk", "test", "block", "asleep", "relock"}

\* An entry tells which operation it is, or is the predecessor of.
LEMMA Owner ==
  ASSUME TypeInv, UnderWay, NEW v \in Workers, op[v] # NoOp,
         NEW w \in Workers, op[w] # NoOp
  PROVE  /\ op[v] \in Nat /\ op[w] \in Nat
         /\ Entry(op[v]) = Entry(op[w]) => v = w
         /\ Entry(op[v] - 1) = Entry(op[w] - 1) => v = w
         /\ Entry(op[v]) = Entry(op[w] - 1) => op[w] = op[v] + 1
         /\ Entry(nextOp - 1) # Entry(op[w] - 1)
<1>1. /\ op[v] \in Nat /\ op[w] \in Nat /\ nextOp \in Nat
      /\ op[v] < nextOp /\ nextOp - op[v] <= TotEntries - 1
      /\ op[w] < nextOp /\ nextOp - op[w] <= TotEntries - 1
  BY DEF TypeInv, TypeOK, UnderWay, Ops
<1>2. TotEntries \in Nat /\ TotEntries > 1 BY TableSize
<1>3. Entry(op[v]) = Entry(op[w]) => op[v] = op[w] BY <1>1, <1>2, OwnEntry
<1>4. Entry(op[v] - 1) = Entry(op[w] - 1) => op[v] = op[w]
  <2>1. /\ op[v] - 1 \in Int /\ op[w] - 1 \in Int
        /\ (op[v] - 1) - (op[w] - 1) < TotEntries /\ (op[w] - 1) - (op[v] - 1) < TotEntries
    BY <1>1, <1>2
  <2>2. Entry(op[v] - 1) = Entry(op[w] - 1) => op[v] - 1 = op[w] - 1 BY <2>1, OwnEntry
  <2> QED BY <1>1, <2>2
<1>5. Entry(op[v]) = Entry(op[w] - 1) => op[w] = op[v] + 1
  <2>1. /\ op[w] - 1 \in Int
        /\ op[v] - (op[w] - 1) < TotEntries /\ (op[w] - 1) - op[v] < TotEntries
    BY <1>1, <1>2
  <2>2. Entry(op[v]) = Entry(op[w] - 1) => op[v] = op[w] - 1 BY <1>1, <2>1, OwnEntry
  <2> QED BY <1>1, <2>2
<1>6. Entry(nextOp - 1) # Entry(op[w] - 1)
  <2>1. /\ op[w] - 1 \in Int /\ nextOp - 1 \in Int
        /\ (nextOp - 1) - (op[w] - 1) < TotEntries /\ (op[w] - 1) - (nextOp - 1) < TotEntries
    BY <1>1, <1>2
  <2>2. Entry(nextOp - 1) = Entry(op[w] - 1) => nextOp - 1 = op[w] - 1 BY <2>1, OwnEntry
  <2> QED BY <1>1, <2>2
<1>7. op[v] = op[w] => v = w BY DEF UnderWay
<1> QED BY <1>1, <1>3, <1>4, <1>5, <1>6, <1>7

\* The chain of an entry is empty when a worker links itself into it.
LEMMA FirstInChain ==
  ASSUME TypeInv, UnderWay, Linked, NEW w \in Workers, Enqueue(w)
  PROVE  /\ op[w] # NoOp /\ Entry(op[w] - 1) \in Entries
         /\ PreviousEntry(op[w]) = Entry(op[w] - 1)
         /\ waitp[Entry(op[w] - 1)] = NoWorker
         /\ waitp' = [waitp EXCEPT ![Entry(op[w] - 1)] = w]
         /\ pc' = [pc EXCEPT ![w] = "test"] /\ UNCHANGED <<nextp, totwp>>
<1> DEFINE e == Entry(op[w] - 1)
<1> USE DEF TypeInv, Places
<1>1. pc[w] = "wait" /\ op[w] # NoOp BY DEF Enqueue, NoOp
<1>2. op[w] \in Int BY <1>1 DEF TypeOK, Ops
<1>3. PreviousEntry(op[w]) = e /\ e \in Entries BY <1>2, Previous, EntryType
<1>4. waitp[e] = NoWorker
  <2> SUFFICES ASSUME waitp[e] # NoWorker PROVE FALSE OBVIOUS
  <2>1. waitp[e] \in Workers BY <1>3 DEF TypeOK
  <2>2. InWait(waitp[e]) /\ Entry(op[waitp[e]] - 1) = e BY <1>3 DEF Linked
  <2>3. op[waitp[e]] # NoOp BY <2>1, <2>2 DEF UnderWay, InWait
  <2>4. waitp[e] = w BY <1>1, <2>1, <2>2, <2>3, Owner
  <2> QED BY <1>1, <2>2, <2>4 DEF InWait
<1> QED BY <1>1, <1>3, <1>4 DEF Enqueue, Goto

\* Initially nobody waits.
LEMMA InitIInv == Init => IInv
<1> SUFFICES ASSUME Init PROVE IInv OBVIOUS
<1> USE DEF Init
<1>1. TypeOK
  <2>1. 0 \in 0..NumOps BY TotAssumption DEF TotAssumption
  <2> QED BY <2>1 DEF TypeOK
<1>2. UnderWay /\ Single /\ Linked /\ Releasing
  BY TotAssumption DEF TotAssumption, UnderWay, Single, Linked, Releasing, InWait
<1>3. Ahead BY DEF Ahead, Ops
<1>4. Expected /\ OneWait /\ InOrder
  BY DEF Expected, OneWait, InOrder, InWait
<1>5. Places BY DEF Places
<1> QED BY <1>1, <1>2, <1>3, <1>4, <1>5 DEF IInv, TypeInv, InOneLap, Chains

\* Every step keeps the types.
LEMMA TypeStep == TypeInv /\ [Next]_vars => TypeInv'
<1> SUFFICES ASSUME TypeInv, [Next]_vars PROVE TypeInv' OBVIOUS
<1> USE DEF TypeInv, Places, TypeOK, Goto, tot, history
<1>1. ASSUME NEW w \in Workers, Assign(w) PROVE TypeInv'
  <2>1. nextOp \in Ops /\ nextOp + 1 \in 0..NumOps /\ nextOp # NoOp
    BY <1>1, TotAssumption DEF Assign, OpsLeft, Ops, NoOp, TotAssumption
  <2>2. lapped' \in BOOLEAN BY <1>1 DEF Assign, Laps
  <2>3. TypeOK' BY <1>1, <2>1, <2>2 DEF Assign
  <2>4. Places' BY <1>1, <2>1 DEF Assign
  <2> QED BY <2>3, <2>4
<1>2. ASSUME NEW w \in Workers, NoPrevious(w) \/ SpuriousWakeup(w) PROVE TypeInv'
  <2>1. CASE NoPrevious(w) BY <2>1 DEF NoPrevious
  <2>2. CASE SpuriousWakeup(w)
    <3>1. TypeOK' BY <2>2 DEF SpuriousWakeup
    <3>2. Places' BY <2>2 DEF SpuriousWakeup
    <3> QED BY <3>1, <3>2
  <2> QED BY <1>2, <2>1, <2>2
<1>3. ASSUME NEW w \in Workers, PreviousAvailable(w) PROVE TypeInv'
  BY <1>3 DEF PreviousAvailable
<1>4. ASSUME NEW w \in Workers, Enqueue(w) PROVE TypeInv'
  <2>1. op[w] \in Ops BY <1>4 DEF Enqueue
  <2>2. PreviousEntry(op[w]) \in Entries
    BY <2>1, Previous, EntryType DEF Ops
  <2>3. CASE waitp[PreviousEntry(op[w])] = NoWorker BY <1>4, <2>2, <2>3 DEF Enqueue
  <2>4. CASE waitp[PreviousEntry(op[w])] # NoWorker
    BY <1>4, <2>2, <2>4 DEF Enqueue
  <2> QED BY <2>3, <2>4
<1>5. ASSUME NEW w \in Workers, Append(w) PROVE TypeInv'
  <2>1. totwp[w] \in Workers BY <1>5 DEF Append
  <2>2. CASE nextp[totwp[w]] = NoWorker BY <1>5, <2>1, <2>2 DEF Append
  <2>3. CASE nextp[totwp[w]] # NoWorker BY <1>5, <2>1, <2>3 DEF Append
  <2> QED BY <2>2, <2>3
<1>6. ASSUME NEW w \in Workers, TestReleased(w) PROVE TypeInv'
  <2>1. CASE released[w]
    <3>1. /\ released' = [released EXCEPT ![w] = FALSE]
          /\ startled' = [startled EXCEPT ![w] = FALSE]
          /\ \E e \in {PreviousEntry(op[w])} :
               /\ status' = [status EXCEPT ![e] = "UNAVAILABLE"]
               /\ mutex' = [mutex EXCEPT ![e] = NoWorker]
          /\ pc' = [pc EXCEPT ![w] = "check"]
          /\ UNCHANGED <<ordering, nextOp, aborted, op, after, totwp, loaded, waitp, nextp,
                         over, lapped>>
      BY <1>6, <2>1 DEF TestReleased, ResetsRelease
    <3>2. TypeOK' BY <3>1
    <3>3. Places' BY <1>6, <2>1 DEF TestReleased
    <3> QED BY <3>2, <3>3
  <2>2. CASE ~released[w] BY <1>6, <2>2 DEF TestReleased
  <2> QED BY <2>1, <2>2
<1>7. ASSUME NEW w \in Workers, Block(w) \/ Relock(w) PROVE TypeInv'
  BY <1>7 DEF Block, Relock
<1>8. ASSUME NEW w \in Workers, Check(w) \/ Io(w) PROVE TypeInv'
  <2>1. op[w] \in Ops BY <1>8 DEF Check, Io
  <2>2. CASE Check(w)
    <3>1. (IF aborted THEN SkippedGoesTo ELSE IF ReleasesEarly THEN "post" ELSE "io")
            \in {"post", "io"}
      BY DEF SkippedGoesTo
    <3> QED BY <2>1, <2>2, <3>1 DEF Check
  <2>3. CASE Io(w)
    <3>1. aborted' \in BOOLEAN BY <2>3, TotAssumption DEF Io, TotAssumption
    <3> QED BY <2>1, <2>3, <3>1 DEF Io
  <2> QED BY <1>8, <2>2, <2>3
<1>9. ASSUME NEW w \in Workers, Post(w) \/ ReadNobody(w) PROVE TypeInv'
  BY <1>9 DEF Post, ReadNobody, Leave
<1>10. ASSUME NEW w \in Workers, ReadWaiter(w) \/ StoreNext(w) PROVE TypeInv'
  <2>1. op[w] \in Ops BY <1>10 DEF ReadWaiter, StoreNext
  <2>2. Entry(op[w]) \in Entries BY <2>1, EntryType DEF Ops
  <2> QED BY <1>10, <2>2 DEF ReadWaiter, StoreNext
<1>11. ASSUME NEW w \in Workers, LoadNext(w) \/ FlagWaiter(w) PROVE TypeInv'
  <2>1. totwp[w] \in Workers BY <1>11 DEF LoadNext, FlagWaiter
  <2>2. CASE LoadNext(w) BY <2>1, <2>2 DEF LoadNext
  <2>3. CASE FlagWaiter(w) BY <2>1, <2>3 DEF FlagWaiter
  <2> QED BY <1>11, <2>2, <2>3
<1>12. ASSUME NEW w \in Workers, SignalWaiter(w) PROVE TypeInv'
  <2>1. totwp[w] \in Workers BY <1>12 DEF SignalWaiter
  <2>2. op' \in [Workers -> Ops \cup {NoOp}] BY <1>12 DEF SignalWaiter, Leave
  <2>3. pc' \in [Workers -> {"idle", "wait", "walk", "test", "block", "asleep", "relock",
                             "check", "io", "post", "read", "load", "store", "flag",
                             "signal"}]
    BY <1>12, <2>1 DEF SignalWaiter
  <2>4. TypeOK' BY <1>12, <2>1, <2>2, <2>3 DEF SignalWaiter
  <2>5. /\ pc'[w] = after[w] /\ after[w] \in {"idle", "io"} /\ pc[w] = "signal"
        /\ \A u \in Workers : u # w => pc'[u] = pc[u] \/ (pc[u] = "asleep" /\ pc'[u] = "relock")
    BY <1>12, <2>1 DEF SignalWaiter, Wakes
  <2>6. /\ totwp' = totwp /\ op'[w] = (IF after[w] = "idle" THEN NoOp ELSE op[w])
        /\ \A u \in Workers : u # w => op'[u] = op[u]
    BY <1>12 DEF SignalWaiter, Leave
  <2>7. Places' BY <2>5, <2>6
  <2> QED BY <2>4, <2>7
<1>13. CASE Cancel BY <1>13 DEF Cancel, wvars
<1>14. CASE UNCHANGED vars \/ Finished BY <1>14 DEF vars, wvars, Finished
<1> QED BY <1>1, <1>2, <1>3, <1>4, <1>5, <1>6, <1>7, <1>8, <1>9, <1>10, <1>11, <1>12,
           <1>13, <1>14
        DEF Next, Step

\* A lap is not forgotten, and the ordering stays.
LEMMA HistoryStep == TypeInv /\ [Next]_vars => (lapped => lapped') /\ ordering' = ordering
<1> USE DEF TypeInv, TypeOK, history
<1>1. ASSUME NEW w \in Workers, Assign(w) PROVE (lapped => lapped') /\ ordering' = ordering
  BY <1>1 DEF Assign
<1>2. ASSUME NEW w \in Workers,
             NoPrevious(w) \/ PreviousAvailable(w) \/ Enqueue(w) \/ Append(w)
               \/ TestReleased(w) \/ Block(w) \/ Relock(w) \/ SpuriousWakeup(w)
      PROVE  (lapped => lapped') /\ ordering' = ordering
  BY <1>2 DEF NoPrevious, PreviousAvailable, Enqueue, Append, TestReleased, Block, Relock,
              SpuriousWakeup
<1>3. ASSUME NEW w \in Workers,
             Check(w) \/ Io(w) \/ Post(w) \/ ReadNobody(w) \/ ReadWaiter(w) \/ LoadNext(w)
               \/ StoreNext(w) \/ FlagWaiter(w) \/ SignalWaiter(w)
      PROVE  (lapped => lapped') /\ ordering' = ordering
  BY <1>3 DEF Check, Io, Post, ReadNobody, ReadWaiter, LoadNext, StoreNext, FlagWaiter,
              SignalWaiter
<1>4. CASE Cancel \/ UNCHANGED vars \/ Finished BY <1>4 DEF Cancel, vars, Finished
<1> QED BY <1>1, <1>2, <1>3, <1>4 DEF Next, Step

\* The operations under way are different ones, less than
\* a table behind, unless there is a lap.
LEMMA UnderWayStep == TypeInv /\ UnderWay /\ Single /\ [Next]_vars /\ ~lapped' => UnderWay'
<1> SUFFICES ASSUME TypeInv, UnderWay, Single, [Next]_vars, ~lapped' PROVE UnderWay'
  OBVIOUS
<1> USE DEF TypeInv, Places, TypeOK, Goto, tot
<1>1. CASE /\ UNCHANGED <<op, nextOp>>
           /\ \A u \in Workers : pc'[u] \in Waits => pc[u] \in Waits \/ op[u] # 0
  BY <1>1 DEF UnderWay, InWait, Waits
<1>2. ASSUME NEW w \in Workers, Assign(w) PROVE UnderWay'
  <2>1. /\ op' = [op EXCEPT ![w] = nextOp] /\ nextOp' = nextOp + 1 /\ nextOp \in Nat
        /\ pc' = [pc EXCEPT ![w] = "wait"] /\ nextOp # NoOp
    BY <1>2 DEF Assign, NoOp
  <2>2. \A u \in Workers : op[u] # NoOp => op[u] \in Nat /\ nextOp - op[u] < TotEntries - 1
    <3>1. ~Laps BY <1>2 DEF Assign
    <3>2. \A u \in Workers : op[u] # NoOp => op[u] \in Outstanding /\ op[u] \in Nat
      BY DEF Outstanding, Ops
    <3> QED BY <2>1, <3>1, <3>2, TableSize DEF Laps
  <2>3. \A u \in Workers : op'[u] # NoOp =>
          op'[u] < nextOp' /\ nextOp' - op'[u] <= TotEntries - 1
    BY <2>1, <2>2, TableSize DEF UnderWay
  <2>4. \A u, v \in Workers : op'[u] = op'[v] /\ op'[u] # NoOp => u = v
    BY <2>1, <2>2 DEF UnderWay
  <2>5. \A u \in Workers : InWait(u)' => op'[u] # 0 BY <2>1 DEF UnderWay, InWait
  <2> QED BY <2>3, <2>4, <2>5 DEF UnderWay
<1>3. ASSUME NEW w \in Workers, NoPrevious(w) \/ PreviousAvailable(w) \/ Enqueue(w) \/ Append(w)
      PROVE  UnderWay'
  BY <1>1, <1>3 DEF NoPrevious, PreviousAvailable, Enqueue, Append, Single, Waits
<1>4. ASSUME NEW w \in Workers, TestReleased(w) \/ Block(w) \/ Relock(w) \/ SpuriousWakeup(w)
      PROVE  UnderWay'
  BY <1>1, <1>4 DEF TestReleased, Block, Relock, SpuriousWakeup, Waits
<1>5. ASSUME NEW w \in Workers, Check(w) \/ Io(w) \/ Post(w) PROVE UnderWay'
  <2>1. (IF aborted THEN SkippedGoesTo ELSE IF ReleasesEarly THEN "post" ELSE "io")
          \in {"post", "io"}
    BY DEF SkippedGoesTo
  <2> QED BY <1>1, <1>5, <2>1 DEF Check, Io, Post, Waits
<1>6. ASSUME NEW w \in Workers, ReadWaiter(w) \/ LoadNext(w) \/ StoreNext(w) \/ FlagWaiter(w)
      PROVE  UnderWay'
  BY <1>1, <1>6 DEF ReadWaiter, LoadNext, StoreNext, FlagWaiter, Waits
<1>7. ASSUME NEW w \in Workers, ReadNobody(w) \/ SignalWaiter(w) PROVE UnderWay'
  <2>1. /\ pc'[w] = after[w] /\ after[w] \in {"idle", "io"} /\ pc[w] # "idle"
        /\ \A u \in Workers : u # w => pc'[u] = pc[u] \/ (pc[u] = "asleep" /\ pc'[u] = "relock")
    BY <1>7 DEF ReadNobody, SignalWaiter, Wakes
  <2>2. /\ nextOp' = nextOp /\ op'[w] = (IF after[w] = "idle" THEN NoOp ELSE op[w])
        /\ \A u \in Workers : u # w => op'[u] = op[u]
    BY <1>7 DEF ReadNobody, SignalWaiter, Leave
  <2>3. \A u \in Workers : InWait(u)' => op'[u] # 0 BY <2>1, <2>2 DEF UnderWay, InWait
  <2>4. \A u \in Workers : op'[u] # NoOp => op'[u] = op[u] BY <2>2
  <2> QED BY <2>2, <2>3, <2>4 DEF UnderWay
<1>8. CASE Cancel \/ UNCHANGED vars \/ Finished BY <1>1, <1>8 DEF Cancel, vars, wvars, Finished
<1> QED BY <1>2, <1>3, <1>4, <1>5, <1>6, <1>7, <1>8 DEF Next, Step

\* Every step keeps chains short, and the waiter in the hands of one worker.
LEMMA ChainsStep == TypeInv /\ UnderWay /\ Chains /\ [Next]_vars => Chains'
<1> SUFFICES ASSUME TypeInv, UnderWay, Chains, [Next]_vars PROVE Chains' OBVIOUS
<1> USE DEF TypeInv, Places, TypeOK, Goto, tot
\* A step that leaves the chains and those who are in them or release them alone.
<1>1. CASE /\ waitp' = waitp /\ released' = released
           /\ \A u \in Workers : nextp'[u] = NoWorker /\ pc'[u] # "walk"
           /\ \A u \in Workers : pc[u] \in Waits => pc'[u] \in Waits /\ op'[u] = op[u]
           /\ \A u \in Workers : pc'[u] \in {"load", "store", "flag", "signal"} =>
                /\ pc'[u] = pc[u] /\ op'[u] = op[u]
                /\ totwp'[u] = totwp[u] /\ loaded'[u] = loaded[u]
  <2>1. Single' BY <1>1 DEF Single
  <2>2. Linked' BY <1>1 DEF Chains, Linked, InWait, Waits
  <2>3. OneWait' BY <1>1 DEF Chains, OneWait, InWait, Waits
  <2>4. Releasing' BY <1>1 DEF Chains, Releasing, InWait, Waits
  <2> QED BY <2>1, <2>2, <2>3, <2>4 DEF Chains
<1>2. ASSUME NEW w \in Workers,
             Assign(w) \/ NoPrevious(w) \/ PreviousAvailable(w) \/ Block(w) \/ Relock(w)
               \/ SpuriousWakeup(w)
      PROVE  Chains'
  BY <1>1, <1>2 DEF Assign, NoPrevious, PreviousAvailable, Block, Relock, SpuriousWakeup,
                    Waits, Chains, Single
<1>3. ASSUME NEW w \in Workers, Check(w) \/ Io(w) \/ Post(w) PROVE Chains'
  <2>1. (IF aborted THEN SkippedGoesTo ELSE IF ReleasesEarly THEN "post" ELSE "io")
          \in {"post", "io"}
    BY DEF SkippedGoesTo
  <2> QED BY <1>1, <1>3, <2>1 DEF Check, Io, Post, Waits, Chains, Single
<1>4. ASSUME NEW w \in Workers, ReadNobody(w) PROVE Chains'
  BY <1>1, <1>4 DEF ReadNobody, Leave, Waits, Chains, Single
<1>5. ASSUME NEW w \in Workers, SignalWaiter(w) PROVE Chains'
  <2>1. /\ pc'[w] \in {"idle", "io"} /\ pc[w] = "signal"
        /\ \A u \in Workers : u # w => pc'[u] = pc[u] \/ (pc[u] = "asleep" /\ pc'[u] = "relock")
    BY <1>5 DEF SignalWaiter, Wakes
  <2>2. \A u \in Workers : u # w => op'[u] = op[u] BY <1>5 DEF SignalWaiter, Leave
  <2>3. \A u \in Workers : nextp'[u] = NoWorker BY <1>5 DEF SignalWaiter, Chains, Single
  <2>4. UNCHANGED <<waitp, released, totwp, loaded>> BY <1>5 DEF SignalWaiter
  <2> QED BY <1>1, <2>1, <2>2, <2>3, <2>4 DEF Waits, Chains, Single
<1>6. ASSUME NEW w \in Workers, TestReleased(w) PROVE Chains'
  <2>1. CASE ~released[w] BY <1>1, <1>6, <2>1 DEF TestReleased, Waits, Chains, Single
  <2>2. CASE released[w]
    <3>1. /\ UNCHANGED <<waitp, nextp, op, totwp, loaded>> /\ pc'[w] = "check"
          /\ ~released'[w] /\ pc[w] = "test"
          /\ \A u \in Workers : u # w => pc'[u] = pc[u] /\ released'[u] = released[u]
      BY <1>6, <2>2 DEF TestReleased, ResetsRelease
    <3>2. \A e \in Entries : waitp[e] # w
      BY <2>2, TotAssumption DEF Chains, Linked, TotAssumption
    <3>3. \A v \in Workers : pc[v] = "flag" => totwp[v] # w BY <2>2 DEF Chains, Releasing
    <3>4. Linked' BY <3>1, <3>2 DEF Chains, Linked, InWait
    <3>5. Releasing' BY <3>1, <3>3 DEF Chains, Releasing, InWait
    <3>6. OneWait' BY <3>1 DEF Chains, OneWait, InWait
    <3> QED BY <3>1, <3>4, <3>5, <3>6 DEF Chains, Single
  <2> QED BY <2>1, <2>2
<1>7. ASSUME NEW w \in Workers, Enqueue(w) PROVE Chains'
  <2> DEFINE e == Entry(op[w] - 1)
  <2>1. /\ op[w] # NoOp /\ e \in Entries /\ waitp[e] = NoWorker
        /\ waitp' = [waitp EXCEPT ![e] = w] /\ nextp' = nextp
        /\ pc' = [pc EXCEPT ![w] = "test"] /\ totwp' = totwp
    BY <1>7, FirstInChain DEF Chains
  <2>2. /\ UNCHANGED <<op, released, totwp, loaded>> /\ pc[w] = "wait" /\ pc'[w] = "test"
        /\ \A u \in Workers : u # w => pc'[u] = pc[u]
    BY <1>7, <2>1 DEF Enqueue
  <2>3. ~released[w] BY <2>2 DEF Chains, OneWait, InWait
  <2>4. Linked' BY <2>1, <2>2, <2>3 DEF Chains, Linked, InWait
  <2>5. OneWait' BY <2>2 DEF Chains, OneWait, InWait
  <2>6. ASSUME NEW v \in Workers, pc[v] \in {"load", "store"} PROVE Entry(op[v]) # e
    BY <2>1, <2>6, TotAssumption DEF Chains, Releasing
  <2>7. ASSUME NEW v \in Workers, pc[v] = "flag" PROVE Entry(op[v]) # e
    <3> SUFFICES ASSUME Entry(op[v]) = e PROVE FALSE OBVIOUS
    <3>1. op[v] # NoOp BY <2>7 DEF UnderWay
    <3>2. op[w] = op[v] + 1 BY <2>1, <3>1, Owner
    <3>3. totwp[v] \in Workers /\ op[totwp[v]] = op[v] + 1 /\ InWait(totwp[v])
      BY <2>7 DEF Chains, Releasing
    <3>4. totwp[v] = w BY <2>1, <3>2, <3>3 DEF UnderWay
    <3> QED BY <2>2, <3>3, <3>4 DEF InWait
  <2>8. Releasing' BY <2>1, <2>2, <2>6, <2>7 DEF Chains, Releasing, InWait
  <2>9. Single' BY <2>1, <2>2 DEF Chains, Single
  <2> QED BY <2>4, <2>5, <2>8, <2>9 DEF Chains
<1>8. ASSUME NEW w \in Workers, ReadWaiter(w) \/ LoadNext(w) PROVE Chains'
  <2>1. /\ UNCHANGED <<waitp, nextp, released, op>> /\ pc[w] \in {"read", "load"}
        /\ \A u \in Workers : u # w => /\ pc'[u] = pc[u] /\ totwp'[u] = totwp[u]
                                       /\ loaded'[u] = loaded[u]
        /\ pc'[w] \in {"load", "store"}
        /\ totwp'[w] # NoWorker /\ totwp'[w] = waitp[Entry(op[w])]
        /\ pc'[w] = "store" => loaded'[w] = NoWorker
    BY <1>8 DEF ReadWaiter, LoadNext, Chains, Releasing, Single
  <2>2. Linked' /\ OneWait'
    BY <2>1 DEF Chains, Linked, OneWait, InWait
  <2>3. Releasing' BY <2>1 DEF Chains, Releasing, InWait
  <2> QED BY <2>1, <2>2, <2>3 DEF Chains, Single
<1>9. ASSUME NEW w \in Workers, StoreNext(w) PROVE Chains'
  <2> DEFINE e == Entry(op[w])
  <2>1. op[w] # NoOp /\ op[w] \in Int BY <1>9 DEF UnderWay, StoreNext, Ops
  <2>2. /\ UNCHANGED <<nextp, released, op, totwp, loaded>> /\ pc[w] = "store" /\ pc'[w] = "flag"
        /\ \A u \in Workers : u # w => pc'[u] = pc[u]
        /\ waitp' = [waitp EXCEPT ![e] = NoWorker] /\ e \in Entries
    BY <1>9, <2>1, EntryType DEF StoreNext, Chains, Releasing
  <2>3. Linked' /\ OneWait'
    BY <2>2 DEF Chains, Linked, OneWait, InWait
  <2>4. totwp[w] \in Workers /\ totwp[w] = waitp[e] BY <2>2 DEF Chains, Releasing
  <2>5. InWait(totwp[w]) /\ ~released[totwp[w]] /\ Entry(op[totwp[w]] - 1) = e
    BY <2>2, <2>4, TotAssumption DEF Chains, Linked, TotAssumption
  <2>6. op[totwp[w]] # NoOp BY <2>4, <2>5 DEF UnderWay, InWait
  <2>7. op[totwp[w]] = op[w] + 1 BY <2>1, <2>4, <2>5, <2>6, Owner
  <2>8. ASSUME NEW v \in Workers, v # w, pc[v] \in {"load", "store", "flag"}
        PROVE  Entry(op[v]) # e
    <3>1. op[v] # NoOp BY <2>8 DEF UnderWay
    <3> QED BY <2>1, <2>8, <3>1, Owner
  <2>9. ASSUME NEW v \in Workers, v # w, pc[v] \in {"load", "store", "flag"}
        PROVE  waitp'[Entry(op[v])] = waitp[Entry(op[v])]
    BY <2>2, <2>8, <2>9
  <2>10. InWait(totwp[w])' /\ waitp'[e] = NoWorker BY <2>2, <2>4, <2>5 DEF InWait
  <2>11. \A v \in Workers : v # w /\ InWait(v) => InWait(v)' BY <2>2 DEF InWait
  <2>12. \A v \in Workers : InWait(v) => v # w BY <2>2 DEF InWait
  <2>13. Releasing'
    BY <2>2, <2>4, <2>5, <2>7, <2>9, <2>10, <2>11, <2>12 DEF Chains, Releasing
  <2> QED BY <2>2, <2>3, <2>13 DEF Chains, Single
<1>10. ASSUME NEW w \in Workers, FlagWaiter(w) PROVE Chains'
  <2> DEFINE x == totwp[w]
  <2>1. /\ x \in Workers /\ InWait(x) /\ op[x] = op[w] + 1 /\ waitp[Entry(op[w])] = NoWorker
        /\ pc[w] = "flag" /\ op[w] # NoOp
    BY <1>10 DEF FlagWaiter, Chains, Releasing, UnderWay
  <2>2. /\ UNCHANGED <<waitp, nextp, op, totwp, loaded>> /\ pc'[w] = "signal"
        /\ \A u \in Workers : u # w => pc'[u] = pc[u]
        /\ released' = [released EXCEPT ![x] = TRUE]
    BY <1>10 DEF FlagWaiter
  <2>3. op[w] \in Int BY <2>1 DEF Ops
  <2>4. \A e \in Entries : waitp[e] # x
    <3> SUFFICES ASSUME NEW e \in Entries, waitp[e] = x PROVE FALSE OBVIOUS
    <3>1. Entry(op[x] - 1) = e BY <2>1, TotAssumption DEF Chains, Linked, TotAssumption
    <3>2. op[x] - 1 = op[w] BY <2>1, <2>3
    <3> QED BY <2>1, <3>1, <3>2, TotAssumption DEF TotAssumption
  <2>5. ASSUME NEW v \in Workers, v # w, pc[v] = "flag" PROVE totwp[v] # x
    <3>1. op[v] \in Ops /\ op[totwp[v]] = op[v] + 1 BY <2>5 DEF Chains, Releasing, UnderWay
    <3>2. totwp[v] = x => op[v] = op[w] BY <2>1, <2>3, <3>1 DEF Ops
    <3>3. op[v] = op[w] => v = w BY <2>1 DEF UnderWay
    <3> QED BY <2>5, <3>2, <3>3
  <2>6. \A v \in Workers : InWait(v) => InWait(v)' BY <2>1, <2>2 DEF InWait
  <2>7. Linked' BY <2>2, <2>4, <2>6 DEF Chains, Linked
  <2>8. OneWait' BY <2>1, <2>2, <2>6 DEF Chains, OneWait
  <2>9. Releasing' BY <2>1, <2>2, <2>5, <2>6, TotAssumption DEF Chains, Releasing, TotAssumption
  <2> QED BY <2>2, <2>7, <2>8, <2>9 DEF Chains, Single
<1>11. CASE Cancel \/ UNCHANGED vars \/ Finished
  BY <1>1, <1>11 DEF Cancel, vars, wvars, Finished, Chains, Single
<1>12. \A w \in Workers : ~Append(w) BY DEF Append, Chains, Single
<1> QED BY <1>2, <1>3, <1>4, <1>5, <1>6, <1>7, <1>8, <1>9, <1>10, <1>11, <1>12 DEF Next, Step

\* Whoever finds its predecessor UNAVAILABLE is ahead of somebody who posts.
LEMMA AheadStep == TypeInv /\ UnderWay /\ Single /\ Linked /\ Ahead /\ [Next]_vars => Ahead'
<1> SUFFICES ASSUME TypeInv, UnderWay, Single, Linked, Ahead, [Next]_vars PROVE Ahead'
  OBVIOUS
<1> USE DEF TypeInv, Places, TypeOK, Goto, tot
<1> DEFINE Willing == {"wait", "test", "block", "asleep", "relock", "check", "io", "post"}
\* A step that looks at no entry and changes none.
<1>1. CASE /\ UNCHANGED <<nextOp, status>>
           /\ \A u \in Workers : pc'[u] = "wait" => pc[u] = "wait" /\ op'[u] = op[u]
           /\ \A u \in Workers : pc[u] \in Willing => pc'[u] \in Willing /\ op'[u] = op[u]
  <2> SUFFICES ASSUME NEW n \in Ops, n < nextOp,
                      n + 1 = nextOp \/ \E u \in Workers : op'[u] = n + 1 /\ pc'[u] = "wait"
               PROVE  status[Entry(n)] = "AVAILABLE" \/ \E v \in Workers : op'[v] = n /\ WillPost(v)'
    BY <1>1 DEF Ahead
  <2>1. n + 1 = nextOp \/ \E u \in Workers : op[u] = n + 1 /\ pc[u] = "wait" BY <1>1
  <2>2. status[Entry(n)] = "AVAILABLE" \/ \E v \in Workers : op[v] = n /\ WillPost(v)
    BY <2>1 DEF Ahead
  <2> QED BY <1>1, <2>2 DEF WillPost
<1>2. ASSUME NEW w \in Workers, Assign(w) PROVE Ahead'
  <2>1. /\ status' = status /\ nextOp' = nextOp + 1 /\ nextOp \in Nat /\ pc[w] = "idle"
        /\ op'[w] = nextOp /\ pc'[w] = "wait"
        /\ \A u \in Workers : u # w => op'[u] = op[u] /\ pc'[u] = pc[u]
    BY <1>2 DEF Assign
  <2> SUFFICES ASSUME NEW n \in Ops, n < nextOp + 1,
                      \/ n + 1 = nextOp + 1
                      \/ \E u \in Workers : op'[u] = n + 1 /\ pc'[u] = "wait"
               PROVE  status[Entry(n)] = "AVAILABLE" \/ \E v \in Workers : op'[v] = n /\ WillPost(v)'
    BY <2>1 DEF Ahead
  <2>2. CASE n = nextOp BY <2>1, <2>2 DEF WillPost
  <2>3. CASE n # nextOp
    <3>1. n \in Nat /\ n < nextOp BY <2>1, <2>3 DEF Ops
    <3>2. n + 1 = nextOp \/ \E u \in Workers : op[u] = n + 1 /\ pc[u] = "wait"
      BY <2>1, <2>3, <3>1
    <3>3. status[Entry(n)] = "AVAILABLE" \/ \E v \in Workers : op[v] = n /\ WillPost(v)
      BY <3>1, <3>2 DEF Ahead
    <3> QED BY <2>1, <3>3 DEF WillPost
  <2> QED BY <2>2, <2>3
\* Only the successor makes an entry UNAVAILABLE, and then it is past the look.
<1>3. ASSUME NEW w \in Workers, op[w] # NoOp, UNCHANGED <<nextOp, op>>,
             status' = [status EXCEPT ![Entry(op[w] - 1)] = "UNAVAILABLE"],
             pc[w] \in {"wait", "test"}, pc' = [pc EXCEPT ![w] = "check"]
      PROVE  Ahead'
  <2> SUFFICES ASSUME NEW n \in Ops, n < nextOp,
                      n + 1 = nextOp \/ \E u \in Workers : op[u] = n + 1 /\ pc'[u] = "wait"
               PROVE  status'[Entry(n)] = "AVAILABLE" \/ \E v \in Workers : op[v] = n /\ WillPost(v)'
    BY <1>3 DEF Ahead
  <2>1. n + 1 = nextOp \/ \E u \in Workers : u # w /\ op[u] = n + 1 /\ pc[u] = "wait" BY <1>3
  <2>2. n \in Nat /\ n + 1 # NoOp /\ (n + 1) - 1 = n /\ (n + 1 = nextOp => nextOp - 1 = n)
    BY DEF Ops, NoOp
  <2>3. Entry(n) # Entry(op[w] - 1)
    <3>1. CASE n + 1 = nextOp BY <1>3, <2>2, <3>1, Owner
    <3>2. ASSUME NEW u \in Workers, u # w, op[u] = n + 1 PROVE Entry(n) # Entry(op[w] - 1)
      <4>1. op[u] # NoOp /\ op[u] - 1 = n BY <2>2, <3>2
      <4>2. Entry(op[u] - 1) # Entry(op[w] - 1) BY <1>3, <3>2, <4>1, Owner
      <4> QED BY <4>1, <4>2
    <3> QED BY <2>1, <3>1, <3>2
  <2>4. status'[Entry(n)] = status[Entry(n)]
    BY <1>3, <2>2, <2>3, EntryType
  <2>5. status[Entry(n)] = "AVAILABLE" \/ \E v \in Workers : op[v] = n /\ WillPost(v)
    BY <2>1 DEF Ahead
  <2>6. \A v \in Workers : WillPost(v) => WillPost(v)' BY <1>3 DEF WillPost
  <2> QED BY <2>4, <2>5, <2>6
<1>4. ASSUME NEW w \in Workers, PreviousAvailable(w) PROVE Ahead'
  <2>1. op[w] # NoOp BY <1>4 DEF PreviousAvailable, UnderWay
  <2>2. PreviousEntry(op[w]) = Entry(op[w] - 1) BY <2>1, Previous DEF Ops
  <2> QED BY <1>3, <1>4, <2>1, <2>2 DEF PreviousAvailable
<1>5. ASSUME NEW w \in Workers, TestReleased(w) PROVE Ahead'
  <2>1. CASE ~released[w] BY <1>1, <1>5, <2>1 DEF TestReleased
  <2>2. CASE released[w]
    <3>1. op[w] # NoOp BY <1>5 DEF TestReleased, UnderWay
    <3>2. PreviousEntry(op[w]) = Entry(op[w] - 1) BY <3>1, Previous DEF Ops
    <3> QED BY <1>3, <1>5, <2>2, <3>1, <3>2 DEF TestReleased
  <2> QED BY <2>1, <2>2
<1>6. ASSUME NEW w \in Workers, Post(w) PROVE Ahead'
  <2>1. op[w] # NoOp BY <1>6 DEF Post, UnderWay
  <2>2. Entry(op[w]) \in Entries BY <2>1, EntryType DEF Ops
  <2>3. /\ UNCHANGED <<nextOp, op>> /\ status' = [status EXCEPT ![Entry(op[w])] = "AVAILABLE"]
        /\ pc[w] = "post" /\ pc'[w] = "read" /\ \A u \in Workers : u # w => pc'[u] = pc[u]
    BY <1>6 DEF Post
  <2> SUFFICES ASSUME NEW n \in Ops, n < nextOp,
                      n + 1 = nextOp \/ \E u \in Workers : op[u] = n + 1 /\ pc'[u] = "wait"
               PROVE  status'[Entry(n)] = "AVAILABLE" \/ \E v \in Workers : op[v] = n /\ WillPost(v)'
    BY <2>3 DEF Ahead
  <2>4. n + 1 = nextOp \/ \E u \in Workers : op[u] = n + 1 /\ pc[u] = "wait" BY <2>3
  <2>5. status[Entry(n)] = "AVAILABLE" \/ \E v \in Workers : op[v] = n /\ WillPost(v)
    BY <2>4 DEF Ahead
  <2>6. Entry(n) \in Entries BY EntryType DEF Ops
  <2>7. CASE status[Entry(n)] = "AVAILABLE" BY <2>2, <2>3, <2>6, <2>7
  <2>8. ASSUME NEW v \in Workers, op[v] = n, WillPost(v)
        PROVE  status'[Entry(n)] = "AVAILABLE" \/ \E u \in Workers : op[u] = n /\ WillPost(u)'
    <3>1. CASE v = w BY <2>2, <2>3, <2>8, <3>1
    <3>2. CASE v # w BY <2>3, <2>8, <3>2 DEF WillPost
    <3> QED BY <3>1, <3>2
  <2> QED BY <2>5, <2>7, <2>8
<1>7. ASSUME NEW w \in Workers, Check(w) \/ Io(w) PROVE Ahead'
  <2>1. (IF aborted THEN SkippedGoesTo ELSE IF ReleasesEarly THEN "post" ELSE "io")
          \in {"post", "io"}
    BY DEF SkippedGoesTo
  <2> QED BY <1>1, <1>7, <2>1 DEF Check, Io
<1>8. ASSUME NEW w \in Workers,
             NoPrevious(w) \/ Block(w) \/ Relock(w) \/ SpuriousWakeup(w)
      PROVE  Ahead'
  BY <1>1, <1>8 DEF NoPrevious, Block, Relock, SpuriousWakeup
<1>9. ASSUME NEW w \in Workers, ReadWaiter(w) \/ LoadNext(w) \/ StoreNext(w) \/ FlagWaiter(w)
      PROVE  Ahead'
  BY <1>1, <1>9 DEF ReadWaiter, LoadNext, StoreNext, FlagWaiter
<1>10. ASSUME NEW w \in Workers, ReadNobody(w) \/ SignalWaiter(w) PROVE Ahead'
  <2>1. /\ pc'[w] \in {"idle", "io"} /\ pc[w] \in {"read", "signal"}
        /\ \A u \in Workers : u # w => pc'[u] = pc[u] \/ (pc[u] = "asleep" /\ pc'[u] = "relock")
    BY <1>10 DEF ReadNobody, SignalWaiter, Wakes
  <2>2. /\ UNCHANGED <<nextOp, status>> /\ \A u \in Workers : u # w => op'[u] = op[u]
    BY <1>10 DEF ReadNobody, SignalWaiter, Leave
  <2> QED BY <1>1, <2>1, <2>2
<1>11. ASSUME NEW w \in Workers, Enqueue(w) PROVE Ahead'
  <2>1. pc' = [pc EXCEPT ![w] = "test"] BY <1>11, FirstInChain
  <2>2. UNCHANGED <<nextOp, status, op>> /\ pc[w] = "wait" BY <1>11 DEF Enqueue
  <2> QED BY <1>1, <2>1, <2>2
<1>12. \A w \in Workers : ~Append(w) BY DEF Append, Single
<1>13. CASE Cancel \/ UNCHANGED vars \/ Finished
  BY <1>1, <1>13 DEF Cancel, vars, wvars, Finished
<1> QED BY <1>2, <1>4, <1>5, <1>6, <1>7, <1>8, <1>9, <1>10, <1>11, <1>12, <1>13
        DEF Next, Step

\* Who waits is released by somebody on the way.
LEMMA ExpectedStep ==
  TypeInv /\ UnderWay /\ Chains /\ Ahead /\ Expected /\ [Next]_vars => Expected'
<1> SUFFICES ASSUME TypeInv, UnderWay, Chains, Ahead, Expected, [Next]_vars
             PROVE  Expected'
  OBVIOUS
<1> USE DEF TypeInv, Places, TypeOK, Goto, tot
<1> DEFINE Yet == {"wait", "test", "block", "asleep", "relock", "check", "io", "post",
                   "read", "load", "store"}
           Comes(v, u) == \/ pc[v] \in Yet /\ waitp[Entry(op[v])] = u
                          \/ pc[v] = "flag" /\ totwp[v] = u
           Waiter(u) == pc[u] \in Waits /\ ~released[u]
<1>0. Expected <=> \A u \in Workers : Waiter(u) =>
                     \E v \in Workers : op[v] = op[u] - 1 /\ Comes(v, u)
  BY DEF Expected, WillPost, InWait, Waits
<1>00. Expected' <=> \A u \in Workers : Waiter(u)' =>
                       \E v \in Workers : op'[v] = op'[u] - 1 /\ Comes(v, u)'
  BY DEF Expected, WillPost, InWait, Waits
\* Nobody begins to wait, and every release that comes still comes.
<1>1. CASE /\ \A u \in Workers : Waiter(u)' => Waiter(u) /\ op'[u] = op[u]
           /\ \A u, v \in Workers : Waiter(u)' /\ op[v] = op[u] - 1 /\ Comes(v, u)
                => op'[v] = op[v] /\ Comes(v, u)'
  BY <1>0, <1>00, <1>1
<1>2. ASSUME NEW w \in Workers,
             NoPrevious(w) \/ PreviousAvailable(w) \/ Block(w) \/ Relock(w) \/ SpuriousWakeup(w)
      PROVE  Expected'
  BY <1>1, <1>2 DEF NoPrevious, PreviousAvailable, Block, Relock, SpuriousWakeup, Waits
<1>3. ASSUME NEW w \in Workers, Assign(w) PROVE Expected'
  <2>1. /\ UNCHANGED <<totwp, waitp, released>> /\ pc[w] = "idle" /\ pc'[w] = "wait"
        /\ \A u \in Workers : u # w => pc'[u] = pc[u] /\ op'[u] = op[u]
    BY <1>3 DEF Assign
  <2> QED BY <1>1, <2>1 DEF Waits
<1>4. ASSUME NEW w \in Workers, TestReleased(w) PROVE Expected'
  <2>1. /\ UNCHANGED <<totwp, waitp, op>> /\ pc[w] = "test" /\ pc'[w] \in {"check", "block"}
        /\ \A u \in Workers : u # w => pc'[u] = pc[u] /\ released'[u] = released[u]
        /\ pc'[w] = "block" => ~released[w]
    BY <1>4 DEF TestReleased, ResetsRelease
  <2> QED BY <1>1, <2>1 DEF Waits
<1>5. ASSUME NEW w \in Workers, Check(w) \/ Io(w) \/ Post(w) PROVE Expected'
  <2>1. (IF aborted THEN SkippedGoesTo ELSE IF ReleasesEarly THEN "post" ELSE "io")
          \in {"post", "io"}
    BY DEF SkippedGoesTo
  <2>2. /\ UNCHANGED <<totwp, waitp, op, released>> /\ pc[w] \in {"check", "io", "post"}
        /\ pc'[w] \in {"io", "post", "read"}
        /\ \A u \in Workers : u # w => pc'[u] = pc[u]
    BY <1>5, <2>1 DEF Check, Io, Post
  <2> QED BY <1>1, <2>2 DEF Waits
<1>6. ASSUME NEW w \in Workers, ReadWaiter(w) \/ LoadNext(w) PROVE Expected'
  <2>1. /\ UNCHANGED <<waitp, op, released>> /\ pc[w] \in {"read", "load"}
        /\ pc'[w] \in {"load", "store"}
        /\ \A u \in Workers : u # w => pc'[u] = pc[u] /\ totwp'[u] = totwp[u]
    BY <1>6 DEF ReadWaiter, LoadNext
  <2> QED BY <1>1, <2>1 DEF Waits
<1>7. ASSUME NEW w \in Workers, ReadNobody(w) PROVE Expected'
  <2>1. /\ UNCHANGED <<totwp, waitp, released>> /\ pc[w] = "read" /\ pc'[w] \in {"idle", "io"}
        /\ waitp[Entry(op[w])] = NoWorker
        /\ \A u \in Workers : u # w => pc'[u] = pc[u] /\ op'[u] = op[u]
    BY <1>7 DEF ReadNobody, Leave
  <2> QED BY <1>1, <2>1, TotAssumption DEF Waits, TotAssumption
<1>8. ASSUME NEW w \in Workers, SignalWaiter(w) PROVE Expected'
  <2>1. /\ pc[w] = "signal" /\ pc'[w] \in {"idle", "io"}
        /\ \A u \in Workers : u # w => pc'[u] = pc[u] \/ (pc[u] = "asleep" /\ pc'[u] = "relock")
    BY <1>8 DEF SignalWaiter, Wakes
  <2>2. /\ UNCHANGED <<totwp, waitp, released>>
        /\ \A u \in Workers : u # w => op'[u] = op[u]
    BY <1>8 DEF SignalWaiter, Leave
  <2> QED BY <1>1, <2>1, <2>2 DEF Waits
<1>9. ASSUME NEW w \in Workers, StoreNext(w) PROVE Expected'
  <2>1. op[w] # NoOp BY <1>9 DEF UnderWay, StoreNext
  <2>2. /\ UNCHANGED <<totwp, released, op>> /\ pc[w] = "store" /\ pc'[w] = "flag"
        /\ \A u \in Workers : u # w => pc'[u] = pc[u]
        /\ \A e \in Entries : e # Entry(op[w]) => waitp'[e] = waitp[e]
        /\ totwp[w] = waitp[Entry(op[w])]
    BY <1>9 DEF StoreNext, Chains, Releasing
  <2>3. ASSUME NEW v \in Workers, v # w, pc[v] \in Yet
        PROVE  waitp'[Entry(op[v])] = waitp[Entry(op[v])]
    <3>1. op[v] # NoOp BY <2>3 DEF UnderWay
    <3>2. Entry(op[v]) \in Entries BY <3>1, EntryType DEF Ops
    <3>3. Entry(op[v]) # Entry(op[w]) BY <2>1, <2>3, <3>1, Owner
    <3> QED BY <2>2, <3>2, <3>3
  <2> QED BY <1>1, <2>2, <2>3 DEF Waits
<1>10. ASSUME NEW w \in Workers, FlagWaiter(w) PROVE Expected'
  <2>1. /\ UNCHANGED <<totwp, waitp, op>> /\ pc[w] = "flag" /\ pc'[w] = "signal"
        /\ \A u \in Workers : u # w => pc'[u] = pc[u]
        /\ totwp[w] \in Workers /\ released' = [released EXCEPT ![totwp[w]] = TRUE]
    BY <1>10 DEF FlagWaiter, Chains, Releasing
  <2> QED BY <1>1, <2>1 DEF Waits
<1>11. ASSUME NEW w \in Workers, Enqueue(w) PROVE Expected'
  <2> DEFINE e == Entry(op[w] - 1)
  <2>1. /\ op[w] # NoOp /\ e \in Entries /\ waitp[e] = NoWorker
        /\ waitp' = [waitp EXCEPT ![e] = w] /\ PreviousEntry(op[w]) = e
    BY <1>11, FirstInChain DEF Chains
  <2>2. /\ UNCHANGED <<op, released, totwp>> /\ pc[w] = "wait" /\ pc'[w] = "test"
        /\ \A u \in Workers : u # w => pc'[u] = pc[u]
        /\ op[w] # 0 /\ status[e] = "UNAVAILABLE"
    BY <1>11, <2>1 DEF Enqueue
  <2>3. PICK x \in Workers : op[x] = op[w] - 1 /\ WillPost(x)
    <3>1. op[w] - 1 \in Ops /\ op[w] - 1 < nextOp /\ (op[w] - 1) + 1 = op[w]
      <4>1. op[w] \in 0..NumOps-1 /\ op[w] # 0 /\ op[w] < nextOp BY <2>1, <2>2 DEF Ops, UnderWay
      <4>2. NumOps \in Nat BY TotAssumption DEF TotAssumption
      <4> QED BY <4>1, <4>2 DEF Ops
    <3> QED BY <2>2, <3>1 DEF Ahead
  <2>4. Comes(x, w)'
    <3>1. pc'[x] \in Yet BY <2>2, <2>3 DEF WillPost
    <3> QED BY <2>1, <2>2, <2>3, <3>1
  <2>5. ASSUME NEW u \in Workers, u # w, Waiter(u)'
        PROVE  \E v \in Workers : op[v] = op[u] - 1 /\ Comes(v, u)'
    <3>1. Waiter(u) BY <2>2, <2>5
    <3>2. PICK v \in Workers : op[v] = op[u] - 1 /\ Comes(v, u) BY <1>0, <3>1
    <3>3. waitp[Entry(op[v])] = u => Entry(op[v]) # e BY <2>1, TotAssumption DEF TotAssumption
    <3>4. Comes(v, u)' BY <2>1, <2>2, <3>2, <3>3
    <3> QED BY <3>2, <3>4
  <2> QED BY <1>00, <2>2, <2>3, <2>4, <2>5
<1>12. CASE Cancel \/ UNCHANGED vars \/ Finished
  BY <1>1, <1>12 DEF Cancel, vars, wvars, Finished
<1>13. \A w \in Workers : ~Append(w) BY DEF Append, Chains, Single
<1> QED BY <1>2, <1>3, <1>4, <1>5, <1>6, <1>7, <1>8, <1>9, <1>10, <1>11, <1>12, <1>13
        DEF Next, Step

\* With serial ordering, who has waited comes after its predecessor's I/O.
LEMMA InOrderStep == TypeInv /\ UnderWay /\ Chains /\ InOrder /\ [Next]_vars => InOrder'
<1> SUFFICES ASSUME TypeInv, UnderWay, Chains, InOrder, [Next]_vars, ordering = "serial"
             PROVE  InOrder'
  BY HistoryStep DEF InOrder
<1> USE DEF TypeInv, Places, TypeOK, Goto, tot
<1> DEFINE Behind == {"post", "read", "load", "store", "flag", "signal"}
<1>1. CASE /\ over \subseteq over'
           /\ \A u \in Workers : pc'[u] \in Behind =>
                op'[u] \in over' \/ (pc[u] \in Behind /\ op'[u] = op[u])
           /\ \A u \in Workers : released'[u] =>
                op'[u] - 1 \in over' \/ (released[u] /\ op'[u] = op[u])
  BY <1>1 DEF InOrder
<1>2. \A u \in Workers : released[u] => pc[u] \in Waits
  BY DEF Chains, OneWait, InWait, Waits
<1>3. ASSUME NEW w \in Workers,
             \/ Assign(w) \/ NoPrevious(w) \/ PreviousAvailable(w) \/ Enqueue(w) \/ Block(w)
             \/ Relock(w) \/ SpuriousWakeup(w) \/ Post(w) \/ ReadWaiter(w) \/ LoadNext(w)
             \/ StoreNext(w)
      PROVE  InOrder'
  <2>1. CASE Assign(w)
    <3>1. ~released[w] BY <1>2, <2>1 DEF Assign, Waits
    <3> QED BY <1>1, <2>1, <3>1 DEF Assign
  <2>2. CASE NoPrevious(w) \/ PreviousAvailable(w) \/ Enqueue(w) \/ Block(w) \/ Relock(w)
    BY <1>1, <2>2 DEF NoPrevious, PreviousAvailable, Enqueue, Block, Relock
  <2>3. CASE SpuriousWakeup(w) \/ Post(w) \/ ReadWaiter(w) \/ LoadNext(w) \/ StoreNext(w)
    BY <1>1, <2>3 DEF SpuriousWakeup, Post, ReadWaiter, LoadNext, StoreNext
  <2> QED BY <1>3, <2>1, <2>2, <2>3
<1>4. ASSUME NEW w \in Workers, TestReleased(w) PROVE InOrder'
  BY <1>1, <1>4 DEF TestReleased, ResetsRelease
<1>5. ASSUME NEW w \in Workers, Check(w) \/ Io(w) PROVE InOrder'
  <2>1. /\ UNCHANGED <<op, released>> /\ over \subseteq over'
        /\ \A u \in Workers : u # w => pc'[u] = pc[u]
        /\ pc'[w] \in Behind => op[w] \in over'
    BY <1>5 DEF Check, Io, ReleasesEarly
  <2> QED BY <1>1, <2>1
<1>6. ASSUME NEW w \in Workers, ReadNobody(w) \/ SignalWaiter(w) PROVE InOrder'
  <2>1. /\ pc'[w] \in {"idle", "io"} /\ pc[w] \in {"read", "signal"}
        /\ \A u \in Workers : u # w => pc'[u] = pc[u] \/ (pc[u] = "asleep" /\ pc'[u] = "relock")
    BY <1>6 DEF ReadNobody, SignalWaiter, Wakes
  <2>2. /\ UNCHANGED <<over, released>> /\ \A u \in Workers : u # w => op'[u] = op[u]
    BY <1>6 DEF ReadNobody, SignalWaiter, Leave
  <2>3. ~released[w] BY <1>2, <2>1 DEF Waits
  <2> QED BY <1>1, <2>1, <2>2, <2>3
<1>7. ASSUME NEW w \in Workers, FlagWaiter(w) PROVE InOrder'
  <2>1. /\ UNCHANGED <<over, op>> /\ pc[w] = "flag" /\ pc'[w] = "signal"
        /\ \A u \in Workers : u # w => pc'[u] = pc[u]
        /\ \A u \in Workers : u # totwp[w] => released'[u] = released[u]
    BY <1>7 DEF FlagWaiter
  <2>2. op[w] \in Int /\ op[w] \in over BY <2>1 DEF InOrder, UnderWay, Ops
  <2>3. op[totwp[w]] - 1 = op[w] BY <2>1, <2>2 DEF Chains, Releasing
  <2> QED BY <1>1, <2>1, <2>2, <2>3
<1>8. CASE Cancel \/ UNCHANGED vars \/ Finished
  BY <1>1, <1>8 DEF Cancel, vars, wvars, Finished
<1>9. \A w \in Workers : ~Append(w) BY DEF Append, Chains, Single
<1> QED BY <1>3, <1>4, <1>5, <1>6, <1>7, <1>8, <1>9 DEF Next, Step

-----------------------------------------------------------------------------
(* Theorems *)

\* Until there is a lap, chains are short and releases on their way.
LEMMA Inductive == Spec => []IInv
<1>1. IInv /\ [Next]_vars => IInv'
  <2> SUFFICES ASSUME IInv, [Next]_vars PROVE IInv' OBVIOUS
  <2>1. TypeInv /\ TypeInv' BY TypeStep DEF IInv
  <2>2. lapped => lapped' BY <2>1, HistoryStep
  <2>3. ASSUME ~lapped' PROVE InOneLap'
    <3>1. InOneLap BY <2>2, <2>3 DEF IInv
    <3> QED BY <2>1, <2>3, <3>1, UnderWayStep, ChainsStep, AheadStep, ExpectedStep, InOrderStep
            DEF InOneLap, Chains
  <2> QED BY <2>1, <2>3 DEF IInv
<1> QED BY InitIInv, <1>1, PTL DEF Spec

\* Every variable keeps its type, after laps as well.
THEOREM TypeCorrect == Spec => []TypeOK
<1>1. Spec => []IInv BY Inductive
<1>2. IInv => TypeOK BY DEF IInv, TypeInv
<1> QED BY <1>1, <1>2, PTL

\* No release is left over for a later wait (worker_thread_io.c:181), unless an
\* operation lapped the table.
THEOREM OneReleasePerWait == Spec => []ReleaseIsForOneWait
<1>1. Spec => []IInv BY Inductive
<1>2. IInv => ReleaseIsForOneWait
  BY DEF IInv, InOneLap, Chains, OneWait, ReleaseIsForOneWait
<1> QED BY <1>1, <1>2, PTL

\* The wait chains, linked up while others take their first worker out without the
\* mutex (worker_thread_io.c:171, 230), have more than one worker only when an
\* operation has lapped the table.
THEOREM ChainsAreShort == Spec => []AppendsOnlyAfterLap
<1>1. Spec => []IInv BY Inductive
<1>2. IInv => AppendsOnlyAfterLap
  BY DEF IInv, InOneLap, Chains, Single, AppendsOnlyAfterLap
<1> QED BY <1>1, <1>2, PTL

\* No waiter is forgotten but by a lap: until then its predecessor's worker has its
\* release ahead, or has just taken it out of the chain (worker_thread_io.c:230-236).
THEOREM NobodyIsForgotten == Spec => []WaiterWillBeReleased
<1>1. Spec => []IInv BY Inductive
<1>2. IInv => WaiterWillBeReleased
  <2> SUFFICES ASSUME IInv, ~lapped, NEW w \in Workers, InWait(w), ~released[w]
               PROVE  \E v \in Workers :
                        /\ op[v] = op[w] - 1
                        /\ pc[v] \in {"load", "store"} => totwp[v] = w
                        /\ \/ /\ pc[v] \notin {"idle", "flag", "signal"}
                              /\ waitp[PreviousEntry(op[w])] = w
                           \/ pc[v] = "flag" /\ totwp[v] = w
    BY DEF WaiterWillBeReleased
  <2> USE DEF IInv, InOneLap, Chains
  <2>1. PICK v \in Workers :
          /\ op[v] = op[w] - 1
          /\ \/ /\ WillPost(v) \/ pc[v] \in {"read", "load", "store"}
                /\ waitp[Entry(op[v])] = w
             \/ pc[v] = "flag" /\ totwp[v] = w
    BY DEF Expected
  <2>2. CASE pc[v] = "flag" /\ totwp[v] = w BY <2>1, <2>2
  <2>3. CASE /\ WillPost(v) \/ pc[v] \in {"read", "load", "store"}
             /\ waitp[Entry(op[v])] = w
    <3>1. pc[v] \in {"load", "store"} => totwp[v] = w BY <2>3 DEF Releasing
    <3>2. op[w] # NoOp BY DEF TypeInv, Places, InWait
    <3>3. op[w] \in Int BY <3>2 DEF TypeInv, TypeOK, Ops
    <3>4. PreviousEntry(op[w]) = Entry(op[v]) BY <2>1, <3>3, Previous
    <3> QED BY <2>1, <2>3, <3>1, <3>4 DEF WillPost
  <2> QED BY <2>1, <2>2, <2>3
<1> QED BY <1>1, <1>2, PTL

\* With serial ordering, who waited starts after its predecessor's I/O, unless an
\* operation lapped the table.
THEOREM WaitersStartInOrder == Spec => WaitedInOrder
<1>1. Spec => []IInv BY Inductive
<1>2. IInv /\ [Next]_vars =>
        \A w \in Workers :
          ~lapped /\ ordering = "serial" /\ pc[w] = "test" /\ pc'[w] = "check"
            => op[w] - 1 \in over
  <2> SUFFICES ASSUME IInv, [Next]_vars, NEW w \in Workers, ~lapped, ordering = "serial",
                      pc[w] = "test", pc'[w] = "check"
               PROVE  op[w] - 1 \in over
    OBVIOUS
  <2> USE DEF IInv, InOneLap, TypeInv, TypeOK, Goto, tot
  <2>1. released[w]
    <3>1. ASSUME NEW v \in Workers, TestReleased(v) PROVE released[w]
      BY <3>1 DEF TestReleased
    <3>2. ASSUME NEW v \in Workers, ReadNobody(v) \/ SignalWaiter(v) PROVE released[w]
      BY <3>2 DEF ReadNobody, SignalWaiter, Wakes
    <3>3. ASSUME NEW v \in Workers,
                 \/ Assign(v) \/ NoPrevious(v) \/ PreviousAvailable(v) \/ Enqueue(v)
                 \/ Block(v) \/ Relock(v) \/ SpuriousWakeup(v) \/ Io(v) \/ Post(v)
                 \/ ReadWaiter(v) \/ LoadNext(v) \/ StoreNext(v) \/ FlagWaiter(v)
          PROVE  released[w]
      BY <3>3 DEF Assign, NoPrevious, PreviousAvailable, Enqueue, Block, Relock,
                  SpuriousWakeup, Io, Post, ReadWaiter, LoadNext, StoreNext, FlagWaiter
    <3>4. ASSUME NEW v \in Workers, Check(v) PROVE released[w] BY <3>4 DEF Check, SkippedGoesTo
    <3>5. CASE Cancel \/ UNCHANGED vars \/ Finished BY <3>5 DEF Cancel, vars, wvars, Finished
    <3>6. ASSUME NEW v \in Workers, Append(v) PROVE released[w]
      BY <3>6 DEF Append, Chains, Single
    <3> QED BY <3>1, <3>2, <3>3, <3>4, <3>5, <3>6 DEF Next, Step
  <2> QED BY <2>1 DEF InOrder
<1> QED BY <1>1, <1>2, PTL DEF Spec, WaitedInOrder
=============================================================================
