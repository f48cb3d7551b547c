--------------------------- MODULE GfsDataProofs ---------------------------
(***************************************************************************)
(* Proofs about GfsData for every number of requests and markers, a thread *)
(* per callback or one event loop, and every set of faults: the reference  *)
(* count of an operation is the number of those who will give a reference  *)
(* back, a request is answered at most once, and TRANSFER_COMPLETE is the  *)
(* last the storage module hears of it.                                    *)
(***************************************************************************)
EXTENDS GfsData, FiniteSetTheorems, TLAPS

USE GfsAssumption DEF Ops, None

\* What the blocks hold.
CtlStates == {"idle", "busy", "aborted", "replied", "ended"}
Operations ==
  [state : OpStates, ref : Int, writing : BOOLEAN, live : BOOLEAN, begun : BOOLEAN,
   finished : BOOLEAN, failed : BOOLEAN, delayed : BOOLEAN, connectFailed : BOOLEAN,
   hasHandle : BOOLEAN, replies : Int, completes : Int, markers : Int,
   freeSession : BOOLEAN, freeHandle : BOOLEAN]
Handles == [state : HandleStates, outstanding : Ops \cup {None}, freed : BOOLEAN]
Sessions == [ref : Int, freed : BOOLEAN, destroyCb : BOOLEAN]
Blocks == [op : [Ops -> Operations], handle : Handles, session : Sessions,
           channel : {"open", "closing", "none"}, due : [Ops -> [Kinds -> Nat]],
           broken : BOOLEAN]

Typed == /\ Data \in Blocks
         /\ ctl \in [Ops -> CtlStates]
         /\ object \in {"ready", "inuse", "destroy_wait", "destroying", "gone", "stopped"}

One(condition) == IF condition THEN 1 ELSE 0

\* What is on its way for an operation, d, by what it does to it.
Beginning == {"begin", "begin_abort"}
Connecting == {"begin_cb", "begin_cb2"}
Aborting == {"abort", "abort_fc", "abort_now"}
Ending == {"end_read", "write_eof", "send_eof", "finish_fc", "end", "end_now"}
Marking == {"trev", "trev2"}
Tally(d) ==
  [begin |-> d["begin"] + d["begin_abort"], connect |-> d["begin_cb"] + d["begin_cb2"],
   abort |-> d["abort"] + d["abort_fc"] + d["abort_now"],
   end |-> d["end_read"] + d["write_eof"] + d["send_eof"] + d["finish_fc"] + d["end"] + d["end_now"],
   reply |-> d["end2"], over |-> d["complete_fc"], marker |-> d["trev"] + d["trev2"]]
Tallies == [begin : Nat, connect : Nat, abort : Nat, end : Nat, reply : Nat, over : Nat, marker : Nat]

Finishing == {"FINISH", "FINISH_WITH_ERROR", "COMPLETING", "COMPLETE"}

\* How far the operation p is, for the storage module and the control half c.
Stage(p, c) ==
  /\ p.finished <=> p.state \in Finishing
  /\ p.state \in {"COMPLETING", "COMPLETE"} => c = "ended"
  /\ p.replies \in 0..1 /\ (p.replies = 1 <=> c \in {"replied", "ended"})
  /\ c = "replied" => p.begun
  /\ c = "idle" => /\ ~p.live /\ p.ref = 0 /\ p.completes = 0
                   /\ p.state \in {"REQUESTING", "ABORTING"}

\* It is begun once, aborted once, and ended once: by a callback on its way, or
\* by the connection it waits for, or by the abort its end was left to.
Begins(p, t) == /\ t.begin + t.connect <= One(p.begun)
                /\ p.connectFailed => p.begun /\ t.begin + t.connect = 0
Aborts(p, t) == t.abort <= One(p.state \in {"ABORT_CLOSING", "FINISH"})
Ends(p, t) ==
  /\ p.replies + t.end + (IF p.delayed THEN t.connect ELSE 0)
       + (IF p.state = "FINISH" THEN t.abort ELSE 0) <= 1
  /\ ~p.finished => ~p.delayed /\ p.replies = 0 /\ t.end = 0
  /\ t.reply <= p.replies

\* Who holds a reference: the request until it is answered, the control half
\* until its TRANSFER_COMPLETE is through, a connection that failed for good,
\* and every callback that begins, aborts or reports.
RequestHolds(p, t, c) == c # "idle" /\ (p.replies = 0 \/ t.reply > 0)
ControlHolds(p, t, c) == p.begun /\ (c \in {"busy", "aborted", "replied"} \/ t.over > 0)
Counted(p, t, c) ==
  /\ t.over <= One(p.begun /\ c = "ended")
  /\ c # "idle" =>
       p.ref = One(RequestHolds(p, t, c)) + One(ControlHolds(p, t, c)) + One(p.connectFailed)
               + t.begin + t.connect + t.abort + t.marker
  /\ p.completes \in 0..1 /\ (p.completes = 1 => p.ref = 0)

Fits(p, t, c) == Stage(p, c) /\ Begins(p, t) /\ Aborts(p, t) /\ Ends(p, t) /\ Counted(p, t, c)

Sound(p, d, c) == /\ c = "idle" => \A k \in Kinds : d[k] = 0
                  /\ Fits(p, Tally(d), c)

\* What the session's count has for itself: the control half, until it stops
\* the session, once the callback that closes its channel and the operations
\* that have a reference are taken off.
Balance(s) ==
  s.session.ref - One(s.session.destroyCb) - Cardinality({o \in Ops : s.op[o].ref > 0})

\* One request at a time is not answered; the session is stopped, and its channel
\* closed, only after the last.
OneAtATime ==
  /\ \A o \in Ops : ctl[o] \in {"busy", "aborted"} =>
       object = "inuse" /\ \A q \in Ops \ {o} : ctl[q] \notin {"busy", "aborted"}
  /\ session.destroyCb => object \in {"gone", "stopped"}
  /\ object = "stopped" => \A o \in Ops : ctl[o] \in {"idle", "ended"}

SessionCounted == Balance(Data) = One(object # "stopped")

IInv == /\ Typed /\ OneAtATime /\ SessionCounted
        /\ \A o \in Ops : Sound(op[o], due[o], ctl[o])

-----------------------------------------------------------------------------
(* What the helpers of the locked regions do to the blocks.                 *)

\* What the invariant says of an operation does not depend on the rest of it.
SameRest(p, q) ==
  /\ q.live = p.live /\ q.begun = p.begun /\ q.finished = p.finished
  /\ q.delayed = p.delayed /\ q.connectFailed = p.connectFailed /\ q.replies = p.replies
SameCourse(p, q) == q.state = p.state /\ SameRest(p, q)
SameCounts(p, q) == q.ref = p.ref /\ q.completes = p.completes

\* From s to t nothing happens to any operation, or only to o; the session's
\* count stays in balance.
Apart(s, t) ==
  /\ t \in Blocks /\ Balance(t) = Balance(s) /\ t.session.destroyCb = s.session.destroyCb
  /\ t.op = s.op /\ t.due = s.due
Moves(o, s, t) ==
  /\ t \in Blocks /\ Balance(t) = Balance(s) /\ t.session.destroyCb = s.session.destroyCb
  /\ \A q \in Ops \ {o} : t.op[q] = s.op[q] /\ t.due[q] = s.due[q]

\* Somebody gave a reference back; the last one has post_transfer_event_cb to
\* come, and counts a TRANSFER_COMPLETE if the storage module asked for events.
Dropped(p, q, d, e) ==
  /\ SameCourse(p, q) /\ q.ref = p.ref - 1
  /\ p.ref # 1 => e = d /\ q.completes = p.completes
  /\ p.ref = 1 => e = [d EXCEPT !["post"] = @ + 1] /\ q.completes = p.completes + One(p.begun)

\* The kinds of callbacks, by name.
LEMMA KindsAre ==
  Kinds = {"begin_cb", "write_eof", "send_eof", "finish_fc", "abort_fc", "complete_fc",
           "end", "end_read", "abort", "trev", "begin", "begin_abort", "begin_cb2",
           "abort_now", "end_now", "end2", "trev2", "post"}
BY DEF Kinds, Library, Closes, Oneshots, Rest

\* The operations are finitely many, so those with a reference can be counted.
LEMMA ReferencedFinite ==
  ASSUME NEW s
  PROVE  /\ IsFiniteSet({o \in Ops : s.op[o].ref > 0})
         /\ Cardinality({o \in Ops : s.op[o].ref > 0}) \in Nat
<1>1. IsFiniteSet(Ops)
  BY FS_Interval, NumOps \in Nat
<1>2. IsFiniteSet({o \in Ops : s.op[o].ref > 0})
  BY <1>1, FS_Subset
<1>3. QED
  BY <1>2, FS_CardinalityType

\* The balance depends on the count, on the close callback and on who has a reference.
LEMMA BalanceSame ==
  ASSUME NEW s, NEW t, t.session.ref = s.session.ref,
         t.session.destroyCb = s.session.destroyCb,
         \A q \in Ops : t.op[q].ref > 0 <=> s.op[q].ref > 0
  PROVE  Balance(t) = Balance(s)
<1>1. {o \in Ops : t.op[o].ref > 0} = {o \in Ops : s.op[o].ref > 0}
  OBVIOUS
<1>2. QED
  BY <1>1 DEF Balance

\* One block is replaced at a time.
LEMMA SetDue ==
  ASSUME NEW s \in Blocks, NEW o \in Ops, NEW d \in [Kinds -> Nat]
  PROVE  LET t == [s EXCEPT !.due[o] = d]
         IN /\ Moves(o, s, t) /\ t.op = s.op /\ t.due[o] = d
            /\ t.session = s.session /\ t.handle = s.handle /\ t.channel = s.channel
<1> DEFINE t == [s EXCEPT !.due[o] = d]
<1>1. [s.due EXCEPT ![o] = d] \in [Ops -> [Kinds -> Nat]]
  BY DEF Blocks
<1>2. /\ t \in Blocks /\ t.op = s.op /\ t.due[o] = d
      /\ t.session = s.session /\ t.handle = s.handle /\ t.channel = s.channel
      /\ \A q \in Ops \ {o} : t.due[q] = s.due[q]
  BY <1>1 DEF Blocks
<1>3. Balance(t) = Balance(s)
  <2> HIDE DEF t
  <2> QED
    BY <1>2, BalanceSame
<1>4. QED
  <2> HIDE DEF t
  <2>1. Moves(o, s, t)
    BY <1>2, <1>3 DEF Moves
  <2>2. QED
    BY <1>2, <2>1 DEF t

\* Changing an operation so that it keeps a reference if it had one moves only it.
LEMMA SetOp ==
  ASSUME NEW s \in Blocks, NEW o \in Ops, NEW p \in Operations
  PROVE  LET t == [s EXCEPT !.op[o] = p]
         IN /\ t \in Blocks /\ t.due = s.due /\ t.op[o] = p
            /\ \A q \in Ops \ {o} : t.op[q] = s.op[q]
            /\ (p.ref > 0 <=> s.op[o].ref > 0) => Moves(o, s, t)
            /\ t.session = s.session /\ t.handle = s.handle /\ t.channel = s.channel
<1> DEFINE t == [s EXCEPT !.op[o] = p]
<1>1. [s.op EXCEPT ![o] = p] \in [Ops -> Operations]
  BY DEF Blocks
<1>2. /\ t \in Blocks /\ t.due = s.due /\ t.op[o] = p
      /\ t.session = s.session /\ t.handle = s.handle /\ t.channel = s.channel
      /\ \A q \in Ops \ {o} : t.op[q] = s.op[q]
  BY <1>1 DEF Blocks
<1>3. ASSUME p.ref > 0 <=> s.op[o].ref > 0
      PROVE  Moves(o, s, t)
  <2> HIDE DEF t
  <2>1. \A q \in Ops : t.op[q].ref > 0 <=> s.op[q].ref > 0
    BY <1>2, <1>3
  <2>2. Balance(t) = Balance(s)
    BY <1>2, <2>1, BalanceSame
  <2>3. QED
    BY <1>2, <2>2 DEF Moves
<1>4. QED
  <2> HIDE DEF t
  <2>1. /\ t \in Blocks /\ t.due = s.due /\ t.op[o] = p
        /\ \A q \in Ops \ {o} : t.op[q] = s.op[q]
        /\ (p.ref > 0 <=> s.op[o].ref > 0) => Moves(o, s, t)
        /\ t.session = s.session /\ t.handle = s.handle /\ t.channel = s.channel
    BY <1>2, <1>3
  <2>2. QED
    BY <2>1 DEF t

\* Changing the handle or the channel touches no operation.
LEMMA SetHandle ==
  ASSUME NEW s \in Blocks, NEW h \in Handles
  PROVE  LET t == [s EXCEPT !.handle = h]
         IN /\ Apart(s, t) /\ t.session = s.session /\ t.handle = h /\ t.channel = s.channel
<1> DEFINE t == [s EXCEPT !.handle = h]
<1>1. /\ t \in Blocks /\ t.op = s.op /\ t.due = s.due
      /\ t.session = s.session /\ t.handle = h /\ t.channel = s.channel
  BY DEF Blocks
<1>2. Balance(t) = Balance(s)
  <2> HIDE DEF t
  <2> QED
    BY <1>1, BalanceSame
<1>3. QED
  BY <1>1, <1>2 DEF Apart

\* Neither does changing the channel.
LEMMA SetChannel ==
  ASSUME NEW s \in Blocks, NEW h \in {"open", "closing", "none"}
  PROVE  LET t == [s EXCEPT !.channel = h]
         IN /\ Apart(s, t) /\ t.session = s.session /\ t.handle = s.handle /\ t.channel = h
<1> DEFINE t == [s EXCEPT !.channel = h]
<1>1. /\ t \in Blocks /\ t.op = s.op /\ t.due = s.due
      /\ t.session = s.session /\ t.handle = s.handle /\ t.channel = h
  BY DEF Blocks
<1>2. Balance(t) = Balance(s)
  <2> HIDE DEF t
  <2> QED
    BY <1>1, BalanceSame
<1>3. QED
  BY <1>1, <1>2 DEF Apart

\* What changing the session leaves alone.
LEMMA SetSession ==
  ASSUME NEW s \in Blocks, NEW x \in Sessions
  PROVE  LET t == [s EXCEPT !.session = x]
         IN /\ t \in Blocks /\ t.op = s.op /\ t.due = s.due
            /\ t.session = x /\ t.handle = s.handle /\ t.channel = s.channel
BY DEF Blocks

\* A failed assertion changes nothing but what it says.
LEMMA MustIs ==
  ASSUME NEW s \in Blocks, NEW c
  PROVE  LET t == Must(s, c)
         IN /\ Apart(s, t) /\ t.session = s.session /\ t.handle = s.handle
            /\ t.channel = s.channel
<1> DEFINE t == Must(s, c)
<1>1. (s.broken \/ ~c) \in BOOLEAN
  OBVIOUS
<1>2. /\ t \in Blocks /\ t.op = s.op /\ t.due = s.due
      /\ t.session = s.session /\ t.handle = s.handle /\ t.channel = s.channel
  BY <1>1 DEF Must, Blocks
<1>3. Balance(t) = Balance(s)
  <2> HIDE DEF t
  <2> QED
    BY <1>2, BalanceSame
<1>4. QED
  BY <1>2, <1>3 DEF Apart


\* Registering a callback.
LEMMA LaterIs ==
  ASSUME NEW s \in Blocks, NEW o \in Ops, NEW k \in Kinds
  PROVE  LET t == Later(s, o, k)
         IN /\ Moves(o, s, t) /\ t.op = s.op /\ t.due[o] = [s.due[o] EXCEPT ![k] = @ + 1]
            /\ t.session = s.session /\ t.handle = s.handle /\ t.channel = s.channel
<1> DEFINE d == [s.due[o] EXCEPT ![k] = @ + 1]
<1>1. d \in [Kinds -> Nat]
  BY DEF Blocks
<1>2. Later(s, o, k) = [s EXCEPT !.due[o] = d]
  BY DEF Later
<1>3. QED
  <2> HIDE DEF d
  <2>1. LET t == Later(s, o, k)
        IN /\ Moves(o, s, t) /\ t.op = s.op /\ t.due[o] = d
           /\ t.session = s.session /\ t.handle = s.handle /\ t.channel = s.channel
    BY <1>1, <1>2, SetDue
  <2>2. QED
    BY <2>1 DEF d

\* Taking a reference.
LEMMA KeptIs ==
  ASSUME NEW s \in Blocks, NEW o \in Ops, s.op[o].ref > 0
  PROVE  LET t == Kept(s, o)
         IN /\ Moves(o, s, t) /\ t.due = s.due
            /\ SameCourse(s.op[o], t.op[o])
            /\ t.op[o].ref = s.op[o].ref + 1 /\ t.op[o].completes = s.op[o].completes
            /\ t.session = s.session /\ t.handle = s.handle /\ t.channel = s.channel
<1> DEFINE p == [s.op[o] EXCEPT !.ref = @ + 1]
<1>1. /\ p \in Operations /\ SameCourse(s.op[o], p) /\ p.ref = s.op[o].ref + 1
      /\ p.completes = s.op[o].completes /\ s.op[o].ref \in Int
  <2>1. s.op[o] \in Operations
    BY DEF Blocks
  <2>2. QED
    BY <2>1 DEF Operations, SameCourse, SameRest
<1>2. Kept(s, o) = [s EXCEPT !.op[o] = p]
  BY DEF Kept
<1>3. QED
  <2> HIDE DEF p
  <2>1. p.ref > 0 <=> s.op[o].ref > 0
    BY <1>1
  <2>2. QED
    BY <1>1, <1>2, <2>1, SetOp

\* Running a callback that was due.
LEMMA TakenIs ==
  ASSUME Typed, NEW o \in Ops, NEW k \in Kinds, due[o][k] > 0
  PROVE  LET t == Taken(k, o)
         IN /\ Moves(o, Data, t) /\ t.op = op /\ t.due[o] = [due[o] EXCEPT ![k] = @ - 1]
            /\ t.session = session /\ t.handle = handle /\ t.channel = channel
<1> DEFINE d == [due[o] EXCEPT ![k] = @ - 1]
<1>1. /\ Data \in Blocks /\ Data.op = op /\ Data.session = session /\ Data.handle = handle
      /\ Data.channel = channel /\ Data.due = due
  BY DEF Typed, Data
<1>2. d \in [Kinds -> Nat]
  <2>1. due[o] \in [Kinds -> Nat]
    BY <1>1 DEF Blocks
  <2>2. due[o][k] - 1 \in Nat
    BY <2>1
  <2>3. QED
    BY <2>1, <2>2
<1>3. Taken(k, o) = [Data EXCEPT !.due[o] = d]
  BY <1>1 DEF Taken
<1>4. QED
  <2> HIDE DEF d
  <2>1. LET t == Taken(k, o)
        IN /\ Moves(o, Data, t) /\ t.op = op /\ t.due[o] = d
           /\ t.session = session /\ t.handle = handle /\ t.channel = channel
    BY <1>1, <1>2, <1>3, SetDue
  <2>2. QED
    BY <2>1 DEF d

\* Leaving is one operation less and one reference of the session less.
LEMMA LastLeaves ==
  ASSUME NEW s \in Blocks, NEW t \in Blocks, NEW o \in Ops,
         s.op[o].ref > 0, ~(t.op[o].ref > 0),
         \A q \in Ops \ {o} : t.op[q] = s.op[q],
         t.session.ref = s.session.ref - 1, t.session.destroyCb = s.session.destroyCb
  PROVE  Balance(t) = Balance(s)
<1> DEFINE S == {q \in Ops : s.op[q].ref > 0}
           T == {q \in Ops : t.op[q].ref > 0}
<1>1. T = S \ {o} /\ o \in S
  OBVIOUS
<1>2. IsFiniteSet(S) /\ Cardinality(S) \in Nat
  BY ReferencedFinite
<1>3. Cardinality(T) = Cardinality(S) - 1
  <2> HIDE DEF S, T
  <2> QED
    BY <1>1, <1>2, FS_RemoveElement
<1>4. s.session.ref \in Int /\ One(s.session.destroyCb) \in Int
  BY DEF Blocks, Sessions, One
<1>5. QED
  BY <1>2, <1>3, <1>4 DEF Balance

\* Coming is one operation more and one reference of the session more.
LEMMA FirstComes ==
  ASSUME NEW s \in Blocks, NEW t \in Blocks, NEW o \in Ops,
         ~(s.op[o].ref > 0), t.op[o].ref > 0,
         \A q \in Ops \ {o} : t.op[q] = s.op[q],
         t.session.ref = s.session.ref + 1, t.session.destroyCb = s.session.destroyCb
  PROVE  Balance(t) = Balance(s)
<1> DEFINE S == {q \in Ops : s.op[q].ref > 0}
           T == {q \in Ops : t.op[q].ref > 0}
<1>1. S = T \ {o} /\ o \in T
  OBVIOUS
<1>2. IsFiniteSet(T) /\ Cardinality(T) \in Nat
  BY ReferencedFinite
<1>3. Cardinality(S) = Cardinality(T) - 1
  <2> HIDE DEF S, T
  <2> QED
    BY <1>1, <1>2, FS_RemoveElement
<1>4. s.session.ref \in Int /\ One(s.session.destroyCb) \in Int
  BY DEF Blocks, Sessions, One
<1>5. QED
  BY <1>2, <1>3, <1>4 DEF Balance


\* GFSDataOpDec gives one reference back; the last takes the session's along.
LEMMA DecrementIs ==
  ASSUME NEW s \in Blocks, NEW o \in Ops, s.op[o].ref > 0
  PROVE  LET t == Decrement(s, o)
         IN /\ Moves(o, s, t) /\ t.handle = s.handle /\ t.channel = s.channel
            /\ Dropped(s.op[o], t.op[o], s.due[o], t.due[o])
<1> DEFINE p == s.op[o]
           p1 == [p EXCEPT !.ref = @ - 1]
           left == s.session.ref - 1
           a0 == Later(s, o, "post")
           a1 == [a0 EXCEPT !.op[o].ref = 0]
           a2 == [a1 EXCEPT !.session.ref = left]
           a3 == [a2 EXCEPT !.op[o].freeSession = (left = 0)]
           a4 == [a3 EXCEPT !.op[o].completes = @ + (IF s.op[o].begun THEN 1 ELSE 0)]
<1>1. p \in Operations /\ s.session \in Sessions /\ "post" \in Kinds
  BY KindsAre DEF Blocks
<1>2. CASE p.ref # 1
  <2>1. Decrement(s, o) = [s EXCEPT !.op[o] = p1]
    BY <1>2 DEF Decrement
  <2>2. p1 \in Operations
    BY <1>1 DEF Operations
  <2>3. /\ SameCourse(p, p1) /\ p1.ref = p.ref - 1 /\ p1.completes = p.completes
        /\ (p1.ref > 0 <=> p.ref > 0)
    BY <1>1, <1>2 DEF Operations, SameCourse, SameRest
  <2>4. QED
    <3> HIDE DEF p1
    <3> QED
      BY <1>2, <2>1, <2>2, <2>3, SetOp DEF Dropped
<1>3. CASE p.ref = 1
  <2>0. Decrement(s, o) = a4
    BY <1>3, ZenonT(60) DEF Decrement, SessionLeft
  <2>1. /\ Moves(o, s, a0) /\ a0 \in Blocks /\ a0.op = s.op /\ a0.session = s.session /\ a0.handle = s.handle
        /\ a0.channel = s.channel /\ a0.due[o] = [s.due[o] EXCEPT !["post"] = @ + 1]
    <3>1. /\ Moves(o, s, a0) /\ a0.op = s.op /\ a0.session = s.session /\ a0.handle = s.handle
          /\ a0.channel = s.channel /\ a0.due[o] = [s.due[o] EXCEPT !["post"] = @ + 1]
      BY <1>1, LaterIs, SMTT(40)
    <3>2. a0 \in Blocks
      <4> HIDE DEF a0
      <4> QED
        BY <3>1 DEF Moves
    <3>3. QED
      BY <3>1, <3>2
  <2> DEFINE q1 == [p EXCEPT !.ref = 0]
  <2>2. q1 \in Operations /\ SameCourse(p, q1) /\ q1.ref = 0 /\ q1.completes = p.completes
    BY <1>1 DEF Operations, SameCourse, SameRest
  <2>3. a1 = [a0 EXCEPT !.op[o] = q1]
    BY <2>1
  <2>4. /\ a1 \in Blocks /\ a1.due = a0.due /\ a1.session = a0.session /\ a1.handle = a0.handle
        /\ a1.channel = a0.channel /\ a1.op[o] = q1 /\ \A q \in Ops \ {o} : a1.op[q] = a0.op[q]
    <3> HIDE DEF a0, a1, q1
    <3> QED
      BY <2>1, <2>2, <2>3, SetOp
  <2> DEFINE x == [s.session EXCEPT !.ref = left]
  <2>5. x \in Sessions /\ x.ref = left /\ x.destroyCb = s.session.destroyCb
    BY <1>1 DEF Sessions
  <2>6. a2 = [a1 EXCEPT !.session = x]
    <3> HIDE DEF a1
    <3> QED
      BY <2>1, <2>4
  <2>7. /\ a2 \in Blocks /\ a2.op = a1.op /\ a2.due = a1.due /\ a2.handle = a1.handle
        /\ a2.channel = a1.channel /\ a2.session = x
    <3> HIDE DEF a1, a2, x
    <3> QED
      BY <2>4, <2>5, <2>6, SetSession
  <2> DEFINE q2 == [q1 EXCEPT !.freeSession = (left = 0)]
  <2>8. q2 \in Operations /\ SameCourse(p, q2) /\ q2.ref = 0 /\ q2.completes = p.completes
    <3>1. (left = 0) \in BOOLEAN
      OBVIOUS
    <3>2. QED
      BY <3>1, <2>2, ZenonT(60) DEF Operations, SameCourse, SameRest
  <2>9. a3 = [a2 EXCEPT !.op[o] = q2]
    <3> HIDE DEF a2, q1
    <3> QED
      BY <2>7, <2>4
  <2>10. /\ a3 \in Blocks /\ a3.due = a2.due /\ a3.session = a2.session /\ a3.handle = a2.handle
         /\ a3.channel = a2.channel /\ a3.op[o] = q2 /\ \A q \in Ops \ {o} : a3.op[q] = a2.op[q]
    <3>1. a2 \in Blocks /\ q2 \in Operations
      BY <2>7, <2>8
    <3> HIDE DEF a2, a3, q2, q1, x
    <3> QED
      BY <3>1, <2>9, SetOp
  <2> DEFINE q3 == [q2 EXCEPT !.completes = @ + (IF p.begun THEN 1 ELSE 0)]
  <2>11. /\ q3 \in Operations /\ SameCourse(p, q3) /\ q3.ref = 0
         /\ q3.completes = p.completes + One(p.begun)
    <3> HIDE DEF q2
    <3> QED
      BY <2>8 DEF Operations, SameCourse, SameRest, One
  <2>12. a4 = [a3 EXCEPT !.op[o] = q3]
    <3> HIDE DEF a3, q2
    <3> QED
      BY <2>10
  <2>13. /\ a4 \in Blocks /\ a4.due = a3.due /\ a4.session = a3.session /\ a4.handle = a3.handle
         /\ a4.channel = a3.channel /\ a4.op[o] = q3 /\ \A q \in Ops \ {o} : a4.op[q] = a3.op[q]
    <3> HIDE DEF a3, a4, q3
    <3> QED
      BY <2>10, <2>11, <2>12, SetOp
  <2>14. /\ a4 \in Blocks /\ a4.due = a0.due /\ a4.op[o] = q3 /\ \A q \in Ops \ {o} : a4.op[q] = s.op[q]
         /\ a4.session.ref = s.session.ref - 1 /\ a4.session.destroyCb = s.session.destroyCb
         /\ a4.handle = s.handle /\ a4.channel = s.channel
    <3> HIDE DEF a0, a1, a2, a3, a4, q1, q2, q3, x
    <3> QED
      BY <2>1, <2>4, <2>5, <2>7, <2>10, <2>13
  <2>15. Balance(a4) = Balance(s)
    <3> HIDE DEF a0, a1, a2, a3, a4, q1, q2, q3, x
    <3> QED
      BY <1>3, <2>11, <2>14, LastLeaves
  <2>16. QED
    <3> HIDE DEF a0, a1, a2, a3, a4, q1, q2, q3, x
    <3> QED
      BY <1>3, <2>0, <2>1, <2>11, <2>14, <2>15 DEF Moves, Dropped
<1>4. QED
  BY <1>2, <1>3

\* globus_l_gfs_data_check is about the handle alone.
LEMMA CheckIs ==
  ASSUME NEW s \in Blocks
  PROVE  Apart(s, Check(s)) /\ Check(s).session = s.session /\ Check(s).channel = s.channel
<1> DEFINE h == [s.handle EXCEPT !.state = "CLOSING_AND_DESTROYED"]
<1>1. h \in Handles
  BY DEF Blocks, Handles, HandleStates
<1>2. Check(s) = IF s.handle.state = "TE_PRE_AND_DESTROYED" THEN [s EXCEPT !.handle = h] ELSE s
  BY DEF Check
<1>3. Apart(s, s)
  BY DEF Apart
<1>4. QED
  <2> HIDE DEF h
  <2> QED
    BY <1>1, <1>2, <1>3, SetHandle

\* A change of the handle's state is none of an operation.
LEMMA HandleState ==
  ASSUME NEW s \in Blocks, NEW h \in HandleStates
  PROVE  LET t == [s EXCEPT !.handle.state = h]
         IN /\ Apart(s, t) /\ t.session = s.session /\ t.channel = s.channel
            /\ t.handle.outstanding = s.handle.outstanding
<1> DEFINE x == [s.handle EXCEPT !.state = h]
<1>1. x \in Handles /\ x.outstanding = s.handle.outstanding
  BY DEF Blocks, Handles
<1>2. [s EXCEPT !.handle.state = h] = [s EXCEPT !.handle = x]
  OBVIOUS
<1>3. QED
  <2> HIDE DEF x
  <2> QED
    BY <1>1, <1>2, SetHandle, ZenonT(60)

\* Steps that leave the other operations alone can be put one after the other.
LEMMA Transitive ==
  /\ \A s, t, u : Apart(s, t) /\ Apart(t, u) => Apart(s, u)
  /\ \A o \in Ops : \A s, t, u : Moves(o, s, t) /\ Moves(o, t, u) => Moves(o, s, u)
  /\ \A o \in Ops : \A s, t, u : Apart(s, t) /\ Moves(o, t, u) => Moves(o, s, u)
  /\ \A o \in Ops : \A s, t, u : Moves(o, s, t) /\ Apart(t, u) => Moves(o, s, u)
  /\ \A o \in Ops : \A s, t : Apart(s, t) => Moves(o, s, t)
BY DEF Apart, Moves

\* Freeing the handle touches no operation.
LEMMA FreeHandleIs ==
  ASSUME NEW s \in Blocks
  PROVE  Apart(s, FreeHandle(s)) /\ FreeHandle(s).session = s.session
<1> DEFINE c == /\ s.handle.state \in {"CLOSING_AND_DESTROYED", "CLOSED_AND_DESTROYED"}
                /\ ~s.handle.freed
           t == Must(s, c)
           h == [t.handle EXCEPT !.freed = TRUE]
<1>1. Apart(s, t) /\ t.session = s.session /\ t \in Blocks
  <2> HIDE DEF c
  <2> QED
    BY MustIs DEF Apart
<1>2. h \in Handles
  <2> HIDE DEF t
  <2> QED
    BY <1>1 DEF Blocks, Handles
<1>3. FreeHandle(s) \in {t, [t EXCEPT !.handle = h]}
  <2>1. FreeHandle(s) \in {t, [t EXCEPT !.handle.freed = TRUE]}
    BY DEF FreeHandle
  <2>2. QED
    BY <2>1
<1>4. LET u == [t EXCEPT !.handle = h]
      IN Apart(t, u) /\ u.session = t.session
  <2> HIDE DEF h, t
  <2> QED
    BY <1>1, <1>2, SetHandle
<1> DEFINE u == [t EXCEPT !.handle = h]
<1>5. Apart(s, u) /\ u.session = s.session
  <2>1. Apart(t, u) /\ u.session = t.session
    BY <1>4
  <2> HIDE DEF u, t
  <2>2. QED
    BY <1>1, <2>1, Transitive
<1>6. QED
  <2>1. FreeHandle(s) \in {t, u}
    BY <1>3
  <2> HIDE DEF u, t
  <2>2. QED
    BY <1>1, <1>5, <2>1

\* Neither does an error callback.
LEMMA CallbackErrorIs ==
  ASSUME NEW s \in Blocks
  PROVE  Apart(s, CallbackError(s)) /\ CallbackError(s).session = s.session
<1> DEFINE c == /\ s.handle.outstanding # None
                /\ s.handle.state \in {"CLOSING", "CLOSING_AND_DESTROYED", "CLOSED"}
<1>1. CallbackError(s) \in {Must(s, c), [s EXCEPT !.handle.state = "TE_PRE_CLOSED"]}
  BY DEF CallbackError
<1>2. "TE_PRE_CLOSED" \in HandleStates
  BY DEF HandleStates
<1>3. Apart(s, Must(s, c)) /\ Must(s, c).session = s.session
  <2> HIDE DEF c
  <2>1. QED
    BY MustIs
<1>4. LET t == [s EXCEPT !.handle.state = "TE_PRE_CLOSED"]
      IN Apart(s, t) /\ t.session = s.session
  BY <1>2, HandleState
<1>5. QED
  BY <1>1, <1>3, <1>4

\* Its operation is as far as it was.
LEMMA ForceCloseReturnsIs ==
  ASSUME NEW s \in Blocks, NEW o \in Ops
  PROVE  LET t == ForceCloseReturns(s, o)
         IN /\ Moves(o, s, t) /\ t.due = s.due
            /\ SameCourse(s.op[o], t.op[o]) /\ SameCounts(s.op[o], t.op[o])
<1> DEFINE u == FreeHandle(s)
           p == [u.op[o] EXCEPT !.hasHandle = FALSE]
<1>1. ForceCloseReturns(s, o) \in {Must(s, FALSE), [s EXCEPT !.handle.state = "TE_PRE_CLOSED"],
                                   [u EXCEPT !.op[o] = p]}
  <2>1. ForceCloseReturns(s, o) \in {Must(s, FALSE), [s EXCEPT !.handle.state = "TE_PRE_CLOSED"],
                                     [u EXCEPT !.op[o].hasHandle = FALSE]}
    BY DEF ForceCloseReturns
  <2>2. QED
    BY <2>1
<1>2. "TE_PRE_CLOSED" \in HandleStates
  BY DEF HandleStates
<1>3. \A q : SameCourse(q, q) /\ SameCounts(q, q)
  BY DEF SameCourse, SameRest, SameCounts
<1>4. ASSUME Apart(s, ForceCloseReturns(s, o))
      PROVE  LET t == ForceCloseReturns(s, o)
             IN /\ Moves(o, s, t) /\ t.due = s.due
                /\ SameCourse(s.op[o], t.op[o]) /\ SameCounts(s.op[o], t.op[o])
  <2>1. Moves(o, s, ForceCloseReturns(s, o))
    BY <1>4, Transitive
  <2>2. ForceCloseReturns(s, o).op = s.op /\ ForceCloseReturns(s, o).due = s.due
    BY <1>4 DEF Apart
  <2>3. QED
    BY <1>3, <2>1, <2>2
<1>5. /\ Apart(s, Must(s, FALSE))
      /\ Apart(s, [s EXCEPT !.handle.state = "TE_PRE_CLOSED"])
  <2>1. Apart(s, Must(s, FALSE))
    BY MustIs
  <2>2. Apart(s, [s EXCEPT !.handle.state = "TE_PRE_CLOSED"])
    BY <1>2, HandleState
  <2>3. QED
    BY <2>1, <2>2
<1>6. CASE ForceCloseReturns(s, o) = [u EXCEPT !.op[o] = p]
  <2>1. u \in Blocks /\ u.op = s.op /\ u.due = s.due /\ Apart(s, u)
    BY FreeHandleIs DEF Apart
  <2>2. p \in Operations /\ SameCourse(s.op[o], p) /\ SameCounts(s.op[o], p)
    <3>1. u.op[o] \in Operations /\ u.op[o] = s.op[o]
      <4> HIDE DEF u
      <4> QED
        BY <2>1 DEF Blocks
    <3>2. QED
      <4> HIDE DEF u
      <4> QED
        BY <3>1 DEF Operations, SameCourse, SameRest, SameCounts
  <2>3. LET t == [u EXCEPT !.op[o] = p]
        IN Moves(o, u, t) /\ t.due = u.due /\ t.op[o] = p
    <3> HIDE DEF u, p
    <3> QED
      BY <2>1, <2>2, SetOp DEF SameCounts
  <2>4. QED
    <3> HIDE DEF u, p
    <3> QED
      BY <1>6, <2>1, <2>2, <2>3, Transitive
<1>7. QED
  <2> HIDE DEF u, p
  <2> QED
    BY <1>1, <1>4, <1>5, <1>6

\* What a function that gives a reference back does, after all.
LEMMA ReleaseIs ==
  ASSUME NEW s \in Blocks, NEW o \in Ops, s.op[o].ref > 0
  PROVE  LET t == Release(s, o)
         IN /\ Moves(o, s, t)
            /\ Dropped(s.op[o], t.op[o], s.due[o], t.due[o])
<1> DEFINE t == Decrement(s, o)
           m == Must(t, t.op[o].state = "COMPLETING")
<1>1. Release(s, o) \in {t, Check(m)}
  BY DEF Release
<1>2. t \in Blocks
  BY DecrementIs DEF Moves
<1>3. Apart(t, m) /\ m \in Blocks
  <2> HIDE DEF t
  <2> QED
    BY <1>2, MustIs DEF Apart
<1>4. Apart(m, Check(m))
  <2> HIDE DEF m
  <2> QED
    BY <1>3, CheckIs
<1>5. Apart(t, Release(s, o))
  <2>1. Apart(t, t)
    BY <1>2 DEF Apart
  <2>2. QED
    <3> HIDE DEF t, m
    <3> QED
      BY <1>1, <1>3, <1>4, <2>1, Transitive
<1>6. Release(s, o).op = t.op /\ Release(s, o).due = t.due /\ Moves(o, s, Release(s, o))
  <2>1. Moves(o, s, t)
    BY DecrementIs
  <2>2. QED
    <3> HIDE DEF t
    <3> QED
      BY <1>5, <2>1, Transitive DEF Apart
<1>7. QED
  BY <1>6, DecrementIs

\* Closing the channel has its callback come.
Closing(s, o, k) == [Later(s, o, k) EXCEPT !.channel = "closing"]

\* Registering the close of the channel.
LEMMA ClosingIs ==
  ASSUME NEW s \in Blocks, NEW o \in Ops, NEW k \in Kinds
  PROVE  LET t == Closing(s, o, k)
         IN Moves(o, s, t) /\ t.op = s.op /\ t.due[o] = [s.due[o] EXCEPT ![k] = @ + 1]
<1> DEFINE u == Later(s, o, k)
<1>1. Moves(o, s, u) /\ u.op = s.op /\ u.due[o] = [s.due[o] EXCEPT ![k] = @ + 1] /\ u \in Blocks
  <2>1. Moves(o, s, u) /\ u.op = s.op /\ u.due[o] = [s.due[o] EXCEPT ![k] = @ + 1]
    BY LaterIs, ZenonT(60)
  <2>2. QED
    <3> HIDE DEF u
    <3> QED
      BY <2>1 DEF Moves
<1>2. LET t == [u EXCEPT !.channel = "closing"]
      IN Moves(o, s, t) /\ t.op = u.op /\ t.due = u.due
  <2> HIDE DEF u
  <2> QED
    BY <1>1, SetChannel, Transitive DEF Apart
<1>3. Closing(s, o, k) = [u EXCEPT !.channel = "closing"]
  BY DEF Closing
<1>4. QED
  <2> HIDE DEF u
  <2> QED
    BY <1>1, <1>2, <1>3

\* Changing the state of an operation.
LEMMA SetState ==
  ASSUME NEW s \in Blocks, NEW o \in Ops, NEW x \in OpStates
  PROVE  LET t == [s EXCEPT !.op[o].state = x]
         IN /\ Moves(o, s, t) /\ t.due = s.due /\ t.op[o].state = x
            /\ SameRest(s.op[o], t.op[o]) /\ SameCounts(s.op[o], t.op[o])
            /\ t.session = s.session /\ t.handle = s.handle /\ t.channel = s.channel
<1> DEFINE p == [s.op[o] EXCEPT !.state = x]
<1>1. p \in Operations /\ p.state = x /\ SameRest(s.op[o], p) /\ SameCounts(s.op[o], p)
  <2>1. s.op[o] \in Operations
    BY DEF Blocks
  <2>2. QED
    BY <2>1 DEF Operations, SameRest, SameCounts
<1>2. [s EXCEPT !.op[o].state = x] = [s EXCEPT !.op[o] = p]
  OBVIOUS
<1>3. p.ref > 0 <=> s.op[o].ref > 0
  BY <1>1 DEF SameCounts
<1>4. QED
  <2> HIDE DEF p
  <2> QED
    <3>1. LET t == [s EXCEPT !.op[o] = p]
          IN /\ Moves(o, s, t) /\ t.due = s.due /\ t.op[o] = p
             /\ t.session = s.session /\ t.handle = s.handle /\ t.channel = s.channel
      BY <1>1, <1>3, SetOp
    <3>2. QED
      BY <1>1, <1>2, <3>1

\* What an abort does to an operation: one that has not connected will not; one
\* that has, or is about to, is closed, and its abort is on the way.
AbortStarts(p, q, d, e) ==
  \/ /\ p.state = "REQUESTING" /\ q.state = "ABORTING"
     /\ SameRest(p, q) /\ SameCounts(p, q) /\ e = d
  \/ /\ p.state \in {"CONNECTING", "CONNECTED"} /\ q.state = "ABORT_CLOSING"
     /\ SameRest(p, q) /\ q.ref = p.ref + 1 /\ q.completes = p.completes
     /\ \E k \in {"abort", "abort_fc"} : e = [d EXCEPT ![k] = @ + 1]
  \/ /\ p.state \notin {"REQUESTING", "CONNECTING", "CONNECTED"}
     /\ SameCourse(p, q) /\ SameCounts(p, q) /\ e = d

\* Either the channel's closing or a oneshot brings the abort.
LEMMA ClosedOrLater ==
  ASSUME NEW s \in Blocks, NEW o \in Ops,
         NEW t \in {Later(s, o, "abort"), Close(s, o, "abort_fc", Later(s, o, "abort"))}
  PROVE  /\ Moves(o, s, t) /\ t.op = s.op
         /\ \E x \in {"abort", "abort_fc"} : t.due[o] = [s.due[o] EXCEPT ![x] = @ + 1]
<1>1. "abort" \in Kinds /\ "abort_fc" \in Kinds
  BY KindsAre
<1>2. LET l == Later(s, o, "abort")
      IN Moves(o, s, l) /\ l.op = s.op /\ l.due[o] = [s.due[o] EXCEPT !["abort"] = @ + 1]
  BY <1>1, LaterIs
<1>3. LET u == Closing(s, o, "abort_fc")
      IN Moves(o, s, u) /\ u.op = s.op /\ u.due[o] = [s.due[o] EXCEPT !["abort_fc"] = @ + 1]
  BY <1>1, ClosingIs
<1>4. t \in {Later(s, o, "abort"), Closing(s, o, "abort_fc")}
  BY DEF Close, Closing
<1>5. QED
  BY <1>2, <1>3, <1>4

\* What globus_l_gfs_data_start_abort does to the operation.
LEMMA StartAbortIs ==
  ASSUME NEW s \in Blocks, NEW o \in Ops,
         s.op[o].state \in {"CONNECTING", "CONNECTED"} => s.op[o].ref > 0
  PROVE  LET t == StartAbort(s, o)
         IN /\ Moves(o, s, t)
            /\ AbortStarts(s.op[o], t.op[o], s.due[o], t.due[o])
<1> DEFINE p == s.op[o]
<1>1. CASE p.state = "REQUESTING"
  <2>1. StartAbort(s, o) = [s EXCEPT !.op[o].state = "ABORTING"]
    BY <1>1 DEF StartAbort
  <2>2. "ABORTING" \in OpStates
    BY DEF OpStates
  <2>3. QED
    BY <1>1, <2>1, <2>2, SetState DEF AbortStarts
<1>2. CASE p.state \in {"CONNECTING", "CONNECTED"}
  <2> DEFINE m == Must(s, s.handle.state = "INUSE")
             k == Kept(m, o)
             h == [k EXCEPT !.handle.state = "CLOSING"]
             c == [h EXCEPT !.op[o].state = "ABORT_CLOSING"]
             l == Later(c, o, "abort")
  <2>1. /\ "CLOSING" \in HandleStates /\ "ABORT_CLOSING" \in OpStates
        /\ "abort" \in Kinds /\ "abort_fc" \in Kinds
    BY KindsAre DEF HandleStates, OpStates
  <2>2. m \in Blocks /\ m.op = s.op /\ m.due = s.due /\ Apart(s, m)
    BY MustIs DEF Apart
  <2>3. /\ k \in Blocks /\ Moves(o, s, k) /\ k.due = s.due
        /\ SameCourse(p, k.op[o]) /\ k.op[o].ref = p.ref + 1 /\ k.op[o].completes = p.completes
    <3>1. /\ Moves(o, m, k) /\ k.due = m.due
          /\ SameCourse(p, k.op[o]) /\ k.op[o].ref = p.ref + 1 /\ k.op[o].completes = p.completes
      <4> HIDE DEF m
      <4> QED
        BY <1>2, <2>2, KeptIs
    <3>2. Moves(o, s, k)
      <4> HIDE DEF m, k
      <4> QED
        BY <2>2, <3>1, Transitive
    <3>3. k \in Blocks
      <4> HIDE DEF m, k
      <4> QED
        BY <3>1 DEF Moves
    <3>4. QED
      BY <2>2, <3>1, <3>2, <3>3
  <2>4. h \in Blocks /\ Apart(k, h) /\ h.op = k.op /\ h.due = k.due
    <3> HIDE DEF k
    <3> QED
      BY <2>1, <2>3, HandleState DEF Apart
  <2>5. /\ c \in Blocks /\ Moves(o, s, c) /\ c.due = s.due /\ c.op[o].state = "ABORT_CLOSING"
        /\ SameRest(p, c.op[o]) /\ c.op[o].ref = p.ref + 1 /\ c.op[o].completes = p.completes
    <3>1. /\ Moves(o, h, c) /\ c.due = h.due /\ c.op[o].state = "ABORT_CLOSING"
          /\ SameRest(h.op[o], c.op[o]) /\ SameCounts(h.op[o], c.op[o])
      <4> HIDE DEF h
      <4> QED
        BY <2>1, <2>4, SetState
    <3>2. Moves(o, s, c)
      <4> HIDE DEF k, h, c
      <4> QED
        BY <2>3, <2>4, <3>1, Transitive
    <3>3. c \in Blocks
      <4> HIDE DEF c
      <4> QED
        BY <3>2 DEF Moves
    <3>4. QED
      <4> HIDE DEF k, h, c
      <4> QED
        BY <2>3, <2>4, <3>1, <3>2, <3>3 DEF SameCourse, SameRest, SameCounts
  <2>6. StartAbort(s, o) \in {l, Close(c, o, "abort_fc", l)}
    BY <1>2 DEF StartAbort
  <2>7. /\ Moves(o, c, StartAbort(s, o)) /\ StartAbort(s, o).op = c.op
        /\ \E x \in {"abort", "abort_fc"} :
             StartAbort(s, o).due[o] = [c.due[o] EXCEPT ![x] = @ + 1]
    <3> HIDE DEF c
    <3> QED
      BY <2>5, <2>6, ClosedOrLater
  <2>8. QED
    <3>1. Moves(o, s, StartAbort(s, o))
      <4> HIDE DEF c, l
      <4> QED
        BY <2>5, <2>7, Transitive
    <3>2. QED
      <4> HIDE DEF c, l
      <4> QED
        BY <1>2, <2>5, <2>7, <3>1 DEF AbortStarts
<1>3. CASE p.state \notin {"REQUESTING", "CONNECTING", "CONNECTED"}
  <2>1. StartAbort(s, o) = s
    BY <1>3 DEF StartAbort
  <2>2. Moves(o, s, s)
    BY DEF Moves
  <2>3. QED
    BY <1>3, <2>1, <2>2 DEF AbortStarts, SameCourse, SameRest, SameCounts
<1>4. QED
  BY <1>1, <1>2, <1>3

\* The end of a connected operation is on the way in one of three forms.
LEMMA FinishConnectedIs ==
  ASSUME NEW s \in Blocks, NEW o \in Ops
  PROVE  LET t == FinishConnected(s, o)
         IN /\ Moves(o, s, t) /\ t.op = s.op
            /\ \E k \in {"end_read", "write_eof", "end"} : t.due[o] = [s.due[o] EXCEPT ![k] = @ + 1]
<1>1. PICK k \in {"end_read", "write_eof", "end"} : FinishConnected(s, o) = Later(s, o, k)
  BY DEF FinishConnected
<1>2. k \in Kinds
  BY KindsAre
<1>3. QED
  BY <1>1, <1>2, LaterIs

-----------------------------------------------------------------------------
(* What is on its way for an operation is tallied.                          *)

TallyOf(t, u, k, n) ==
  /\ u.begin = t.begin + n * One(k \in Beginning)
  /\ u.connect = t.connect + n * One(k \in Connecting)
  /\ u.abort = t.abort + n * One(k \in Aborting)
  /\ u.end = t.end + n * One(k \in Ending)
  /\ u.reply = t.reply + n * One(k = "end2")
  /\ u.over = t.over + n * One(k = "complete_fc")
  /\ u.marker = t.marker + n * One(k \in Marking)

\* Tallies are natural numbers.
LEMMA TallyIs ==
  ASSUME NEW d \in [Kinds -> Nat]
  PROVE  Tally(d) \in Tallies
BY KindsAre DEF Tally, Tallies

\* One more callback of a kind is one more of its tally, and of no other.
LEMMA MoreIs ==
  ASSUME NEW d \in [Kinds -> Nat], NEW k \in Kinds
  PROVE  LET e == [d EXCEPT ![k] = @ + 1]
         IN e \in [Kinds -> Nat] /\ Tally(e) \in Tallies /\ TallyOf(Tally(d), Tally(e), k, 1)
<1> DEFINE e == [d EXCEPT ![k] = @ + 1]
<1>1. e \in [Kinds -> Nat]
  OBVIOUS
<1>2. \A j \in Kinds : d[j] \in Nat /\ e[j] = d[j] + One(j = k)
  BY DEF One
<1>3. TallyOf(Tally(d), Tally(e), k, 1)
  <2> HIDE DEF e
  <2> QED
    BY KindsAre, <1>2 DEF TallyOf, Tally, One, Beginning, Connecting, Aborting, Ending, Marking
<1>4. Tally(e) \in Tallies
  BY <1>1, TallyIs
<1>5. QED
  BY <1>1, <1>3, <1>4

\* One callback less is one less of its tally, and of no other.
LEMMA LessIs ==
  ASSUME NEW d \in [Kinds -> Nat], NEW k \in Kinds, d[k] > 0
  PROVE  LET e == [d EXCEPT ![k] = @ - 1]
         IN e \in [Kinds -> Nat] /\ Tally(e) \in Tallies /\ TallyOf(Tally(e), Tally(d), k, 1)
<1> DEFINE e == [d EXCEPT ![k] = @ - 1]
<1>1. d[k] - 1 \in Nat
  OBVIOUS
<1>2. e \in [Kinds -> Nat]
  BY <1>1
<1>3. [e EXCEPT ![k] = @ + 1] = d
  <2>1. e[k] + 1 = d[k] /\ \A j \in Kinds \ {k} : e[j] = d[j]
    BY <1>1
  <2> HIDE DEF e
  <2>2. QED
    BY <1>2, <2>1
<1>4. TallyOf(Tally(e), Tally(d), k, 1)
  <2> HIDE DEF e
  <2> QED
    BY <1>2, <1>3, MoreIs
<1>5. Tally(e) \in Tallies
  BY <1>2, TallyIs
<1>6. QED
  BY <1>2, <1>4, <1>5

\* post_transfer_event_cb is not tallied: nobody waits for it.
LEMMA DroppedIs ==
  ASSUME NEW p, NEW q, NEW d \in [Kinds -> Nat], NEW e, Dropped(p, q, d, e)
  PROVE  e \in [Kinds -> Nat] /\ Tally(e) = Tally(d)
<1>1. CASE e = d
  BY <1>1
<1>2. CASE e = [d EXCEPT !["post"] = @ + 1]
  BY <1>2, KindsAre DEF Tally
<1>3. QED
  BY <1>1, <1>2 DEF Dropped

-----------------------------------------------------------------------------
(* What each kind of step does to one operation: p and d are its block and  *)
(* what is due for it before, q and e after, c and c2 the control half's    *)
(* view; r and f stand between, where a reference is given back at the end. *)

USE DEF Stage, Begins, Aborts, Ends, Counted, RequestHolds, ControlHolds, One, Finishing,
        SameCourse, SameRest, SameCounts, Operations, CtlStates, Tallies,
        Beginning, Connecting, Aborting, Ending, Marking

\* An operation that is not answered: the request holds a reference, and so
\* does the control half once it is begun.
LEMMA UnansweredIs ==
  ASSUME NEW p \in Operations, NEW t \in Tallies, NEW c \in {"busy", "aborted"}
  PROVE  Fits(p, t, c) <=>
           /\ p.state \notin {"COMPLETING", "COMPLETE"} /\ (p.finished <=> p.state \in Finishing)
           /\ Begins(p, t) /\ Aborts(p, t) /\ Ends(p, t)
           /\ p.replies = 0 /\ t.over = 0 /\ p.completes = 0
           /\ p.ref = 1 + One(p.begun) + One(p.connectFailed) + t.begin + t.connect + t.abort + t.marker
<1>1. Stage(p, c) <=> /\ p.state \notin {"COMPLETING", "COMPLETE"}
                      /\ (p.finished <=> p.state \in Finishing) /\ p.replies = 0
  OBVIOUS
<1>2. p.replies = 0 => RequestHolds(p, t, c) /\ (ControlHolds(p, t, c) <=> p.begun)
  OBVIOUS
<1>3. p.replies = 0 =>
        (Counted(p, t, c) <=>
           /\ t.over = 0 /\ p.completes = 0
           /\ p.ref = 1 + One(p.begun) + One(p.connectFailed) + t.begin + t.connect + t.abort + t.marker)
  <2> HIDE DEF RequestHolds, ControlHolds, Stage, Begins, Aborts, Ends
  <2>1. HAVE p.replies = 0
  <2>2. One(RequestHolds(p, t, c)) = 1 /\ One(ControlHolds(p, t, c)) = One(p.begun)
    BY <1>2, <2>1
  <2>3. /\ One(p.begun) \in Nat /\ One(p.connectFailed) \in Nat /\ One(p.begun /\ c = "ended") = 0
        /\ t.begin \in Nat /\ t.connect \in Nat /\ t.abort \in Nat /\ t.marker \in Nat /\ t.over \in Nat
    OBVIOUS
  <2> HIDE DEF One, Operations, Tallies
  <2>4. QED
    BY <2>2, <2>3 DEF Counted
<1>4. QED
  <2> HIDE DEF Stage, Begins, Aborts, Ends, Counted
  <2> QED
    BY <1>1, <1>3 DEF Fits

\* One that is answered, and then one the control half is through with.
LEMMA AnsweredIs ==
  ASSUME NEW p \in Operations, NEW t \in Tallies
  PROVE  Fits(p, t, "replied") <=>
           /\ p.state \in {"FINISH", "FINISH_WITH_ERROR"} /\ p.finished /\ p.begun
           /\ Begins(p, t) /\ Aborts(p, t) /\ Ends(p, t)
           /\ p.replies = 1 /\ t.over = 0 /\ p.completes = 0
           /\ p.ref = 1 + One(t.reply > 0) + One(p.connectFailed)
                      + t.begin + t.connect + t.abort + t.marker
<1>1. Ends(p, t) =>
        (Stage(p, "replied") <=> /\ p.state \in {"FINISH", "FINISH_WITH_ERROR"} /\ p.finished /\ p.begun
                                 /\ p.replies = 1)
  OBVIOUS
<1>2. p.replies = 1 /\ p.begun =>
        (RequestHolds(p, t, "replied") <=> t.reply > 0) /\ ControlHolds(p, t, "replied")
  OBVIOUS
<1>3. p.replies = 1 /\ p.begun =>
        (Counted(p, t, "replied") <=>
           /\ t.over = 0 /\ p.completes = 0
           /\ p.ref = 1 + One(t.reply > 0) + One(p.connectFailed)
                      + t.begin + t.connect + t.abort + t.marker)
  <2> HIDE DEF RequestHolds, ControlHolds, Stage, Begins, Aborts, Ends
  <2>1. HAVE p.replies = 1 /\ p.begun
  <2>2. One(RequestHolds(p, t, "replied")) = One(t.reply > 0) /\ One(ControlHolds(p, t, "replied")) = 1
    BY <1>2, <2>1
  <2>3. /\ One(t.reply > 0) \in Nat /\ One(p.connectFailed) \in Nat
        /\ One(p.begun /\ "replied" = "ended") = 0
        /\ t.begin \in Nat /\ t.connect \in Nat /\ t.abort \in Nat /\ t.marker \in Nat /\ t.over \in Nat
    OBVIOUS
  <2> HIDE DEF One, Operations, Tallies
  <2>4. QED
    BY <2>2, <2>3 DEF Counted
<1>4. QED
  <2> HIDE DEF Stage, Begins, Aborts, Ends, Counted
  <2> QED
    BY <1>1, <1>3 DEF Fits

\* What the invariant says after the control half has TRANSFER_COMPLETE on its way.
LEMMA EndedIs ==
  ASSUME NEW p \in Operations, NEW t \in Tallies
  PROVE  Fits(p, t, "ended") <=>
           /\ p.state \in Finishing /\ p.finished
           /\ Begins(p, t) /\ Aborts(p, t) /\ Ends(p, t)
           /\ p.replies = 1 /\ t.over <= One(p.begun)
           /\ p.completes \in 0..1 /\ (p.completes = 1 => p.ref = 0)
           /\ p.ref = One(t.reply > 0) + t.over + One(p.connectFailed)
                      + t.begin + t.connect + t.abort + t.marker
<1>1. Ends(p, t) =>
        (Stage(p, "ended") <=> p.state \in Finishing /\ p.finished /\ p.replies = 1)
  OBVIOUS
<1>2. p.replies = 1 =>
        /\ RequestHolds(p, t, "ended") <=> t.reply > 0
        /\ ControlHolds(p, t, "ended") <=> p.begun /\ t.over > 0
  OBVIOUS
<1>3. p.replies = 1 =>
        (Counted(p, t, "ended") <=>
           /\ t.over <= One(p.begun)
           /\ p.completes \in 0..1 /\ (p.completes = 1 => p.ref = 0)
           /\ p.ref = One(t.reply > 0) + t.over + One(p.connectFailed)
                      + t.begin + t.connect + t.abort + t.marker)
  <2> HIDE DEF RequestHolds, ControlHolds, Stage, Begins, Aborts, Ends
  <2>1. HAVE p.replies = 1
  <2>2. One(RequestHolds(p, t, "ended")) = One(t.reply > 0)
    BY <1>2, <2>1
  <2>3. t.over <= One(p.begun) => One(ControlHolds(p, t, "ended")) = t.over
    BY <1>2, <2>1
  <2>4. One(p.begun /\ "ended" = "ended") = One(p.begun)
    OBVIOUS
  <2> HIDE DEF One, Operations, Tallies
  <2>5. QED
    BY <2>2, <2>3, <2>4 DEF Counted
<1>4. QED
  <2> HIDE DEF Stage, Begins, Aborts, Ends, Counted
  <2> QED
    BY <1>1, <1>3 DEF Fits

\* Until the storage module has finished the request is not answered.
LEMMA UnfinishedIs ==
  ASSUME NEW p \in Operations, NEW t \in Tallies, NEW c \in CtlStates, Fits(p, t, c), c # "idle"
  PROVE  /\ ~p.finished => c \in {"busy", "aborted"}
         /\ p.replies = 0 => c \in {"busy", "aborted"}
         /\ p.state \notin Finishing => c \in {"busy", "aborted"}
BY DEF Fits

\* Nothing else of an operation matters.
LEMMA SameFits ==
  ASSUME NEW p \in Operations, NEW q \in Operations, NEW t \in Tallies, NEW c \in CtlStates,
         SameCourse(p, q), SameCounts(p, q), Fits(p, t, c)
  PROVE  Fits(q, t, c)
<1>1. Stage(q, c)
  BY DEF Fits
<1>2. Begins(q, t) /\ Aborts(q, t) /\ Ends(q, t)
  BY DEF Fits
<1>3. (RequestHolds(q, t, c) <=> RequestHolds(p, t, c)) /\ (ControlHolds(q, t, c) <=> ControlHolds(p, t, c))
  OBVIOUS
<1>4. Counted(q, t, c)
  <2> HIDE DEF RequestHolds, ControlHolds, Begins, Aborts, Ends, Stage
  <2> QED
    BY <1>3 DEF Fits
<1>5. QED
  BY <1>1, <1>2, <1>4 DEF Fits

\* What a call on its way says of the operation it is for.
LEMMA HasReference ==
  ASSUME NEW p \in Operations, NEW d \in [Kinds -> Nat], NEW c \in CtlStates, Sound(p, d, c)
  PROVE  /\ c # "idle" /\ ~p.finished => p.ref > 0
         /\ c = "replied" => p.ref > 0 /\ p.state \in {"FINISH", "FINISH_WITH_ERROR"}
         /\ p.live => c # "idle"
         /\ \A k \in Kinds : d[k] > 0 => c # "idle"
         /\ \A k \in Beginning \cup Connecting \cup Aborting \cup Marking \cup {"end2", "complete_fc"} :
              d[k] > 0 => p.ref > 0
         /\ p.state \in {"CONNECTING", "CONNECT_CB", "CONNECTED"} => c # "idle" /\ p.ref > 0
<1> DEFINE t == Tally(d)
<1>1. t \in Tallies /\ Fits(p, t, c)
  BY TallyIs DEF Sound
<1>2. \A k \in Kinds : d[k] > 0 => c # "idle"
  BY DEF Sound
<1>3. \A k \in Beginning \cup Connecting \cup Aborting \cup Marking \cup {"end2", "complete_fc"} :
        d[k] > 0 => t.begin + t.connect + t.abort + t.marker + t.reply + t.over > 0
  <2> TAKE k \in Beginning \cup Connecting \cup Aborting \cup Marking \cup {"end2", "complete_fc"}
  <2> HAVE d[k] > 0
  <2> DEFINE e == [d EXCEPT ![k] = @ - 1]
             u == Tally(e)
  <2>1. k \in Kinds
    BY KindsAre
  <2>2. u \in Tallies /\ TallyOf(u, t, k, 1)
    BY <2>1, LessIs, TallyIs
  <2> HIDE DEF e, t, u
  <2>3. QED
    BY <2>2 DEF TallyOf
<1>4. c # "idle" /\ t.begin + t.connect + t.abort + t.marker + t.reply + t.over > 0 => p.ref > 0
  <2> HIDE DEF t
  <2> QED
    BY <1>1 DEF Fits
<1>5. /\ c # "idle" /\ ~p.finished => p.ref > 0
      /\ c = "replied" => p.ref > 0 /\ p.state \in {"FINISH", "FINISH_WITH_ERROR"}
      /\ p.live => c # "idle"
      /\ p.state \in {"CONNECTING", "CONNECT_CB", "CONNECTED"} => c # "idle" /\ p.ref > 0
  <2> HIDE DEF t
  <2> QED
    BY <1>1 DEF Fits, OpStates
<1>6. \A k \in Beginning \cup Connecting \cup Aborting \cup Marking \cup {"end2", "complete_fc"} : k \in Kinds
  BY KindsAre
<1>7. QED
  <2> HIDE DEF t
  <2> QED
    BY <1>2, <1>3, <1>4, <1>5, <1>6

\* A request that nothing is left of an earlier one of.
LEMMA SoundRequest ==
  ASSUME NEW p \in Operations, NEW d \in [Kinds -> Nat], Sound(p, d, "idle"), NEW w \in BOOLEAN
  PROVE  NewOp(w) \in Operations /\ Sound(NewOp(w), d, "busy")
<1>1. \A k \in Kinds : d[k] = 0
  BY DEF Sound
<1>2. Tally(d) = [begin |-> 0, connect |-> 0, abort |-> 0, end |-> 0, reply |-> 0, over |-> 0,
                  marker |-> 0]
  BY <1>1, KindsAre DEF Tally
<1>3. QED
  BY <1>2 DEF Sound, Fits, NewOp, OpStates

\* An abort starts.
LEMMA SoundAbort ==
  ASSUME NEW p \in Operations, NEW q \in Operations, NEW d \in [Kinds -> Nat], NEW c \in CtlStates,
         Sound(p, d, c), NEW e, AbortStarts(p, q, d, e), c # "idle",
         NEW c2, c2 = c \/ (c = "busy" /\ c2 = "aborted")
  PROVE  Sound(q, e, c2)
<1> DEFINE t == Tally(d)
           u == Tally(e)
<1>1. t \in Tallies /\ Fits(p, t, c)
  BY TallyIs DEF Sound
<1>2. CASE p.state \notin {"CONNECTING", "CONNECTED"}
  <2>1. e = d /\ SameRest(p, q) /\ SameCounts(p, q)
        /\ q.state \in {p.state, "ABORTING"} /\ (q.state # p.state => p.state = "REQUESTING")
    BY <1>2 DEF AbortStarts
  <2>2. Fits(q, t, c2)
    <3> HIDE DEF t
    <3>1. CASE c \in {"busy", "aborted"}
      BY <1>1, <2>1, <3>1, UnansweredIs
    <3>2. CASE c \notin {"busy", "aborted"}
      <4>1. SameCourse(p, q) /\ c2 = c
        BY <1>1, <2>1, <3>2, UnfinishedIs
      <4>2. QED
        BY <1>1, <2>1, <4>1, SameFits
    <3>3. QED
      BY <3>1, <3>2
  <2>3. QED
    BY <2>1, <2>2 DEF Sound
<1>3. CASE p.state \in {"CONNECTING", "CONNECTED"}
  <2>1. PICK k \in {"abort", "abort_fc"} : e = [d EXCEPT ![k] = @ + 1]
    BY <1>3 DEF AbortStarts
  <2>2. /\ u.begin = t.begin /\ u.connect = t.connect /\ u.abort = t.abort + 1 /\ u.end = t.end
        /\ u.reply = t.reply /\ u.over = t.over /\ u.marker = t.marker /\ u \in Tallies
    <3>0. k \in Kinds
      BY KindsAre
    <3>1. TallyOf(t, u, k, 1) /\ u \in Tallies
      BY <2>1, <3>0, MoreIs
    <3> HIDE DEF t, u
    <3>2. QED
      BY <1>1, <3>1 DEF TallyOf
  <2>3. /\ q.state = "ABORT_CLOSING" /\ SameRest(p, q)
        /\ q.ref = p.ref + 1 /\ q.completes = p.completes
    BY <1>3 DEF AbortStarts
  <2>4. Fits(q, u, c2)
    <3> HIDE DEF t, u
    <3> QED
      <4>1. c \in {"busy", "aborted"} /\ c2 \in {"busy", "aborted"}
        BY <1>1, <1>3, UnfinishedIs
      <4>2. QED
        BY <1>1, <1>3, <2>2, <2>3, <4>1, UnansweredIs
  <2>5. QED
    BY <2>4 DEF Sound
<1>4. QED
  BY <1>2, <1>3

\* A marker is on its way.
LEMMA SoundMarker ==
  ASSUME NEW p \in Operations, NEW q \in Operations, NEW d \in [Kinds -> Nat], NEW c \in CtlStates,
         Sound(p, d, c), c # "idle", NEW e,
         p.state = "CONNECTED", SameCourse(p, q), q.ref = p.ref + 1, q.completes = p.completes,
         e = [d EXCEPT !["trev"] = @ + 1]
  PROVE  Sound(q, e, c)
<1> DEFINE t == Tally(d)
           u == Tally(e)
<1>1. t \in Tallies /\ Fits(p, t, c)
  BY TallyIs DEF Sound
<1>2. /\ u \in Tallies /\ u.begin = t.begin /\ u.connect = t.connect /\ u.abort = t.abort
      /\ u.end = t.end /\ u.reply = t.reply /\ u.over = t.over /\ u.marker = t.marker + 1
  <2>1. u \in Tallies /\ TallyOf(t, u, "trev", 1)
    BY MoreIs, KindsAre
  <2> HIDE DEF t, u
  <2>2. QED
    BY <1>1, <2>1 DEF TallyOf
<1>3. Fits(q, u, c)
  <2> HIDE DEF t, u
  <2>1. c \in {"busy", "aborted"}
    BY <1>1, UnfinishedIs
  <2>2. QED
    BY <1>1, <1>2, <2>1, UnansweredIs DEF TallyOf
<1>4. QED
  BY <1>3 DEF Sound

\* TRANSFER_COMPLETE comes through, now or when the channel is closed.
LEMMA SoundComplete ==
  ASSUME NEW p \in Operations, NEW q \in Operations, NEW d \in [Kinds -> Nat],
         Sound(p, d, "replied"), NEW r \in Operations, NEW e,
         r.state = "COMPLETING", SameRest(p, r), SameCounts(p, r),
         \/ Dropped(r, q, d, e)
         \/ SameCourse(r, q) /\ SameCounts(r, q) /\ e = [d EXCEPT !["complete_fc"] = @ + 1]
  PROVE  Sound(q, e, "ended")
<1> DEFINE t == Tally(d)
           u == Tally(e)
<1>1. t \in Tallies /\ Fits(p, t, "replied")
  BY TallyIs DEF Sound
<1>2. CASE Dropped(r, q, d, e)
  <2>1. u = t
    BY <1>2, DroppedIs
  <2>2. /\ SameCourse(r, q) /\ q.ref = r.ref - 1
        /\ q.completes = (IF r.ref = 1 THEN r.completes + 1 ELSE r.completes)
    <3> HIDE DEF t, u
    <3> QED
      BY <1>1, <1>2, AnsweredIs DEF Dropped
  <2>3. Fits(q, u, "ended")
    <3> HIDE DEF t, u
    <3> QED
      <4>1. /\ q.state = "COMPLETING" /\ q.finished /\ q.begun /\ q.replies = 1
            /\ Begins(q, u) /\ Aborts(q, u) /\ Ends(q, u) /\ u.over = 0
        BY <1>1, <2>1, <2>2, AnsweredIs
      <4>2. /\ q.ref = One(u.reply > 0) + One(q.connectFailed) + u.begin + u.connect + u.abort + u.marker
            /\ q.completes \in 0..1 /\ (q.completes = 1 => q.ref = 0)
        BY <1>1, <2>1, <2>2, AnsweredIs
      <4>3. QED
        BY <1>1, <2>1, <4>1, <4>2, EndedIs
  <2>4. QED
    BY <2>3 DEF Sound
<1>3. CASE /\ SameCourse(r, q) /\ SameCounts(r, q) /\ e = [d EXCEPT !["complete_fc"] = @ + 1]
  <2>1. /\ u \in Tallies /\ u.begin = t.begin /\ u.connect = t.connect /\ u.abort = t.abort
        /\ u.end = t.end /\ u.reply = t.reply /\ u.over = t.over + 1 /\ u.marker = t.marker
    <3>1. u \in Tallies /\ TallyOf(t, u, "complete_fc", 1)
      BY <1>3, MoreIs, KindsAre
    <3> HIDE DEF t, u
    <3>2. QED
      BY <1>1, <3>1 DEF TallyOf
  <2>2. Fits(q, u, "ended")
    <3> HIDE DEF t, u
    <3> QED
      BY <1>1, <1>3, <2>1, AnsweredIs, EndedIs DEF TallyOf
  <2>3. QED
    BY <2>2 DEF Sound
<1>4. QED
  BY <1>2, <1>3

\* The storage module begins.
LEMMA SoundBegin ==
  ASSUME NEW p \in Operations, NEW q \in Operations, NEW d \in [Kinds -> Nat], NEW c \in CtlStates,
         Sound(p, d, c), c # "idle", NEW e,
         ~p.begun, ~p.finished, q.begun, q.ref = p.ref + 2, q.completes = p.completes,
         q.state = p.state, q.live = p.live, q.finished = p.finished, q.delayed = p.delayed,
         q.connectFailed = p.connectFailed, q.replies = p.replies,
         e = [d EXCEPT !["begin"] = @ + 1]
  PROVE  Sound(q, e, c)
<1> DEFINE t == Tally(d)
           u == Tally(e)
<1>1. t \in Tallies /\ Fits(p, t, c)
  BY TallyIs DEF Sound
<1>2. u \in Tallies /\ TallyOf(t, u, "begin", 1)
  BY MoreIs, KindsAre
<1>3. Fits(q, u, c)
  <2> HIDE DEF t, u
  <2>1. c \in {"busy", "aborted"}
    BY <1>1, UnfinishedIs
  <2>2. QED
    BY <1>1, <1>2, <2>1, UnansweredIs DEF TallyOf
<1>4. QED
  BY <1>3 DEF Sound

\* A reference is given back by one that held it: the last one only when the
\* control half is through.
LEMMA FitsDrop ==
  ASSUME NEW p \in Operations, NEW q \in Operations, NEW t \in Tallies, NEW u \in Tallies,
         NEW c \in CtlStates, c # "idle", Fits(p, t, c), SameRest(p, q), q.ref = p.ref - 1,
         q.completes = p.completes + One(p.ref = 1 /\ p.begun),
         \/ q.state = p.state
         \/ p.state = "CONNECT_CB" /\ q.state = "CONNECTED"
         \/ p.state = "ABORT_CLOSING" /\ q.state = "ABORTING" /\ u.abort = 0,
         u.begin <= t.begin, u.connect <= t.connect, u.abort <= t.abort, u.marker <= t.marker,
         u.reply <= t.reply, u.over <= t.over, u.end = t.end,
         u.begin + u.connect + u.abort + u.marker + u.reply + u.over + 1 =
           t.begin + t.connect + t.abort + t.marker + t.reply + t.over
  PROVE  Fits(q, u, c)
<1>1. Begins(p, t) /\ Aborts(p, t) /\ Ends(p, t) /\ (p.finished <=> p.state \in Finishing)
  BY DEF Fits
<1>2. Begins(q, u)
  BY <1>1
<1>3. Aborts(q, u)
  BY <1>1
<1>4. Ends(q, u)
  <2>1. p.finished <=> q.state \in Finishing
    BY <1>1
  <2>2. q.state = "FINISH" <=> p.state = "FINISH"
    BY <1>1
  <2>3. QED
    BY <1>1, <2>1, <2>2
<1>5. /\ q.state \in Finishing <=> p.state \in Finishing
      /\ q.state \in {"COMPLETING", "COMPLETE"} <=> p.state \in {"COMPLETING", "COMPLETE"}
      /\ q.state \in {"FINISH", "FINISH_WITH_ERROR"} <=> p.state \in {"FINISH", "FINISH_WITH_ERROR"}
  OBVIOUS
<1>6. /\ t.reply <= p.replies /\ p.ref \in Int /\ One(p.connectFailed) \in Nat /\ One(p.begun) \in Nat
      /\ t.begin \in Nat /\ t.connect \in Nat /\ t.abort \in Nat /\ t.marker \in Nat
      /\ t.reply \in Nat /\ t.over \in Nat
      /\ u.begin \in Nat /\ u.connect \in Nat /\ u.abort \in Nat /\ u.marker \in Nat
      /\ u.reply \in Nat /\ u.over \in Nat
  BY <1>1
<1>7. (p.ref > 1 => One(p.ref = 1 /\ p.begun) = 0) /\ One(q.connectFailed) = One(p.connectFailed)
      /\ One(q.begun) = One(p.begun)
  BY <1>6
<1>8. CASE c \in {"busy", "aborted"}
  <2>1. /\ p.replies = 0 /\ t.over = 0 /\ p.completes = 0 /\ p.state \notin {"COMPLETING", "COMPLETE"}
        /\ p.ref = 1 + One(p.begun) + One(p.connectFailed) + t.begin + t.connect + t.abort + t.marker
    <3> HIDE DEF Begins, Aborts, Ends, Stage, One, Operations, Tallies, Finishing
    <3> QED
      BY <1>8, UnansweredIs
  <2>2. /\ q.replies = 0 /\ u.over = 0 /\ q.completes = 0
        /\ q.ref = 1 + One(q.begun) + One(q.connectFailed) + u.begin + u.connect + u.abort + u.marker
    <3>1. t.reply = 0 /\ u.reply = 0 /\ u.over = 0
      BY <1>6, <2>1
    <3> HIDE DEF Begins, Aborts, Ends, Stage, One, Operations, Tallies, Finishing, CtlStates
    <3>2. p.ref > 1
      BY <1>6, <2>1, <3>1
    <3>3. q.completes = 0
      BY <1>7, <2>1, <3>2
    <3>4. q.ref = 1 + One(p.begun) + One(p.connectFailed) + u.begin + u.connect + u.abort + u.marker
      <4> DEFINE m == t.begin + t.connect + t.abort + t.marker + t.reply + t.over
                 n == u.begin + u.connect + u.abort + u.marker + u.reply + u.over
                 x == One(p.begun) + One(p.connectFailed)
      <4>1. m = n + 1 /\ m \in Nat /\ n \in Nat /\ x \in Nat
        BY <1>6
      <4>2. p.ref = 1 + x + m
        BY <1>6, <2>1, <3>1
      <4>3. q.ref = x + m
        <5> HIDE DEF m, x
        <5> QED
          BY <1>6, <4>1, <4>2
      <4>4. q.ref = 1 + x + n
        <5> HIDE DEF m, n, x
        <5> QED
          BY <4>1, <4>3
      <4>5. QED
        BY <1>6, <3>1, <4>4
    <3>5. QED
      BY <1>7, <2>1, <3>1, <3>3, <3>4
  <2>3. q.state \notin {"COMPLETING", "COMPLETE"} /\ (q.finished <=> q.state \in Finishing)
    BY <1>1, <1>5, <2>1
  <2>4. QED
    <3> HIDE DEF Begins, Aborts, Ends, Stage, One, Operations, Tallies, Finishing, CtlStates
    <3> QED
      BY <1>2, <1>3, <1>4, <1>8, <2>2, <2>3, UnansweredIs
<1>9. CASE c = "replied"
  <2>1. /\ p.replies = 1 /\ t.over = 0 /\ p.completes = 0
        /\ p.state \in {"FINISH", "FINISH_WITH_ERROR"} /\ p.finished /\ p.begun
        /\ p.ref = 1 + One(t.reply > 0) + One(p.connectFailed) + t.begin + t.connect + t.abort + t.marker
    <3> HIDE DEF Begins, Aborts, Ends, Stage, One, Operations, Tallies, Finishing
    <3> QED
      BY <1>9, AnsweredIs
  <2>2. One(t.reply > 0) = t.reply /\ One(u.reply > 0) = u.reply
    BY <1>6, <2>1
  <2>3. /\ q.replies = 1 /\ u.over = 0 /\ q.completes = 0
        /\ q.ref = 1 + One(u.reply > 0) + One(q.connectFailed) + u.begin + u.connect + u.abort + u.marker
    <3>1. u.over = 0
      BY <1>6, <2>1
    <3> HIDE DEF Begins, Aborts, Ends, Stage, One, Operations, Tallies, Finishing, CtlStates
    <3>2. p.ref > 1
      BY <1>6, <2>1, <2>2, <3>1
    <3>3. q.completes = 0
      BY <1>7, <2>1, <3>2
    <3>4. q.ref = 1 + u.reply + One(p.connectFailed) + u.begin + u.connect + u.abort + u.marker
      <4> DEFINE m == t.begin + t.connect + t.abort + t.marker + t.reply + t.over
                 n == u.begin + u.connect + u.abort + u.marker + u.reply + u.over
      <4>1. p.ref = 1 + One(p.connectFailed) + m
        <5>1. t.over = 0 /\ p.ref = 1 + t.reply + One(p.connectFailed) + t.begin + t.connect + t.abort + t.marker
          BY <2>1, <2>2
        <5> DEFINE a == t.begin
                   b == t.connect
                   e == t.abort
                   f == t.marker
                   g == t.reply
                   x == One(p.connectFailed)
        <5>2. /\ a \in Nat /\ b \in Nat /\ e \in Nat /\ f \in Nat /\ g \in Nat /\ x \in Nat
              /\ m = a + b + e + f + g + 0 /\ p.ref = 1 + g + x + a + b + e + f
          BY <1>6, <5>1
        <5> HIDE DEF a, b, e, f, g, x, m
        <5>3. p.ref = 1 + x + m
          BY <5>2
        <5>4. QED
          BY <5>3 DEF x
      <4>2. m = n + 1 /\ m \in Nat /\ n \in Nat
        BY <1>6
      <4>3. q.ref = One(p.connectFailed) + (n + 1)
        <5> HIDE DEF m, n
        <5> QED
          BY <1>6, <4>1, <4>2
      <4>4. QED
        BY <1>6, <3>1, <4>3
    <3>5. QED
      BY <1>7, <2>1, <2>2, <3>1, <3>3, <3>4
  <2>4. q.state \in {"FINISH", "FINISH_WITH_ERROR"} /\ q.finished /\ q.begun
    BY <1>1, <1>5, <2>1
  <2>5. QED
    <3> HIDE DEF Begins, Aborts, Ends, Stage, One, Operations, Tallies, Finishing, CtlStates
    <3> QED
      BY <1>2, <1>3, <1>4, <1>9, <2>3, <2>4, AnsweredIs
<1>10. CASE c = "ended"
  <2>1. /\ p.replies = 1 /\ t.over <= One(p.begun) /\ p.completes \in 0..1 /\ (p.completes = 1 => p.ref = 0)
        /\ p.state \in Finishing /\ p.finished
        /\ p.ref = One(t.reply > 0) + t.over + One(p.connectFailed) + t.begin + t.connect + t.abort + t.marker
    <3> HIDE DEF Begins, Aborts, Ends, Stage, One, Operations, Tallies, Finishing
    <3> QED
      BY <1>10, EndedIs
  <2>2. One(t.reply > 0) = t.reply /\ One(u.reply > 0) = u.reply
    BY <1>6, <2>1
  <2>3. /\ q.replies = 1 /\ u.over <= One(q.begun)
        /\ q.ref = One(u.reply > 0) + u.over + One(q.connectFailed) + u.begin + u.connect + u.abort + u.marker
    <3> HIDE DEF Begins, Aborts, Ends, Stage, One, Operations, Tallies, Finishing, CtlStates
    <3>1. q.ref = u.reply + u.over + One(p.connectFailed) + u.begin + u.connect + u.abort + u.marker
      <4>1. p.ref = One(p.connectFailed) + (t.begin + t.connect + t.abort + t.marker + t.reply + t.over)
        BY <1>6, <2>1, <2>2
      <4>2. p.ref = One(p.connectFailed) + (u.begin + u.connect + u.abort + u.marker + u.reply + u.over + 1)
        BY <4>1
      <4>3. QED
        BY <1>6, <4>2
    <3>2. u.over <= One(p.begun)
      BY <1>6, <2>1
    <3>3. QED
      BY <1>7, <2>1, <2>2, <3>1, <3>2
  <2>4. p.ref > 0
    <3> HIDE DEF Begins, Aborts, Ends, Stage, One, Operations, Tallies, Finishing
    <3> QED
      BY <1>6, <2>1, <2>2
  <2>5. q.completes \in 0..1 /\ (q.completes = 1 => q.ref = 0)
    <3>1. p.completes = 0
      BY <2>1, <2>4
    <3>2. q.completes = 1 => p.ref = 1
      BY <3>1
    <3>3. QED
      BY <3>1, <3>2
  <2>6. q.state \in Finishing /\ q.finished
    BY <1>1, <1>5, <2>1
  <2>7. QED
    <3> HIDE DEF Begins, Aborts, Ends, Stage, One, Operations, Tallies, Finishing, CtlStates
    <3> QED
      BY <1>2, <1>3, <1>4, <1>10, <2>3, <2>5, <2>6, EndedIs
<1>11. QED
  BY <1>8, <1>9, <1>10

\* Where the end has got to is of no other matter.
LEMMA FitsEnd ==
  ASSUME NEW p \in Operations, NEW t \in Tallies, NEW u \in Tallies, NEW c \in CtlStates,
         Fits(p, t, c), Ends(p, u),
         u.begin = t.begin, u.connect = t.connect, u.abort = t.abort, u.marker = t.marker,
         u.reply = t.reply, u.over = t.over
  PROVE  Fits(p, u, c)
<1>1. Stage(p, c) /\ Begins(p, u) /\ Aborts(p, u)
  BY DEF Fits
<1>2. (RequestHolds(p, u, c) <=> RequestHolds(p, t, c)) /\ (ControlHolds(p, u, c) <=> ControlHolds(p, t, c))
  OBVIOUS
<1>3. Counted(p, u, c)
  <2> HIDE DEF RequestHolds, ControlHolds, Begins, Aborts, Ends, Stage
  <2> QED
    BY <1>2 DEF Fits
<1>4. QED
  BY <1>1, <1>3 DEF Fits

\* A callback is through and gives its reference back.
LEMMA SoundDrop ==
  ASSUME NEW p \in Operations, NEW q \in Operations, NEW d \in [Kinds -> Nat], NEW c \in CtlStates,
         Sound(p, d, c), NEW e, NEW k \in {"begin", "begin_abort", "trev2", "complete_fc", "end2"},
         d[k] > 0, Dropped(p, q, [d EXCEPT ![k] = @ - 1], e)
  PROVE  Sound(q, e, c)
<1> DEFINE t == Tally(d)
           f == [d EXCEPT ![k] = @ - 1]
           u == Tally(e)
<1>1. t \in Tallies /\ Fits(p, t, c) /\ k \in Kinds
  BY TallyIs, KindsAre DEF Sound
<1>2. c # "idle"
  BY <1>1 DEF Sound
<1>3. f \in [Kinds -> Nat] /\ Tally(f) \in Tallies /\ TallyOf(Tally(f), t, k, 1)
  BY <1>1, LessIs
<1>4. u = Tally(f)
  <2>1. Dropped(p, q, f, e)
    OBVIOUS
  <2> HIDE DEF f, Dropped, Tallies, Operations, CtlStates, Sound
  <2>2. QED
    BY <1>3, <2>1, DroppedIs
<1>5. Fits(q, u, c)
  <2>1. /\ SameCourse(p, q) /\ q.ref = p.ref - 1
        /\ q.completes = p.completes + One(p.ref = 1 /\ p.begun)
    BY DEF Dropped
  <2> HIDE DEF f, t, u
  <2>2. /\ u \in Tallies
        /\ u.begin <= t.begin /\ u.connect <= t.connect /\ u.abort <= t.abort /\ u.marker <= t.marker
        /\ u.reply <= t.reply /\ u.over <= t.over /\ u.end = t.end
        /\ u.begin + u.connect + u.abort + u.marker + u.reply + u.over + 1 =
             t.begin + t.connect + t.abort + t.marker + t.reply + t.over
    BY <1>1, <1>3, <1>4 DEF TallyOf
  <2>3. QED
    BY <1>1, <1>2, <2>1, <2>2, FitsDrop
<1>6. QED
  BY <1>2, <1>5 DEF Sound

\* What two calls do to the tally, one taken and one more on its way.
LEMMA PassedOn ==
  ASSUME NEW d \in [Kinds -> Nat], NEW k \in Kinds, NEW j \in Kinds, d[k] > 0
  PROVE  LET f == [d EXCEPT ![k] = @ - 1]
             e == [f EXCEPT ![j] = @ + 1]
         IN /\ e \in [Kinds -> Nat] /\ Tally(e) \in Tallies /\ Tally(f) \in Tallies
            /\ TallyOf(Tally(f), Tally(d), k, 1) /\ TallyOf(Tally(f), Tally(e), j, 1)
<1> DEFINE f == [d EXCEPT ![k] = @ - 1]
           e == [f EXCEPT ![j] = @ + 1]
<1>1. f \in [Kinds -> Nat] /\ Tally(f) \in Tallies /\ TallyOf(Tally(f), Tally(d), k, 1)
  BY LessIs
<1>2. e \in [Kinds -> Nat] /\ Tally(e) \in Tallies /\ TallyOf(Tally(f), Tally(e), j, 1)
  <2> HIDE DEF f
  <2> QED
    BY <1>1, MoreIs
<1>3. QED
  BY <1>1, <1>2

\* A call hands over to another that counts the same.
LEMMA SameTally ==
  ASSUME NEW d \in [Kinds -> Nat], NEW k \in Kinds, NEW j \in Kinds, d[k] > 0,
         \/ k \in Beginning /\ j \in Beginning
         \/ k \in Connecting /\ j \in Connecting
         \/ k \in Aborting /\ j \in Aborting
         \/ k \in Ending /\ j \in Ending
         \/ k \in Marking /\ j \in Marking
  PROVE  Tally([[d EXCEPT ![k] = @ - 1] EXCEPT ![j] = @ + 1]) = Tally(d)
<1> DEFINE f == [d EXCEPT ![k] = @ - 1]
           e == [f EXCEPT ![j] = @ + 1]
           t == Tally(d)
           u == Tally(e)
           v == Tally(f)
<1>1. t \in Tallies /\ u \in Tallies /\ v \in Tallies /\ TallyOf(v, t, k, 1) /\ TallyOf(v, u, j, 1)
  BY PassedOn, TallyIs
<1>2. /\ u.begin = t.begin /\ u.connect = t.connect /\ u.abort = t.abort /\ u.end = t.end
      /\ u.reply = t.reply /\ u.over = t.over /\ u.marker = t.marker
  <2> HIDE DEF f, e, t, u, v
  <2> QED
    BY <1>1 DEF TallyOf
<1>3. u = t
  <2> HIDE DEF f, e, t, u, v
  <2> QED
    BY <1>1, <1>2
<1>4. QED
  BY <1>3

\* The BEGIN event: it connects, or is told to abort.
LEMMA SoundBegun ==
  ASSUME NEW p \in Operations, NEW q \in Operations, NEW d \in [Kinds -> Nat], NEW c \in CtlStates,
         Sound(p, d, c), NEW r \in Operations, NEW e,
         NEW k \in {"begin_cb", "begin_abort"}, d["begin"] > 0,
         \/ k = "begin_cb" /\ p.state = "REQUESTING" /\ r.state = "CONNECTING"
         \/ k = "begin_abort" /\ p.state \in {"REQUESTING", "ABORTING"} /\ r.state = "ABORTING",
         SameRest(p, r), r.ref = p.ref + 1, r.completes = p.completes,
         NEW f, f = [[d EXCEPT !["begin"] = @ - 1] EXCEPT ![k] = @ + 1],
         Dropped(r, q, f, e), Tally(e) = Tally(f)
  PROVE  Sound(q, e, c)
<1> DEFINE t == Tally(d)
           u == Tally(e)
           v == Tally([d EXCEPT !["begin"] = @ - 1])
<1>1. t \in Tallies /\ Fits(p, t, c) /\ k \in Kinds /\ "begin" \in Kinds
  BY TallyIs, KindsAre DEF Sound
<1>2. c # "idle" /\ p.ref > 0
  <2>1. c # "idle"
    BY <1>1 DEF Sound
  <2>2. p.ref > 0
    BY HasReference
  <2>3. QED
    BY <2>1, <2>2
<1>3. /\ f \in [Kinds -> Nat] /\ Tally(f) \in Tallies /\ v \in Tallies
      /\ TallyOf(v, t, "begin", 1) /\ TallyOf(v, Tally(f), k, 1)
  BY <1>1, PassedOn
<1>4. u = Tally(f)
  OBVIOUS
<1>5. /\ u \in Tallies /\ u.abort = t.abort /\ u.end = t.end /\ u.reply = t.reply
      /\ u.over = t.over /\ u.marker = t.marker
      /\ u.begin = (IF k = "begin_cb" THEN t.begin - 1 ELSE t.begin)
      /\ u.connect = (IF k = "begin_cb" THEN t.connect + 1 ELSE t.connect)
  <2> HIDE DEF t, u, v
  <2> QED
    BY <1>1, <1>3, <1>4 DEF TallyOf
<1>6. /\ SameCourse(r, q) /\ q.ref = p.ref /\ q.completes = p.completes
  BY <1>2 DEF Dropped
<1>7. Fits(q, u, c)
  <2> HIDE DEF t, u, v
  <2>1. c \in {"busy", "aborted"}
    BY <1>1, <1>2, UnfinishedIs
  <2>2. u.begin + u.connect = t.begin + t.connect
    BY <1>1, <1>5
  <2>3. QED
    BY <1>1, <1>5, <1>6, <2>1, <2>2, UnansweredIs
<1>8. QED
  BY <1>2, <1>7 DEF Sound

\* The storage module has finished.
LEMMA SoundFinish ==
  ASSUME NEW p \in Operations, NEW q \in Operations, NEW d \in [Kinds -> Nat], NEW c \in CtlStates,
         Sound(p, d, c), c # "idle", NEW e \in [Kinds -> Nat],
         ~p.finished, q.finished, q.live = p.live, q.begun = p.begun,
         q.connectFailed = p.connectFailed, q.replies = p.replies, SameCounts(p, q),
         e = d \/ \E k \in {"end_read", "write_eof", "end"} : e = [d EXCEPT ![k] = @ + 1],
         \/ p.state = "CONNECTED" /\ q.state \in {"FINISH", "FINISH_WITH_ERROR"} /\ q.delayed = p.delayed
         \/ /\ p.state \in {"CONNECT_CB", "CONNECTING"} /\ q.state \in {"FINISH", "FINISH_WITH_ERROR"}
            /\ q.delayed /\ e = d
         \/ p.state \in {"ABORTING", "REQUESTING"} /\ q.state = "FINISH" /\ q.delayed = p.delayed
         \/ p.state = "ABORT_CLOSING" /\ q.state = "FINISH" /\ q.delayed = p.delayed /\ e = d
  PROVE  Sound(q, e, c)
<1> DEFINE t == Tally(d)
           u == Tally(e)
<1>1. t \in Tallies /\ Fits(p, t, c) /\ u \in Tallies
  BY TallyIs DEF Sound
<1>2. /\ u.begin = t.begin /\ u.connect = t.connect /\ u.abort = t.abort
      /\ u.reply = t.reply /\ u.over = t.over /\ u.marker = t.marker
      /\ u.end \in {t.end, t.end + 1} /\ (e = d => u.end = t.end)
  <2>1. CASE e = d
    BY <2>1
  <2>2. CASE \E k \in {"end_read", "write_eof", "end"} : e = [d EXCEPT ![k] = @ + 1]
    <3>1. PICK k \in {"end_read", "write_eof", "end"} : e = [d EXCEPT ![k] = @ + 1]
      BY <2>2
    <3>2. k \in Kinds
      BY KindsAre
    <3>3. TallyOf(t, u, k, 1) /\ e # d
      <4>1. TallyOf(t, u, k, 1)
        BY <3>1, <3>2, MoreIs
      <4>2. e[k] = d[k] + 1 /\ d[k] \in Nat
        BY <3>1, <3>2
      <4>3. QED
        BY <4>1, <4>2
    <3> HIDE DEF t, u
    <3>4. QED
      BY <1>1, <3>3 DEF TallyOf
  <2>3. QED
    BY <2>1, <2>2
<1>3. Fits(q, u, c)
  <2> HIDE DEF t, u
  <2>1. c \in {"busy", "aborted"}
    BY <1>1, UnfinishedIs
  <2>2. /\ p.replies = 0 /\ t.over = 0 /\ p.completes = 0 /\ t.end = 0 /\ t.reply = 0 /\ ~p.delayed
        /\ Begins(p, t) /\ Aborts(p, t)
    BY <1>1, <2>1, UnansweredIs
  <2>3. Begins(q, u)
    BY <1>1, <1>2, <2>2
  <2>4. Aborts(q, u)
    BY <1>1, <1>2, <2>2
  <2>5. Ends(q, u)
    BY <1>1, <1>2, <2>2
  <2>6. q.state \notin {"COMPLETING", "COMPLETE"} /\ q.state \in Finishing
    OBVIOUS
  <2>7. q.ref = 1 + One(q.begun) + One(q.connectFailed) + u.begin + u.connect + u.abort + u.marker
    BY <1>1, <1>2, <2>1, UnansweredIs
  <2>8. QED
    BY <1>1, <1>2, <2>1, <2>2, <2>3, <2>4, <2>5, <2>6, <2>7, UnansweredIs, SMTT(40)
<1>4. QED
  BY <1>3 DEF Sound

\* The connection fails: the operation is aborted.
LEMMA SoundConnectFails ==
  ASSUME NEW p \in Operations, NEW q \in Operations, NEW d \in [Kinds -> Nat], NEW c \in CtlStates,
         Sound(p, d, c), NEW k \in {"abort", "abort_fc"}, d["begin_cb"] > 0,
         p.state = "CONNECTING", q.state = "ABORT_CLOSING", q.connectFailed,
         q.live = p.live, q.begun = p.begun, q.finished = p.finished, q.delayed = p.delayed,
         q.replies = p.replies, q.ref = p.ref + 1, q.completes = p.completes
  PROVE  Sound(q, [[d EXCEPT !["begin_cb"] = @ - 1] EXCEPT ![k] = @ + 1], c)
<1> DEFINE e == [[d EXCEPT !["begin_cb"] = @ - 1] EXCEPT ![k] = @ + 1]
           t == Tally(d)
           u == Tally(e)
           v == Tally([d EXCEPT !["begin_cb"] = @ - 1])
<1>1. t \in Tallies /\ Fits(p, t, c) /\ k \in Kinds /\ "begin_cb" \in Kinds
  BY TallyIs, KindsAre DEF Sound
<1>2. c # "idle"
  BY <1>1 DEF Sound
<1>3. /\ u \in Tallies /\ v \in Tallies /\ TallyOf(v, t, "begin_cb", 1) /\ TallyOf(v, u, k, 1)
  BY <1>1, PassedOn
<1>4. /\ u.begin = t.begin /\ u.connect + 1 = t.connect /\ u.abort = t.abort + 1 /\ u.end = t.end
      /\ u.reply = t.reply /\ u.over = t.over /\ u.marker = t.marker
  <2> HIDE DEF e, t, u, v
  <2> QED
    BY <1>1, <1>3 DEF TallyOf
<1>5. Fits(q, u, c)
  <2> HIDE DEF e, t, u, v
  <2>1. c \in {"busy", "aborted"}
    BY <1>1, <1>2, UnfinishedIs
  <2>2. /\ Begins(p, t) /\ Aborts(p, t) /\ Ends(p, t) /\ (p.finished <=> p.state \in Finishing)
        /\ p.replies = 0 /\ t.over = 0 /\ p.completes = 0
        /\ p.ref = 1 + One(p.begun) + One(p.connectFailed) + t.begin + t.connect + t.abort + t.marker
    <3> HIDE DEF One, Begins, Aborts, Ends, Stage, Finishing, Operations, Tallies, CtlStates
    <3> QED
      BY <1>1, <2>1, UnansweredIs
  <2>3. ~p.finished /\ t.abort = 0
    BY <1>1, <2>2
  <2>4. ~p.delayed /\ t.end = 0 /\ t.reply = 0
    BY <1>1, <2>2, <2>3
  <2>5. t.begin = 0 /\ t.connect = 1 /\ p.begun /\ ~p.connectFailed
    <3>1. t.connect > 0 /\ t.connect \in Nat /\ t.begin \in Nat
      BY <1>1, <1>3, <1>4
    <3>2. p.begun /\ ~p.connectFailed /\ t.begin + t.connect <= 1
      BY <2>2, <3>1
    <3>3. QED
      BY <3>1, <3>2
  <2>6. q.ref = 1 + One(q.begun) + One(q.connectFailed) + u.begin + u.connect + u.abort + u.marker
    <3>1. p.ref = 3 + t.marker
      BY <1>1, <2>2, <2>3, <2>5
    <3>2. One(q.begun) = 1 /\ One(q.connectFailed) = 1 /\ u.begin = 0 /\ u.connect = 0
          /\ u.abort = 1 /\ u.marker = t.marker /\ t.marker \in Nat
      BY <1>1, <1>3, <1>4, <2>3, <2>5
    <3>3. QED
      BY <3>1, <3>2
  <2>7. Begins(q, u) /\ Aborts(q, u) /\ Ends(q, u)
    BY <1>3, <1>4, <2>2, <2>3, <2>4, <2>5
  <2>8. /\ q.state \notin {"COMPLETING", "COMPLETE"} /\ (q.finished <=> q.state \in Finishing)
        /\ q.replies = 0 /\ u.over = 0 /\ q.completes = 0
    BY <1>4, <2>2, <2>3
  <2>9. QED
    <3> HIDE DEF One, Begins, Aborts, Ends, Stage, Finishing, Operations, Tallies, CtlStates
    <3> QED
      BY <1>3, <2>1, <2>6, <2>7, <2>8, UnansweredIs
<1>6. QED
  BY <1>2, <1>5 DEF Sound

\* The connection is there, or is not looked at any more.
LEMMA SoundConnects ==
  ASSUME NEW p \in Operations, NEW q \in Operations, NEW d \in [Kinds -> Nat], NEW c \in CtlStates,
         Sound(p, d, c), d["begin_cb"] > 0, SameRest(p, q), SameCounts(p, q),
         \/ q.state = p.state
         \/ p.state = "CONNECTING" /\ q.state = "CONNECT_CB"
         \/ p.state = "COMPLETING" /\ q.state = "COMPLETE"
  PROVE  Sound(q, [[d EXCEPT !["begin_cb"] = @ - 1] EXCEPT !["begin_cb2"] = @ + 1], c)
<1> DEFINE e == [[d EXCEPT !["begin_cb"] = @ - 1] EXCEPT !["begin_cb2"] = @ + 1]
           t == Tally(d)
<1>1. t \in Tallies /\ Fits(p, t, c) /\ "begin_cb" \in Kinds /\ "begin_cb2" \in Kinds
  BY TallyIs, KindsAre DEF Sound
<1>2. c # "idle"
  BY <1>1 DEF Sound
<1>3. Tally(e) = t
  BY <1>1, SameTally
<1>4. Fits(q, t, c)
  <2> HIDE DEF t
  <2>1. Stage(q, c)
    BY <1>1, <1>2 DEF Fits
  <2>2. Begins(q, t) /\ Aborts(q, t) /\ Ends(q, t)
    BY <1>1 DEF Fits
  <2>3. (RequestHolds(q, t, c) <=> RequestHolds(p, t, c)) /\ (ControlHolds(q, t, c) <=> ControlHolds(p, t, c))
    OBVIOUS
  <2>4. Counted(q, t, c)
    <3> HIDE DEF RequestHolds, ControlHolds, Begins, Aborts, Ends, Stage
    <3> QED
      BY <1>1, <2>3 DEF Fits
  <2>5. QED
    BY <2>1, <2>2, <2>4 DEF Fits
<1>5. QED
  <2> HIDE DEF e, t
  <2>1. Fits(q, Tally(e), c)
    BY <1>3, <1>4
  <2>2. Sound(q, e, c)
    BY <1>2, <2>1 DEF Sound
  <2>3. QED
    BY <2>2 DEF e

\* A call hands over to another that counts the same.
LEMMA SoundPassed ==
  ASSUME NEW p \in Operations, NEW q \in Operations, NEW d \in [Kinds -> Nat], NEW c \in CtlStates,
         Sound(p, d, c), NEW k \in Kinds, NEW j \in Kinds, d[k] > 0,
         \/ k \in Aborting /\ j \in Aborting
         \/ k \in Ending /\ j \in Ending
         \/ k \in Marking /\ j \in Marking,
         SameCourse(p, q), SameCounts(p, q)
  PROVE  Sound(q, [[d EXCEPT ![k] = @ - 1] EXCEPT ![j] = @ + 1], c)
<1> DEFINE e == [[d EXCEPT ![k] = @ - 1] EXCEPT ![j] = @ + 1]
<1>1. Tally(d) \in Tallies /\ Fits(p, Tally(d), c)
  BY TallyIs DEF Sound
<1>2. c # "idle"
  BY DEF Sound
<1>3. Tally(e) = Tally(d)
  BY SameTally
<1>4. Fits(q, Tally(e), c)
  <2> HIDE DEF e
  <2> QED
    BY <1>1, <1>3, SameFits
<1>5. QED
  BY <1>2, <1>4 DEF Sound

\* The callback leaves the end to another.
LEMMA SoundEndLeft ==
  ASSUME NEW p \in Operations, NEW d \in [Kinds -> Nat], NEW c \in CtlStates,
         Sound(p, d, c), NEW k \in {"end_read", "write_eof"}, d[k] > 0
  PROVE  Sound(p, [d EXCEPT ![k] = @ - 1], c)
<1> DEFINE e == [d EXCEPT ![k] = @ - 1]
           t == Tally(d)
           u == Tally(e)
<1>1. t \in Tallies /\ Fits(p, t, c) /\ k \in Kinds
  BY TallyIs, KindsAre DEF Sound
<1>2. c # "idle"
  BY <1>1 DEF Sound
<1>3. u \in Tallies /\ TallyOf(u, t, k, 1)
  BY <1>1, LessIs
<1>4. Fits(p, u, c)
  <2> HIDE DEF e, t, u
  <2>1. /\ u.begin = t.begin /\ u.connect = t.connect /\ u.abort = t.abort /\ u.end + 1 = t.end
        /\ u.reply = t.reply /\ u.over = t.over /\ u.marker = t.marker
    BY <1>1, <1>3 DEF TallyOf
  <2>2. Ends(p, u)
    BY <1>1, <1>3, <2>1 DEF Fits
  <2>3. QED
    BY <1>1, <1>3, <2>1, <2>2, FitsEnd
<1>5. QED
  BY <1>2, <1>4 DEF Sound

\* Nothing is left of the operation.
LEMMA SoundPost ==
  ASSUME NEW p \in Operations, NEW q \in Operations, NEW d \in [Kinds -> Nat], NEW c \in CtlStates,
         Sound(p, d, c), d["post"] > 0, ~q.live,
         q.state = p.state, q.begun = p.begun, q.finished = p.finished, q.delayed = p.delayed,
         q.connectFailed = p.connectFailed, q.replies = p.replies, SameCounts(p, q)
  PROVE  Sound(q, [d EXCEPT !["post"] = @ - 1], c)
<1> DEFINE e == [d EXCEPT !["post"] = @ - 1]
           t == Tally(d)
<1>1. t \in Tallies /\ Fits(p, t, c) /\ "post" \in Kinds
  BY TallyIs, KindsAre DEF Sound
<1>2. c # "idle"
  BY <1>1 DEF Sound
<1>3. Tally(e) = t
  BY KindsAre DEF Tally
<1>4. Fits(q, t, c)
  <2> HIDE DEF t
  <2>1. Stage(q, c)
    BY <1>1, <1>2 DEF Fits
  <2>2. Begins(q, t) /\ Aborts(q, t) /\ Ends(q, t)
    BY <1>1 DEF Fits
  <2>3. (RequestHolds(q, t, c) <=> RequestHolds(p, t, c)) /\ (ControlHolds(q, t, c) <=> ControlHolds(p, t, c))
    OBVIOUS
  <2>4. Counted(q, t, c)
    <3> HIDE DEF RequestHolds, ControlHolds, Begins, Aborts, Ends, Stage
    <3> QED
      BY <1>1, <2>3 DEF Fits
  <2>5. QED
    BY <2>1, <2>2, <2>4 DEF Fits
<1>5. QED
  <2> HIDE DEF e, t
  <2>1. Fits(q, Tally(e), c)
    BY <1>3, <1>4
  <2>2. Sound(q, e, c)
    BY <1>2, <2>1 DEF Sound
  <2>3. QED
    BY <2>2 DEF e

\* The CONNECTED event was given, or the abort is through: the reference is
\* given back, and an end that waited for it is on its way.
LEMMA SoundEnds ==
  ASSUME NEW p \in Operations, NEW q \in Operations, NEW d \in [Kinds -> Nat], NEW c \in CtlStates,
         Sound(p, d, c), NEW r \in Operations, NEW e, NEW g,
         NEW k \in {"begin_cb2", "abort", "abort_now"}, d[k] > 0,
         SameRest(p, r), SameCounts(p, r), Dropped(r, q, [d EXCEPT ![k] = @ - 1], g),
         \/ r.state = p.state
         \/ p.state = "CONNECT_CB" /\ r.state = "CONNECTED"
         \/ p.state = "ABORT_CLOSING" /\ r.state = "ABORTING" /\ k # "begin_cb2",
         \/ e = g
         \/ /\ IF k = "begin_cb2" THEN p.delayed ELSE p.state = "FINISH"
            /\ \E j \in {"end_read", "write_eof", "end", "end_now"} : e = [g EXCEPT ![j] = @ + 1]
  PROVE  Sound(q, e, c)
<1> DEFINE t == Tally(d)
           f == [d EXCEPT ![k] = @ - 1]
           v == Tally(g)
           u == Tally(e)
<1>1. t \in Tallies /\ Fits(p, t, c) /\ k \in Kinds
  BY TallyIs, KindsAre DEF Sound
<1>2. c # "idle"
  BY <1>1 DEF Sound
<1>3. f \in [Kinds -> Nat] /\ Tally(f) \in Tallies /\ TallyOf(Tally(f), t, k, 1)
  BY <1>1, LessIs
<1>4. g \in [Kinds -> Nat] /\ v = Tally(f)
  <2>1. Dropped(r, q, f, g) /\ f \in [Kinds -> Nat]
    BY <1>3
  <2> HIDE DEF f, t, Dropped, Tallies, Operations, CtlStates, Sound, SameRest, Kinds
  <2>2. g \in [Kinds -> Nat] /\ Tally(g) = Tally(f)
    BY <2>1, DroppedIs
  <2>3. QED
    BY <2>2
<1>5. /\ v \in Tallies /\ v.begin = t.begin /\ v.end = t.end /\ v.reply = t.reply
      /\ v.over = t.over /\ v.marker = t.marker
      /\ v.connect = t.connect - One(k = "begin_cb2") /\ v.abort = t.abort - One(k # "begin_cb2")
  <2> HIDE DEF f, t, v
  <2> QED
    BY <1>1, <1>3, <1>4 DEF TallyOf
<1>6. Fits(q, v, c)
  <2>1. /\ SameRest(p, q) /\ q.state = r.state /\ q.ref = p.ref - 1
        /\ q.completes = p.completes + One(p.ref = 1 /\ p.begun)
    BY DEF Dropped
  <2> HIDE DEF f, t, v
  <2>2. p.state = "ABORT_CLOSING" /\ q.state = "ABORTING" => v.abort = 0
    <3>1. Aborts(p, t)
      BY <1>1 DEF Fits
    <3>2. QED
      BY <1>1, <1>5, <2>1, <3>1
  <2>3. /\ v.begin <= t.begin /\ v.connect <= t.connect /\ v.abort <= t.abort /\ v.marker <= t.marker
        /\ v.reply <= t.reply /\ v.over <= t.over /\ v.end = t.end
        /\ v.begin + v.connect + v.abort + v.marker + v.reply + v.over + 1 =
             t.begin + t.connect + t.abort + t.marker + t.reply + t.over
    BY <1>1, <1>5
  <2>4. \/ q.state = p.state
        \/ p.state = "CONNECT_CB" /\ q.state = "CONNECTED"
        \/ p.state = "ABORT_CLOSING" /\ q.state = "ABORTING" /\ v.abort = 0
    BY <2>1, <2>2
  <2>5. QED
    <3> HIDE DEF Operations, Tallies, CtlStates, One
    <3> QED
      BY <1>1, <1>2, <1>5, <2>1, <2>3, <2>4, FitsDrop
<1>7. CASE e = g
  BY <1>2, <1>6, <1>7 DEF Sound
<1>8. ASSUME IF k = "begin_cb2" THEN p.delayed ELSE p.state = "FINISH",
             NEW j \in {"end_read", "write_eof", "end", "end_now"}, e = [g EXCEPT ![j] = @ + 1]
      PROVE  Sound(q, e, c)
  <2>1. j \in Kinds
    BY KindsAre
  <2>2. u \in Tallies /\ TallyOf(v, u, j, 1)
    BY <1>4, <1>8, <2>1, MoreIs
  <2>3. Fits(q, u, c)
    <3>1. SameRest(p, q) /\ q.state = r.state
      BY DEF Dropped
    <3> HIDE DEF f, t, v, u
    <3>2. /\ u.begin = v.begin /\ u.connect = v.connect /\ u.abort = v.abort /\ u.end = v.end + 1
          /\ u.reply = v.reply /\ u.over = v.over /\ u.marker = v.marker
      BY <1>5, <2>2 DEF TallyOf
    <3>3. Ends(p, t) /\ Ends(q, v) /\ Begins(p, t) /\ Aborts(p, t) /\ (p.finished <=> p.state \in Finishing)
      BY <1>1, <1>6 DEF Fits
    <3>4. p.finished /\ q.finished /\ q.delayed = p.delayed /\ (q.state = "FINISH" <=> p.state = "FINISH")
      BY <1>8, <3>1, <3>3
    <3>5. Ends(q, u)
      BY <1>1, <1>5, <1>8, <2>2, <3>1, <3>2, <3>3, <3>4
    <3>6. QED
      BY <1>5, <1>6, <2>2, <3>2, <3>5, FitsEnd
  <2>4. QED
    BY <1>2, <2>3 DEF Sound
<1>9. QED
  BY <1>7, <1>8

\* The request is answered.
LEMMA SoundReply ==
  ASSUME NEW p \in Operations, NEW q \in Operations, NEW d \in [Kinds -> Nat], NEW c \in CtlStates,
         Sound(p, d, c), NEW k \in {"end", "end_now"}, d[k] > 0,
         q.replies = p.replies + 1, q.state = p.state, q.live = p.live, q.begun = p.begun,
         q.finished = p.finished, q.delayed = p.delayed, q.connectFailed = p.connectFailed,
         SameCounts(p, q)
  PROVE  /\ Sound(q, [[d EXCEPT ![k] = @ - 1] EXCEPT !["end2"] = @ + 1],
                  IF p.begun THEN "replied" ELSE "ended")
         /\ c \in {"busy", "aborted"}
<1> DEFINE e == [[d EXCEPT ![k] = @ - 1] EXCEPT !["end2"] = @ + 1]
           t == Tally(d)
           u == Tally(e)
           v == Tally([d EXCEPT ![k] = @ - 1])
<1>1. t \in Tallies /\ Fits(p, t, c) /\ k \in Kinds /\ "end2" \in Kinds
  BY TallyIs, KindsAre DEF Sound
<1>2. c # "idle"
  BY <1>1 DEF Sound
<1>3. /\ u \in Tallies /\ v \in Tallies /\ TallyOf(v, t, k, 1) /\ TallyOf(v, u, "end2", 1)
  BY <1>1, PassedOn
<1>4. /\ u.begin = t.begin /\ u.connect = t.connect /\ u.abort = t.abort /\ u.end + 1 = t.end
      /\ u.reply = t.reply + 1 /\ u.over = t.over /\ u.marker = t.marker
  <2> HIDE DEF e, t, u, v
  <2> QED
    BY <1>1, <1>3 DEF TallyOf
<1>5. c \in {"busy", "aborted"}
  <2> HIDE DEF e, t, u, v
  <2>1. Ends(p, t) /\ p.replies \in 0..1
    BY <1>1 DEF Fits
  <2>2. p.replies = 0
    BY <1>1, <1>3, <1>4, <2>1
  <2>3. QED
    BY <1>1, <1>2, <2>2, UnfinishedIs
<1>6. Fits(q, u, IF p.begun THEN "replied" ELSE "ended")
  <2> HIDE DEF e, t, u, v
  <2>1. /\ Begins(p, t) /\ Aborts(p, t) /\ Ends(p, t) /\ (p.finished <=> p.state \in Finishing)
        /\ p.replies = 0 /\ t.over = 0 /\ p.completes = 0 /\ p.state \notin {"COMPLETING", "COMPLETE"}
        /\ p.ref = 1 + One(p.begun) + One(p.connectFailed) + t.begin + t.connect + t.abort + t.marker
    <3> HIDE DEF One, Begins, Aborts, Ends, Stage, Finishing, Operations, Tallies, CtlStates
    <3> QED
      BY <1>1, <1>5, UnansweredIs
  <2>2. p.finished /\ t.end = 1 /\ t.reply = 0
    BY <1>1, <1>3, <1>4, <2>1
  <2>3. Begins(q, u) /\ Aborts(q, u)
    BY <1>4, <2>1
  <2>4. Ends(q, u)
    BY <1>1, <1>3, <1>4, <2>1, <2>2
  <2>5. u.reply = 1 /\ u.over = 0 /\ q.replies = 1 /\ q.completes = 0 /\ q.finished
        /\ q.state \in {"FINISH", "FINISH_WITH_ERROR"}
    BY <1>4, <2>1, <2>2
  <2>6. CASE p.begun
    <3>1. q.ref = 1 + One(u.reply > 0) + One(q.connectFailed) + u.begin + u.connect + u.abort + u.marker
      BY <1>1, <1>4, <2>1, <2>5, <2>6
    <3> HIDE DEF Begins, Aborts, Ends, Stage, Operations, Tallies, CtlStates
    <3>2. QED
      BY <1>3, <2>3, <2>4, <2>5, <2>6, <3>1, AnsweredIs
  <2>7. CASE ~p.begun
    <3>1. q.ref = One(u.reply > 0) + u.over + One(q.connectFailed) + u.begin + u.connect + u.abort + u.marker
      BY <1>1, <1>4, <2>1, <2>5, <2>7
    <3>2. q.state \in Finishing /\ u.over <= One(q.begun) /\ q.completes \in 0..1 /\ q.completes # 1
      BY <2>5
    <3> HIDE DEF Begins, Aborts, Ends, Stage, Operations, Tallies, CtlStates, Finishing
    <3>3. QED
      BY <1>3, <2>3, <2>4, <2>5, <2>7, <3>1, <3>2, EndedIs
  <2>8. QED
    BY <2>6, <2>7
<1>7. Sound(q, e, IF p.begun THEN "replied" ELSE "ended")
  BY <1>6 DEF Sound
<1>8. QED
  BY <1>5, <1>7

HIDE DEF Stage, Begins, Aborts, Ends, Counted, RequestHolds, ControlHolds, Finishing, Tallies,
         Beginning, Connecting, Aborting, Ending, Marking

-----------------------------------------------------------------------------
(* A step moves one operation, or none.                                     *)

\* The rest of what the invariant speaks of: the control half.
CtlTyped == /\ ctl \in [Ops -> CtlStates]
            /\ object \in {"ready", "inuse", "destroy_wait", "destroying", "gone", "stopped"}

\* The blocks hold what their types say.
LEMMA DataIs ==
  ASSUME IInv
  PROVE  /\ Data \in Blocks /\ Data.op = op /\ Data.handle = handle /\ Data.session = session
         /\ Data.channel = channel /\ Data.due = due
         /\ op \in [Ops -> Operations] /\ due \in [Ops -> [Kinds -> Nat]]
         /\ handle \in Handles /\ session \in Sessions
         /\ ctl \in [Ops -> CtlStates]
<1>1. Data \in Blocks /\ ctl \in [Ops -> CtlStates]
  BY DEF IInv, Typed
<1>2. /\ Data.op = op /\ Data.handle = handle /\ Data.session = session
      /\ Data.channel = channel /\ Data.due = due
  BY DEF Data
<1>3. /\ op \in [Ops -> Operations] /\ due \in [Ops -> [Kinds -> Nat]]
      /\ handle \in Handles /\ session \in Sessions
  BY <1>1, <1>2 DEF Blocks
<1>4. QED
  BY <1>1, <1>2, <1>3

\* What a locked region leaves has the types and the balance of the record it computed.
LEMMA BecomesIs ==
  ASSUME NEW t \in Blocks, Becomes(t)
  PROVE  (Data \in Blocks)' /\ Balance(Data)' = Balance(t)
<1>1. /\ t.op \in [Ops -> Operations] /\ t.handle \in Handles /\ t.session \in Sessions
      /\ t.channel \in {"open", "closing", "none"} /\ t.due \in [Ops -> [Kinds -> Nat]]
      /\ t.broken \in BOOLEAN
  BY DEF Blocks
<1>2. (Data \in Blocks)'
  BY <1>1 DEF Becomes, Data, Blocks
<1>3. /\ op' = t.op /\ session' = t.session
  BY DEF Becomes
<1>4. Balance(Data)' = Balance(t)
  BY <1>3 DEF Balance, Data
<1>5. QED
  BY <1>2, <1>4

\* Operation o moves; the control half may think otherwise of it.
LEMMA OneMoves ==
  ASSUME IInv, NEW o \in Ops, NEW t, Becomes(t), Moves(o, Data, t),
         CtlTyped', \A q \in Ops \ {o} : ctl'[q] = ctl[q],
         Sound(t.op[o], t.due[o], ctl'[o]), OneAtATime', object = "stopped" <=> object' = "stopped"
  PROVE  IInv'
<1>1. t \in Blocks /\ Balance(t) = Balance(Data)
      /\ \A q \in Ops \ {o} : t.op[q] = op[q] /\ t.due[q] = due[q]
  BY DataIs DEF Moves
<1>2. (Data \in Blocks)' /\ Balance(Data)' = Balance(Data)
  BY <1>1, BecomesIs
<1>3. Typed'
  BY <1>2 DEF Typed, CtlTyped
<1>4. SessionCounted'
  BY <1>2 DEF IInv, SessionCounted
<1>5. \A q \in Ops : Sound(op'[q], due'[q], ctl'[q])
  <2>1. op' = t.op /\ due' = t.due
    BY DEF Becomes
  <2>2. \A q \in Ops : Sound(op[q], due[q], ctl[q])
    BY DEF IInv
  <2>3. QED
    BY <1>1, <2>1, <2>2
<1>6. QED
  BY <1>3, <1>4, <1>5 DEF IInv

\* The control half does not hear of it.
LEMMA OneMovesAlone ==
  ASSUME IInv, NEW o \in Ops, NEW t, Becomes(t), Moves(o, Data, t), UNCHANGED half,
         Sound(t.op[o], t.due[o], ctl[o])
  PROVE  IInv'
<1>1. ctl' = ctl /\ object' = object
  BY DEF half
<1>2. CtlTyped'
  BY <1>1 DEF CtlTyped, IInv, Typed
<1>3. session'.destroyCb = session.destroyCb
  BY DataIs DEF Becomes, Moves
<1>4. OneAtATime'
  BY <1>1, <1>3 DEF OneAtATime, IInv
<1>5. QED
  BY <1>1, <1>2, <1>4, OneMoves

\* No operation moves.
LEMMA NoneMoves ==
  ASSUME IInv, NEW t, Becomes(t), Apart(Data, t), UNCHANGED half
  PROVE  IInv'
<1>1. 1 \in Ops
  OBVIOUS
<1>2. Moves(1, Data, t) /\ t.op = op /\ t.due = due
  BY <1>1, DataIs, Transitive DEF Apart
<1>3. Sound(op[1], due[1], ctl[1])
  BY <1>1 DEF IInv
<1>4. QED
  BY <1>1, <1>2, <1>3, OneMovesAlone

\* What is known of operation o before a step.
LEMMA BlockAt ==
  ASSUME NEW s \in Blocks, NEW o \in Ops
  PROVE  s.op[o] \in Operations /\ s.due[o] \in [Kinds -> Nat]
<1>1. s.op \in [Ops -> Operations] /\ s.due \in [Ops -> [Kinds -> Nat]]
  BY DEF Blocks
<1> HIDE DEF Operations
<1>2. QED
  BY <1>1

\* What the invariant says of one operation.
LEMMA OperationAt ==
  ASSUME IInv, NEW o \in Ops
  PROVE  /\ op[o] \in Operations /\ due[o] \in [Kinds -> Nat] /\ ctl[o] \in CtlStates
         /\ Sound(op[o], due[o], ctl[o])
<1> HIDE DEF Operations, CtlStates
<1>1. QED
  BY DataIs DEF IInv

\* The types of an operation after a step of its own.
LEMMA MovedAt ==
  ASSUME NEW s, NEW t, NEW o \in Ops, Moves(o, s, t)
  PROVE  t \in Blocks /\ t.op[o] \in Operations /\ t.due[o] \in [Kinds -> Nat]
BY BlockAt DEF Moves

\* Giving a reference back, after a change the invariant does not see.
LEMMA DroppedSame ==
  ASSUME NEW p, NEW r, NEW q, NEW d, NEW e, SameCourse(p, r), SameCounts(p, r), Dropped(r, q, d, e)
  PROVE  Dropped(p, q, d, e)
BY DEF Dropped

\* An operation is the same as itself.
LEMMA Reflexive == \A p : SameCourse(p, p) /\ SameCounts(p, p) /\ SameRest(p, p)
OBVIOUS

HIDE DEF One, SameCourse, SameRest, SameCounts, Operations, CtlStates

\* A callback of o is through and another one is to come.
LEMMA PassOn ==
  ASSUME IInv, NEW o \in Ops, NEW k \in Kinds, NEW j \in Kinds, due[o][k] > 0
  PROVE  LET t == Later(Taken(k, o), o, j)
         IN /\ Moves(o, Data, t) /\ t \in Blocks /\ t.op = op
            /\ t.due[o] = [[due[o] EXCEPT ![k] = @ - 1] EXCEPT ![j] = @ + 1]
            /\ t.session = session /\ t.handle = handle /\ t.channel = channel
<1> DEFINE s == Taken(k, o)
           t == Later(s, o, j)
<1>1. /\ Moves(o, Data, s) /\ s.op = op /\ s.due[o] = [due[o] EXCEPT ![k] = @ - 1]
      /\ s.session = session /\ s.handle = handle /\ s.channel = channel
  BY TakenIs DEF IInv
<1> HIDE DEF s
<1>2. s \in Blocks
  BY <1>1, MovedAt
<1>3. /\ Moves(o, s, t) /\ t.op = s.op /\ t.due[o] = [s.due[o] EXCEPT ![j] = @ + 1]
      /\ t.session = s.session /\ t.handle = s.handle /\ t.channel = s.channel
  BY <1>2, LaterIs
<1> HIDE DEF t
<1>4. Moves(o, Data, t) /\ t \in Blocks
  BY <1>1, <1>3, Transitive, MovedAt
<1>5. QED
  <2>1. /\ Moves(o, Data, t) /\ t \in Blocks /\ t.op = op
        /\ t.due[o] = [[due[o] EXCEPT ![k] = @ - 1] EXCEPT ![j] = @ + 1]
        /\ t.session = session /\ t.handle = handle /\ t.channel = channel
    BY <1>1, <1>3, <1>4
  <2>2. QED
    BY <2>1 DEF s, t

\* Running a callback moves only its operation.
LEMMA TakenMoves ==
  ASSUME IInv, NEW o \in Ops, NEW k \in Kinds, due[o][k] > 0
  PROVE  LET s == Taken(k, o)
         IN /\ Moves(o, Data, s) /\ s \in Blocks /\ s.op = op
            /\ s.due[o] = [due[o] EXCEPT ![k] = @ - 1]
            /\ s.session = session /\ s.handle = handle /\ s.channel = channel
<1> DEFINE s == Taken(k, o)
<1>1. /\ Moves(o, Data, s) /\ s.op = op /\ s.due[o] = [due[o] EXCEPT ![k] = @ - 1]
      /\ s.session = session /\ s.handle = handle /\ s.channel = channel
  BY TakenIs DEF IInv
<1> HIDE DEF s
<1>2. s \in Blocks
  BY <1>1, MovedAt
<1>3. QED
  BY <1>1, <1>2 DEF s

\* The last step of a callback gives its reference back.
LEMMA DropStep ==
  ASSUME IInv, NEW o \in Ops, NEW k \in {"begin", "begin_abort", "trev2", "complete_fc", "end2"},
         due[o][k] > 0, NEW s, Moves(o, Data, s),
         SameCourse(op[o], s.op[o]), SameCounts(op[o], s.op[o]),
         s.due[o] = [due[o] EXCEPT ![k] = @ - 1],
         NEW t, Moves(o, s, t), Dropped(s.op[o], t.op[o], s.due[o], t.due[o]),
         NEW u, Apart(t, u), Becomes(u), UNCHANGED half
  PROVE  IInv'
<1>1. Moves(o, Data, t) /\ Moves(o, Data, u) /\ u.op = t.op /\ u.due = t.due
  BY Transitive DEF Apart
<1>2. t.op[o] \in Operations
  BY <1>1, MovedAt
<1>3. Dropped(op[o], t.op[o], [due[o] EXCEPT ![k] = @ - 1], t.due[o])
  BY DroppedSame
<1>4. Sound(t.op[o], t.due[o], ctl[o])
  BY <1>2, <1>3, OperationAt, SoundDrop
<1>5. QED
  BY <1>1, <1>4, OneMovesAlone

-----------------------------------------------------------------------------
(* One lemma for each step.                                                 *)

\* Who is on the way to an operation has a reference to it.
LEMMA ReferenceOf ==
  ASSUME IInv, NEW o \in Ops
  PROVE  /\ \A k \in Kinds : due[o][k] > 0 => ctl[o] # "idle"
         /\ \A k \in {"begin", "begin_abort", "begin_cb", "begin_cb2", "abort", "abort_fc", "abort_now",
                      "trev", "trev2", "end2", "complete_fc"} : due[o][k] > 0 => op[o].ref > 0
         /\ op[o].state \in {"CONNECTING", "CONNECT_CB", "CONNECTED"} => ctl[o] # "idle" /\ op[o].ref > 0
         /\ ctl[o] # "idle" /\ ~op[o].finished => op[o].ref > 0
         /\ ctl[o] = "replied" => op[o].ref > 0 /\ op[o].state \in {"FINISH", "FINISH_WITH_ERROR"}
         /\ op[o].live => ctl[o] # "idle"
BY OperationAt, HasReference DEF Beginning, Connecting, Aborting, Marking

\* TrevKickout keeps the invariant.
LEMMA TrevKickoutKeeps ==
  ASSUME IInv, NEW o \in Ops, TrevKickout(o)
  PROVE  IInv'
<1> DEFINE s == Later(Taken("trev", o), o, "trev2")
           t == Must(s, op[o].state \in {"CONNECTING", "CONNECTED", "ABORTING", "ABORT_CLOSING",
                                         "FINISH", "FINISH_WITH_ERROR"})
<1>1. due[o]["trev"] > 0 /\ Becomes(t) /\ UNCHANGED half
  BY DEF TrevKickout
<1>2. "trev" \in Kinds /\ "trev2" \in Kinds /\ "trev" \in Marking /\ "trev2" \in Marking
  BY KindsAre DEF Marking
<1>3. /\ Moves(o, Data, s) /\ s \in Blocks /\ s.op = op
      /\ s.due[o] = [[due[o] EXCEPT !["trev"] = @ - 1] EXCEPT !["trev2"] = @ + 1]
  BY <1>1, <1>2, PassOn
<1> HIDE DEF s
<1>4. Apart(s, t)
  BY <1>3, MustIs
<1> HIDE DEF t
<1>5. Moves(o, Data, t) /\ t.op = op /\ t.due[o] = s.due[o]
  BY <1>3, <1>4, Transitive DEF Apart
<1>6. Sound(op[o], s.due[o], ctl[o])
  BY <1>1, <1>2, <1>3, OperationAt, SoundPassed, Reflexive
<1>7. QED
  BY <1>1, <1>5, <1>6, OneMovesAlone

\* TrevKickoutEnds keeps the invariant.
LEMMA TrevKickoutEndsKeeps ==
  ASSUME IInv, NEW o \in Ops, TrevKickoutEnds(o)
  PROVE  IInv'
<1> DEFINE s == Taken("trev2", o)
           t == Release(s, o)
<1>1. due[o]["trev2"] > 0 /\ Becomes(t) /\ UNCHANGED half
  BY DEF TrevKickoutEnds
<1>2. "trev2" \in Kinds
  BY KindsAre
<1>3. /\ Moves(o, Data, s) /\ s \in Blocks /\ s.op = op
      /\ s.due[o] = [due[o] EXCEPT !["trev2"] = @ - 1]
  BY <1>1, <1>2, TakenMoves
<1> HIDE DEF s
<1>4. s.op[o].ref > 0
  BY <1>1, <1>3, ReferenceOf
<1>5. Moves(o, s, t) /\ Dropped(s.op[o], t.op[o], s.due[o], t.due[o])
  BY <1>3, <1>4, ReleaseIs
<1> HIDE DEF t
<1>6. Apart(t, t)
  BY <1>5, MovedAt DEF Apart
<1>7. QED
  BY <1>1, <1>3, <1>5, <1>6, DropStep, Reflexive

\* Setting the operation of the handle touches no operation.
LEMMA Outstanding ==
  ASSUME NEW s \in Blocks, NEW x \in Ops \cup {None}
  PROVE  Apart(s, [s EXCEPT !.handle.outstanding = x])
<1> DEFINE h == [s.handle EXCEPT !.outstanding = x]
<1>1. h \in Handles
  BY DEF Blocks, Handles
<1>2. [s EXCEPT !.handle.outstanding = x] = [s EXCEPT !.handle = h]
  OBVIOUS
<1>3. QED
  <2> HIDE DEF h
  <2> QED
    BY <1>1, <1>2, SetHandle

\* A step apart leaves an operation as it is.
LEMMA ApartAt ==
  ASSUME NEW s, NEW t, NEW o \in Ops, Apart(s, t)
  PROVE  /\ t \in Blocks /\ Moves(o, s, t) /\ t.op = s.op /\ t.due = s.due
         /\ SameCourse(s.op[o], t.op[o]) /\ SameCounts(s.op[o], t.op[o])
<1>1. t \in Blocks /\ Moves(o, s, t) /\ t.op = s.op /\ t.due = s.due
  BY Transitive DEF Apart
<1>2. QED
  BY <1>1, Reflexive

\* BeginAborted keeps the invariant.
LEMMA BeginAbortedKeeps ==
  ASSUME IInv, NEW o \in Ops, BeginAborted(o)
  PROVE  IInv'
<1> DEFINE s == Taken("begin_abort", o)
           t == Release(s, o)
           u == IF Last(t, o) THEN [t EXCEPT !.handle.outstanding = None] ELSE t
<1>1. due[o]["begin_abort"] > 0 /\ Becomes(u) /\ UNCHANGED half
  BY DEF BeginAborted
<1>2. "begin_abort" \in Kinds
  BY KindsAre
<1>3. /\ Moves(o, Data, s) /\ s \in Blocks /\ s.op = op
      /\ s.due[o] = [due[o] EXCEPT !["begin_abort"] = @ - 1]
  BY <1>1, <1>2, TakenMoves
<1> HIDE DEF s
<1>4. s.op[o].ref > 0
  BY <1>1, <1>3, ReferenceOf
<1>5. Moves(o, s, t) /\ Dropped(s.op[o], t.op[o], s.due[o], t.due[o])
  BY <1>3, <1>4, ReleaseIs
<1> HIDE DEF t
<1>6. Apart(t, u)
  <2>1. Apart(t, t) /\ t \in Blocks
    BY <1>5, MovedAt DEF Apart
  <2>2. QED
    BY <2>1, Outstanding
<1> HIDE DEF u
<1>7. QED
  BY <1>1, <1>3, <1>5, <1>6, DropStep, Reflexive

\* The close callback of the channel is taken, and the handle is put right.
LEMMA ClosedIs ==
  ASSUME IInv, NEW o \in Ops, NEW k \in Kinds, due[o][k] > 0
  PROVE  LET t == ForceCloseReturns(Closed(k, o), o)
         IN /\ Moves(o, Data, t) /\ t \in Blocks
            /\ SameCourse(op[o], t.op[o]) /\ SameCounts(op[o], t.op[o])
            /\ t.due[o] = [due[o] EXCEPT ![k] = @ - 1]
<1> DEFINE r == Taken(k, o)
           s == [r EXCEPT !.channel = "none"]
           t == ForceCloseReturns(s, o)
<1>1. /\ Moves(o, Data, r) /\ r \in Blocks /\ r.op = op
      /\ r.due[o] = [due[o] EXCEPT ![k] = @ - 1]
  BY TakenMoves
<1>2. Closed(k, o) = s
  BY DEF Closed
<1> HIDE DEF r
<1>3. Apart(r, s)
  BY <1>1, SetChannel
<1> HIDE DEF s
<1>4. s \in Blocks /\ Moves(o, Data, s) /\ s.op = op /\ s.due = r.due
  BY <1>1, <1>3, ApartAt, Transitive
<1>5. /\ Moves(o, s, t) /\ t.due = s.due
      /\ SameCourse(op[o], t.op[o]) /\ SameCounts(op[o], t.op[o])
  BY <1>4, ForceCloseReturnsIs
<1> HIDE DEF t
<1>6. Moves(o, Data, t) /\ t \in Blocks /\ t.due[o] = [due[o] EXCEPT ![k] = @ - 1]
  BY <1>1, <1>4, <1>5, Transitive, MovedAt
<1>7. QED
  <2>1. /\ Moves(o, Data, t) /\ t \in Blocks
        /\ SameCourse(op[o], t.op[o]) /\ SameCounts(op[o], t.op[o])
        /\ t.due[o] = [due[o] EXCEPT ![k] = @ - 1]
    BY <1>5, <1>6
  <2>2. QED
    BY <1>2, <2>1 DEF t

\* CompleteFcCb keeps the invariant.
LEMMA CompleteFcCbKeeps ==
  ASSUME IInv, NEW o \in Ops, CompleteFcCb(o)
  PROVE  IInv'
<1> DEFINE s == ForceCloseReturns(Closed("complete_fc", o), o)
           t == Release(s, o)
<1>1. due[o]["complete_fc"] > 0 /\ Becomes(t) /\ UNCHANGED half
  BY DEF CompleteFcCb
<1>2. "complete_fc" \in Kinds
  BY KindsAre
<1>3. /\ Moves(o, Data, s) /\ s \in Blocks
      /\ SameCourse(op[o], s.op[o]) /\ SameCounts(op[o], s.op[o])
      /\ s.due[o] = [due[o] EXCEPT !["complete_fc"] = @ - 1]
  BY <1>1, <1>2, ClosedIs
<1> HIDE DEF s
<1>4. s.op[o].ref > 0
  BY <1>1, <1>3, ReferenceOf DEF SameCounts
<1>5. Moves(o, s, t) /\ Dropped(s.op[o], t.op[o], s.due[o], t.due[o])
  BY <1>3, <1>4, ReleaseIs
<1> HIDE DEF t
<1>6. Apart(t, t)
  BY <1>5, MovedAt DEF Apart
<1>7. QED
  BY <1>1, <1>3, <1>5, <1>6, DropStep

\* One close callback after another thing: the end or the abort goes on.
LEMMA ClosedGoesOn ==
  ASSUME IInv, NEW o \in Ops, NEW k \in Kinds, NEW j \in Kinds, due[o][k] > 0,
         \/ k \in Aborting /\ j \in Aborting
         \/ k \in Ending /\ j \in Ending,
         Becomes(Later(ForceCloseReturns(Closed(k, o), o), o, j)), UNCHANGED half
  PROVE  IInv'
<1> DEFINE s == ForceCloseReturns(Closed(k, o), o)
           t == Later(s, o, j)
<1>1. /\ Moves(o, Data, s) /\ s \in Blocks
      /\ SameCourse(op[o], s.op[o]) /\ SameCounts(op[o], s.op[o])
      /\ s.due[o] = [due[o] EXCEPT ![k] = @ - 1]
  BY ClosedIs
<1>2. Becomes(t)
  OBVIOUS
<1> HIDE DEF s
<1>3. Moves(o, s, t) /\ t.op = s.op /\ t.due[o] = [s.due[o] EXCEPT ![j] = @ + 1]
  <2>1. LET l == Later(s, o, j)
        IN Moves(o, s, l) /\ l.op = s.op /\ l.due[o] = [s.due[o] EXCEPT ![j] = @ + 1]
    <3> HIDE DEF t, SameCourse, SameCounts
    <3>1. s \in Blocks
      BY <1>1
    <3>2. QED
      BY <3>1, LaterIs, ZenonT(60)
  <2>2. QED
    BY <2>1
<1> HIDE DEF t
<1>4. Moves(o, Data, t)
  BY <1>1, <1>3, Transitive
<1>5. t.op[o] \in Operations
  BY <1>4, MovedAt
<1>6. Sound(t.op[o], t.due[o], ctl[o])
  BY <1>1, <1>3, <1>5, OperationAt, SoundPassed
<1>7. QED
  BY <1>2, <1>4, <1>6, OneMovesAlone

\* FinishFcCb keeps the invariant.
LEMMA FinishFcCbKeeps ==
  ASSUME IInv, NEW o \in Ops, FinishFcCb(o)
  PROVE  IInv'
<1>1. "finish_fc" \in Kinds /\ "end_now" \in Kinds /\ "finish_fc" \in Ending /\ "end_now" \in Ending
  BY KindsAre DEF Ending
<1>2. QED
  BY <1>1, ClosedGoesOn DEF FinishFcCb

\* AbortFcCb keeps the invariant.
LEMMA AbortFcCbKeeps ==
  ASSUME IInv, NEW o \in Ops, AbortFcCb(o)
  PROVE  IInv'
<1>1. "abort_fc" \in Kinds /\ "abort_now" \in Kinds /\ "abort_fc" \in Aborting /\ "abort_now" \in Aborting
  BY KindsAre DEF Aborting
<1>2. QED
  BY <1>1, ClosedGoesOn DEF AbortFcCb

\* The end goes on with callback j.
GoesOn(o, s, t, j) ==
  Moves(o, s, t) /\ t.op = s.op /\ t.due[o] = [s.due[o] EXCEPT ![j] = @ + 1]

\* Registering the next callback goes on with the end.
LEMMA LaterGoesOn ==
  ASSUME NEW s \in Blocks, NEW o \in Ops, NEW j \in Kinds, NEW r, Apart(s, r)
  PROVE  GoesOn(o, s, Later(r, o, j), j)
<1>1. r \in Blocks /\ r.op = s.op /\ r.due = s.due
  BY DEF Apart
<1>2. LET l == Later(r, o, j)
      IN Moves(o, r, l) /\ l.op = r.op /\ l.due[o] = [r.due[o] EXCEPT ![j] = @ + 1]
  BY <1>1, LaterIs, ZenonT(60)
<1>3. Moves(o, s, Later(r, o, j))
  BY <1>2, Transitive
<1>4. QED
  BY <1>1, <1>2, <1>3 DEF GoesOn

\* So does closing the channel.
LEMMA ClosingGoesOn ==
  ASSUME NEW s \in Blocks, NEW o \in Ops, NEW j \in Kinds, NEW r, Apart(s, r)
  PROVE  GoesOn(o, s, Closing(r, o, j), j)
<1>1. r \in Blocks /\ r.op = s.op /\ r.due = s.due
  BY DEF Apart
<1>2. LET l == Closing(r, o, j)
      IN Moves(o, r, l) /\ l.op = r.op /\ l.due[o] = [r.due[o] EXCEPT ![j] = @ + 1]
  BY <1>1, ClosingIs, SMTT(60)
<1>3. Moves(o, s, Closing(r, o, j))
  BY <1>2, Transitive
<1>4. QED
  BY <1>1, <1>2, <1>3 DEF GoesOn

\* What comes after it apart from the operations does not matter.
LEMMA GoesOnApart ==
  ASSUME NEW s, NEW o \in Ops, NEW t, NEW u, NEW j, GoesOn(o, s, t, j), Apart(t, u)
  PROVE  GoesOn(o, s, u, j)
BY Transitive DEF GoesOn, Apart

\* The channel is closed, or it is closed already.
LEMMA ClosesOrGone ==
  ASSUME NEW s \in Blocks, NEW o \in Ops
  PROVE  LET closing == [s EXCEPT !.handle.state = "CLOSING"]
             gone == [Later(s, o, "end_now") EXCEPT !.handle.state = "TE_PRE_CLOSED"]
             t == Close(closing, o, "finish_fc", gone)
         IN /\ GoesOn(o, s, gone, "end_now")
            /\ GoesOn(o, s, [gone EXCEPT !.channel = "none"], "end_now")
            /\ GoesOn(o, s, t, "end_now") \/ GoesOn(o, s, t, "finish_fc")
<1> DEFINE closing == [s EXCEPT !.handle.state = "CLOSING"]
           l == Later(s, o, "end_now")
           gone == [l EXCEPT !.handle.state = "TE_PRE_CLOSED"]
           none == [gone EXCEPT !.channel = "none"]
           t == Close(closing, o, "finish_fc", gone)
<1>1. /\ "CLOSING" \in HandleStates /\ "TE_PRE_CLOSED" \in HandleStates
      /\ "end_now" \in Kinds /\ "finish_fc" \in Kinds
  BY KindsAre DEF HandleStates
<1>2. Apart(s, closing) /\ closing \in Blocks
  <2>1. Apart(s, closing)
    BY <1>1, HandleState
  <2>2. QED
    BY <2>1 DEF Apart
<1>3. GoesOn(o, s, l, "end_now") /\ l \in Blocks
  <2>1. Apart(s, s)
    BY DEF Apart
  <2>2. GoesOn(o, s, l, "end_now")
    BY <1>1, <2>1, LaterGoesOn
  <2> HIDE DEF l
  <2>3. QED
    BY <2>2, MovedAt DEF GoesOn
<1>4. GoesOn(o, s, gone, "end_now") /\ gone \in Blocks
  <2> HIDE DEF l
  <2>1. Apart(l, gone)
    BY <1>1, <1>3, HandleState
  <2> HIDE DEF gone
  <2>2. QED
    BY <1>3, <2>1, GoesOnApart DEF Apart
<1>5. GoesOn(o, s, none, "end_now")
  <2> HIDE DEF gone
  <2>1. Apart(gone, none)
    BY <1>4, SetChannel
  <2> HIDE DEF none
  <2>2. QED
    BY <1>4, <2>1, GoesOnApart
<1>6. GoesOn(o, s, Closing(closing, o, "finish_fc"), "finish_fc")
  <2> HIDE DEF closing
  <2> QED
    BY <1>1, <1>2, ClosingGoesOn
<1>7. t \in {Closing(closing, o, "finish_fc"), gone}
  BY DEF Close, Closing
<1>8. QED
  <2> HIDE DEF gone, closing, t, none
  <2>1. /\ GoesOn(o, s, gone, "end_now") /\ GoesOn(o, s, none, "end_now")
        /\ GoesOn(o, s, t, "end_now") \/ GoesOn(o, s, t, "finish_fc")
    BY <1>4, <1>5, <1>6, <1>7
  <2>2. QED
    BY <2>1 DEF gone, closing, t, none, l

\* A callback that ends a transfer and is followed by the next of its kind.
LEMMA EndGoesOn ==
  ASSUME IInv, NEW o \in Ops, NEW k \in Ending, NEW j \in Ending, due[o][k] > 0,
         NEW t, GoesOn(o, Taken(k, o), t, j), Becomes(t), UNCHANGED half
  PROVE  IInv'
<1> DEFINE s == Taken(k, o)
<1>1. k \in Kinds /\ j \in Kinds
  BY KindsAre DEF Ending
<1>2. Moves(o, Data, s) /\ s.op = op /\ s.due[o] = [due[o] EXCEPT ![k] = @ - 1]
  BY <1>1, TakenMoves
<1>3. GoesOn(o, s, t, j)
  OBVIOUS
<1> HIDE DEF s
<1>4. Moves(o, Data, t) /\ t.op = op /\ t.due[o] = [[due[o] EXCEPT ![k] = @ - 1] EXCEPT ![j] = @ + 1]
  BY <1>2, <1>3, Transitive DEF GoesOn
<1>5. Sound(op[o], t.due[o], ctl[o])
  BY <1>1, <1>4, OperationAt, SoundPassed, Reflexive, SMTT(40)
<1>6. QED
  BY <1>4, <1>5, OneMovesAlone

\* A callback that leaves the end to the abort under way.
LEMMA EndLeft ==
  ASSUME IInv, NEW o \in Ops, NEW k \in {"end_read", "write_eof"}, due[o][k] > 0,
         Becomes(Taken(k, o)), UNCHANGED half
  PROVE  IInv'
<1> DEFINE s == Taken(k, o)
<1>1. k \in Kinds
  BY KindsAre
<1>2. Moves(o, Data, s) /\ s.op = op /\ s.due[o] = [due[o] EXCEPT ![k] = @ - 1]
  BY <1>1, TakenMoves
<1>3. Becomes(s)
  OBVIOUS
<1> HIDE DEF s
<1>4. Sound(op[o], s.due[o], ctl[o])
  <2>1. Sound(op[o], [due[o] EXCEPT ![k] = @ - 1], ctl[o])
    BY OperationAt, SoundEndLeft
  <2>2. QED
    BY <1>2, <2>1
<1>5. QED
  BY <1>2, <1>3, <1>4, OneMovesAlone

\* The kinds that end a transfer.
LEMMA EndKinds ==
  /\ Ending \subseteq Kinds
  /\ {"end_now", "finish_fc", "send_eof", "write_eof", "end_read"} \subseteq Ending
BY KindsAre DEF Ending

\* EndReadKickout keeps the invariant.
LEMMA EndReadKickoutKeeps ==
  ASSUME IInv, NEW o \in Ops, EndReadKickout(o)
  PROVE  IInv'
<1> DEFINE s == Taken("end_read", o)
           closing == [s EXCEPT !.handle.state = "CLOSING"]
           gone == [Later(s, o, "end_now") EXCEPT !.handle.state = "TE_PRE_CLOSED"]
           t == Close(closing, o, "finish_fc", gone)
<1>1. due[o]["end_read"] > 0 /\ UNCHANGED half
      /\ (Becomes(s) \/ Becomes(Later(s, o, "end_now")) \/ Becomes(t))
  BY DEF EndReadKickout
<1>2. s \in Blocks /\ Apart(s, s)
  <2>1. s \in Blocks
    BY <1>1, EndKinds, TakenMoves
  <2>2. QED
    BY <2>1 DEF Apart
<1>3. CASE Becomes(s)
  BY <1>1, <1>3, EndLeft
<1>4. CASE Becomes(Later(s, o, "end_now"))
  <2>1. GoesOn(o, s, Later(s, o, "end_now"), "end_now")
    <3> HIDE DEF s
    <3> QED
      BY <1>2, EndKinds, LaterGoesOn
  <2>2. QED
    BY <1>1, <1>4, <2>1, EndKinds, EndGoesOn
<1>5. CASE Becomes(t)
  <2>1. GoesOn(o, s, t, "end_now") \/ GoesOn(o, s, t, "finish_fc")
    <3> HIDE DEF s
    <3> QED
      BY <1>2, ClosesOrGone
  <2> HIDE DEF t
  <2>2. QED
    BY <1>1, <1>5, <2>1, EndKinds, EndGoesOn
<1>6. QED
  BY <1>1, <1>3, <1>4, <1>5

\* SendEofCb keeps the invariant.
LEMMA SendEofCbKeeps ==
  ASSUME IInv, NEW o \in Ops, SendEofCb(o)
  PROVE  IInv'
<1> DEFINE s == Taken("send_eof", o)
           r == IF channel = "open" THEN s ELSE CallbackError(s)
           t == Later(r, o, "end_now")
<1>1. due[o]["send_eof"] > 0 /\ UNCHANGED half /\ Becomes(t)
  BY DEF SendEofCb
<1>2. s \in Blocks
  BY <1>1, EndKinds, TakenMoves
<1>3. Apart(s, r)
  <2> HIDE DEF s
  <2>1. Apart(s, s)
    BY <1>2 DEF Apart
  <2>2. QED
    BY <1>2, <2>1, CallbackErrorIs
<1>4. GoesOn(o, s, t, "end_now")
  <2> HIDE DEF s, r
  <2> QED
    BY <1>2, <1>3, EndKinds, LaterGoesOn
<1> HIDE DEF t
<1>5. QED
  BY <1>1, <1>4, EndKinds, EndGoesOn

\* WriteEofCb keeps the invariant.
LEMMA WriteEofCbKeeps ==
  ASSUME IInv, NEW o \in Ops, WriteEofCb(o)
  PROVE  IInv'
<1> DEFINE s == Taken("write_eof", o)
           closing == [s EXCEPT !.handle.state = "CLOSING"]
           gone == [Later(s, o, "end_now") EXCEPT !.handle.state = "TE_PRE_CLOSED"]
           none == [gone EXCEPT !.channel = "none"]
           t == Close(closing, o, "finish_fc", gone)
           w == Later(CallbackError(s), o, "end_now")
           v == Later(s, o, "send_eof")
<1>1. due[o]["write_eof"] > 0 /\ UNCHANGED half
      /\ (Becomes(w) \/ Becomes(s) \/ Becomes(v) \/ Becomes(t) \/ Becomes(none))
  BY DEF WriteEofCb
<1>2. s \in Blocks /\ Apart(s, s)
  <2>1. s \in Blocks
    BY <1>1, EndKinds, TakenMoves
  <2>2. QED
    BY <2>1 DEF Apart
<1>3. Apart(s, CallbackError(s))
  <2> HIDE DEF s
  <2> QED
    BY <1>2, CallbackErrorIs
<1>4. /\ GoesOn(o, s, w, "end_now") /\ GoesOn(o, s, v, "send_eof") /\ GoesOn(o, s, none, "end_now")
      /\ GoesOn(o, s, t, "end_now") \/ GoesOn(o, s, t, "finish_fc")
  <2> HIDE DEF s
  <2>1. GoesOn(o, s, w, "end_now")
    BY <1>2, <1>3, EndKinds, LaterGoesOn
  <2>2. GoesOn(o, s, v, "send_eof")
    BY <1>2, EndKinds, LaterGoesOn
  <2>3. GoesOn(o, s, none, "end_now") /\ (GoesOn(o, s, t, "end_now") \/ GoesOn(o, s, t, "finish_fc"))
    BY <1>2, ClosesOrGone
  <2>4. QED
    BY <2>1, <2>2, <2>3
<1>5. CASE Becomes(s)
  BY <1>1, <1>5, EndLeft
<1>6. CASE ~Becomes(s)
  <2> HIDE DEF t, none, v, w
  <2> QED
    BY <1>1, <1>4, <1>6, EndKinds, EndGoesOn
<1>7. QED
  BY <1>5, <1>6

\* That the handle is to be freed later does not matter to the invariant.
LEMMA FreeHandleLater ==
  ASSUME NEW s \in Blocks, NEW o \in Ops
  PROVE  LET t == [s EXCEPT !.op[o].freeHandle = TRUE]
         IN /\ Moves(o, s, t) /\ t.due = s.due
            /\ SameCourse(s.op[o], t.op[o]) /\ SameCounts(s.op[o], t.op[o])
<1> DEFINE p == [s.op[o] EXCEPT !.freeHandle = TRUE]
<1>1. p \in Operations /\ SameCourse(s.op[o], p) /\ SameCounts(s.op[o], p)
      /\ (p.ref > 0 <=> s.op[o].ref > 0)
  BY BlockAt, ZenonT(60) DEF Operations, SameCourse, SameRest, SameCounts
<1>2. [s EXCEPT !.op[o].freeHandle = TRUE] = [s EXCEPT !.op[o] = p]
  OBVIOUS
<1>3. QED
  <2> HIDE DEF p
  <2>1. LET t == [s EXCEPT !.op[o] = p]
        IN Moves(o, s, t) /\ t.due = s.due /\ t.op[o] = p
    BY <1>1, SetOp
  <2>2. QED
    BY <1>1, <1>2, <2>1

\* EndTransferEnds keeps the invariant.
LEMMA EndTransferEndsKeeps ==
  ASSUME IInv, NEW o \in Ops, EndTransferEnds(o)
  PROVE  IInv'
<1> DEFINE r == Taken("end2", o)
           h == CASE r.handle.state = "TE_PRE_CLOSED" -> "CLOSING"
                  [] r.handle.state = "TE_PRE_AND_DESTROYED" -> "CLOSING_AND_DESTROYED"
                  [] OTHER -> r.handle.state
           s == [r EXCEPT !.handle.state = h]
           t == Decrement(s, o)
           c == Check(t)
           f == FreeHandle(t)
           l == [c EXCEPT !.op[o].freeHandle = TRUE]
<1>1. due[o]["end2"] > 0 /\ UNCHANGED half
      /\ (Becomes(t) \/ Becomes(c) \/ Becomes(l) \/ Becomes(f))
  BY DEF EndTransferEnds
<1>2. /\ Moves(o, Data, r) /\ r \in Blocks /\ r.op = op
      /\ r.due[o] = [due[o] EXCEPT !["end2"] = @ - 1]
  <2>1. "end2" \in Kinds
    BY KindsAre
  <2>2. QED
    BY <1>1, <2>1, TakenMoves
<1>3. h \in HandleStates
  <2> HIDE DEF r
  <2>1. r.handle.state \in HandleStates
    BY <1>2 DEF Blocks, Handles
  <2>2. QED
    BY <2>1 DEF HandleStates
<1> HIDE DEF r
<1>4. Apart(r, s)
  <2> HIDE DEF h
  <2> QED
    BY <1>2, <1>3, HandleState
<1> HIDE DEF s
<1>5. /\ s \in Blocks /\ Moves(o, Data, s) /\ s.op = op /\ s.due = r.due
  BY <1>2, <1>4, ApartAt, Transitive
<1>6. s.op[o].ref > 0
  BY <1>1, <1>5, ReferenceOf
<1>7. Moves(o, s, t) /\ Dropped(s.op[o], t.op[o], s.due[o], t.due[o])
  BY <1>5, <1>6, DecrementIs
<1> HIDE DEF t
<1>8. t \in Blocks
  BY <1>7, MovedAt
<1>9. Apart(t, t) /\ Apart(t, c) /\ Apart(t, f)
  BY <1>8, CheckIs, FreeHandleIs DEF Apart
<1>10. c \in Blocks /\ c.op = t.op /\ c.due = t.due
  BY <1>9 DEF Apart
<1> HIDE DEF c, f
<1>11. /\ Moves(o, c, l) /\ l.due = c.due
       /\ SameCourse(c.op[o], l.op[o]) /\ SameCounts(c.op[o], l.op[o])
  BY <1>10, FreeHandleLater
<1> HIDE DEF l
<1>12. Moves(o, s, l) /\ Dropped(s.op[o], l.op[o], s.due[o], l.due[o]) /\ Apart(l, l)
  <2>1. Moves(o, s, l) /\ l \in Blocks
    BY <1>7, <1>9, <1>11, Transitive, MovedAt
  <2>2. Dropped(s.op[o], l.op[o], s.due[o], l.due[o])
    BY <1>7, <1>10, <1>11 DEF Dropped, SameCourse, SameRest, SameCounts
  <2>3. QED
    BY <2>1, <2>2 DEF Apart
<1>13. SameCourse(op[o], s.op[o]) /\ SameCounts(op[o], s.op[o])
  BY <1>5, Reflexive
<1>14. s.due[o] = [due[o] EXCEPT !["end2"] = @ - 1]
  BY <1>2, <1>5
<1>15. CASE Becomes(l)
  BY <1>1, <1>5, <1>12, <1>13, <1>14, <1>15, DropStep
<1>16. CASE Becomes(t) \/ Becomes(c) \/ Becomes(f)
  BY <1>1, <1>5, <1>7, <1>9, <1>13, <1>14, <1>16, DropStep
<1>17. QED
  BY <1>1, <1>15, <1>16

\* PostTransferEvent keeps the invariant.
LEMMA PostTransferEventKeeps ==
  ASSUME IInv, NEW o \in Ops, PostTransferEvent(o)
  PROVE  IInv'
<1> DEFINE r == Taken("post", o)
           p == [op[o] EXCEPT !.live = FALSE]
           r1 == [r EXCEPT !.op[o] = p]
           x == [session EXCEPT !.freed = @ \/ op[o].freeSession]
           s == [r1 EXCEPT !.session = x]
           s1 == [s EXCEPT !.handle.outstanding = None]
           h == CASE s1.handle.state = "TE_PRE_CLOSED" -> "CLOSED"
                  [] s1.handle.state = "TE_PRE_AND_DESTROYED" -> "CLOSING_AND_DESTROYED"
                  [] s1.handle.state = "TE_VALID" -> "VALID"
                  [] OTHER -> s1.handle.state
           t == [s1 EXCEPT !.handle.state = h]
           u == Must(t, handle.state \notin {"CLOSED", "CLOSED_AND_DESTROYED"})
<1>1. due[o]["post"] > 0 /\ "post" \in Kinds
  BY KindsAre DEF PostTransferEvent
<1>2. /\ Moves(o, Data, r) /\ r \in Blocks /\ r.op = op
      /\ r.due[o] = [due[o] EXCEPT !["post"] = @ - 1]
      /\ r.session = session /\ r.handle = handle /\ r.channel = channel
  BY <1>1, TakenMoves
<1>3. /\ UNCHANGED half
      /\ Becomes(s) \/ Becomes(u) \/ Becomes(FreeHandle(u))
  <2>1. s = [Taken("post", o) EXCEPT !.op[o].live = FALSE, !.session.freed = @ \/ op[o].freeSession]
    <3> HIDE DEF r
    <3>1. s = [r EXCEPT !.op[o].live = FALSE, !.session.freed = @ \/ op[o].freeSession]
      BY <1>2
    <3>2. QED
      BY <3>1 DEF r
  <2> HIDE DEF s, r
  <2>2. t = [s EXCEPT !.handle.outstanding = None,
                      !.handle.state = CASE @ = "TE_PRE_CLOSED" -> "CLOSED"
                                         [] @ = "TE_PRE_AND_DESTROYED" -> "CLOSING_AND_DESTROYED"
                                         [] @ = "TE_VALID" -> "VALID"
                                         [] OTHER -> @]
    OBVIOUS
  <2> HIDE DEF t
  <2>3. QED
    BY <2>1, <2>2 DEF PostTransferEvent
<1>4. /\ p \in Operations /\ ~p.live /\ p.state = op[o].state /\ p.begun = op[o].begun
      /\ p.finished = op[o].finished /\ p.delayed = op[o].delayed
      /\ p.connectFailed = op[o].connectFailed /\ p.replies = op[o].replies /\ SameCounts(op[o], p)
      /\ (p.ref > 0 <=> op[o].ref > 0)
  BY OperationAt, ZenonT(60) DEF Operations, SameCounts
<1> HIDE DEF p, r
<1>5. /\ Moves(o, r, r1) /\ r1 \in Blocks /\ r1.due = r.due /\ r1.op[o] = p /\ r1.session = session
  <2>1. /\ Moves(o, r, r1) /\ r1.due = r.due /\ r1.op[o] = p /\ r1.session = session
    BY <1>2, <1>4, SetOp
  <2> HIDE DEF r1
  <2>2. QED
    BY <2>1, MovedAt
<1>6. x \in Sessions /\ x.ref = session.ref /\ x.destroyCb = session.destroyCb
  <2>1. session \in Sessions /\ op[o].freeSession \in BOOLEAN
    BY DataIs, OperationAt DEF Operations
  <2>2. QED
    BY <2>1 DEF Sessions
<1> HIDE DEF x, r1
<1>7. Apart(r1, s)
  <2>1. /\ s \in Blocks /\ s.op = r1.op /\ s.due = r1.due /\ s.session = x
    BY <1>5, <1>6, SetSession
  <2> HIDE DEF s
  <2>2. Balance(s) = Balance(r1)
    BY <1>5, <1>6, <2>1, BalanceSame
  <2>3. QED
    BY <1>5, <1>6, <2>1, <2>2 DEF Apart
<1> HIDE DEF s
<1>8. s \in Blocks
  BY <1>7 DEF Apart
<1>9. Apart(s, s1) /\ s1 \in Blocks
  <2>1. Apart(s, s1)
    BY <1>8, Outstanding
  <2> HIDE DEF s1
  <2>2. QED
    BY <2>1 DEF Apart
<1>10. h \in HandleStates
  <2> HIDE DEF s1
  <2>1. s1.handle.state \in HandleStates
    BY <1>9 DEF Blocks, Handles
  <2>2. QED
    BY <2>1 DEF HandleStates
<1> HIDE DEF s1
<1>11. Apart(s1, t) /\ t \in Blocks
  <2> HIDE DEF h
  <2>1. Apart(s1, t)
    BY <1>9, <1>10, HandleState
  <2> HIDE DEF t
  <2>2. QED
    BY <2>1 DEF Apart
<1> HIDE DEF t
<1>12. Apart(t, u) /\ u \in Blocks
  <2>1. Apart(t, u)
    BY <1>11, MustIs
  <2> HIDE DEF u
  <2>2. QED
    BY <2>1 DEF Apart
<1> HIDE DEF u
<1>13. Apart(u, FreeHandle(u))
  BY <1>12, FreeHandleIs
<1>14. PICK z : Becomes(z) /\ Apart(r1, z)
  <2>1. Apart(r1, u)
    BY <1>7, <1>9, <1>11, <1>12, Transitive
  <2>2. Apart(r1, FreeHandle(u))
    BY <2>1, <1>13, Transitive
  <2>3. QED
    BY <1>3, <1>7, <2>1, <2>2
<1>15. Moves(o, Data, z) /\ z.op = r1.op /\ z.due = r1.due
  BY <1>2, <1>5, <1>14, Transitive DEF Apart
<1>16. Sound(p, z.due[o], ctl[o])
  <2>1. Sound(p, [due[o] EXCEPT !["post"] = @ - 1], ctl[o])
    BY <1>1, <1>4, OperationAt, SoundPost
  <2>2. QED
    BY <1>2, <1>5, <1>15, <2>1
<1>17. QED
  BY <1>3, <1>5, <1>14, <1>15, <1>16, OneMovesAlone

\* Changing the state of an operation moves only it.
LEMMA StateMoves ==
  ASSUME NEW r \in Blocks, NEW o \in Ops, NEW p, r.op[o] = p, NEW x \in OpStates
  PROVE  LET s == [r EXCEPT !.op[o].state = x]
         IN /\ Moves(o, r, s) /\ s.due = r.due /\ s.op[o].state = x
            /\ SameRest(p, s.op[o]) /\ SameCounts(p, s.op[o])
<1>1. LET y == [r EXCEPT !.op[o].state = x]
      IN /\ Moves(o, r, y) /\ y.due = r.due /\ y.op[o].state = x
         /\ SameRest(r.op[o], y.op[o]) /\ SameCounts(r.op[o], y.op[o])
  BY SetState
<1>2. QED
  BY <1>1

\* The CONNECTED event or the abort is over: the reference is given back and
\* an end that waited for it may be on its way.
LEMMA EndsStep ==
  ASSUME IInv, NEW o \in Ops, NEW k \in {"begin_cb2", "abort", "abort_now"}, due[o][k] > 0,
         NEW s, Moves(o, Data, s), SameRest(op[o], s.op[o]), SameCounts(op[o], s.op[o]),
         s.due[o] = [due[o] EXCEPT ![k] = @ - 1],
         \/ s.op[o].state = op[o].state
         \/ op[o].state = "CONNECT_CB" /\ s.op[o].state = "CONNECTED"
         \/ op[o].state = "ABORT_CLOSING" /\ s.op[o].state = "ABORTING" /\ k # "begin_cb2",
         NEW t, Moves(o, s, t), Dropped(s.op[o], t.op[o], s.due[o], t.due[o]),
         NEW u, Apart(t, u), NEW z, Moves(o, u, z), z.op = u.op,
         \/ z.due[o] = u.due[o]
         \/ /\ IF k = "begin_cb2" THEN op[o].delayed ELSE op[o].state = "FINISH"
            /\ \E j \in {"end_read", "write_eof", "end", "end_now"} : z.due[o] = [u.due[o] EXCEPT ![j] = @ + 1],
         Becomes(z), UNCHANGED half
  PROVE  IInv'
<1>1. Moves(o, Data, t) /\ Moves(o, Data, z) /\ u.op = t.op /\ u.due = t.due
  BY Transitive DEF Apart
<1>2. t.op[o] \in Operations /\ s.op[o] \in Operations
  BY <1>1, MovedAt
<1>3. Dropped(s.op[o], t.op[o], [due[o] EXCEPT ![k] = @ - 1], t.due[o])
  OBVIOUS
<1>4. \/ z.due[o] = t.due[o]
      \/ /\ IF k = "begin_cb2" THEN op[o].delayed ELSE op[o].state = "FINISH"
         /\ \E j \in {"end_read", "write_eof", "end", "end_now"} : z.due[o] = [t.due[o] EXCEPT ![j] = @ + 1]
  BY <1>1
<1>5. Sound(t.op[o], z.due[o], ctl[o])
  BY <1>2, <1>3, <1>4, OperationAt, SoundEnds
<1>6. QED
  BY <1>1, <1>5, OneMovesAlone

\* AbortKickout keeps the invariant.
LEMMA AbortKickoutKeeps ==
  ASSUME IInv, NEW o \in Ops, NEW k \in {"abort", "abort_now"}, AbortKickout(o, k)
  PROVE  IInv'
<1> DEFINE r == Taken(k, o)
           x == IF op[o].state = "ABORT_CLOSING" THEN "ABORTING" ELSE op[o].state
           s == [r EXCEPT !.op[o].state = x]
           m == Must(s, op[o].state \in {"FINISH", "ABORT_CLOSING"})
           t == Decrement(m, o)
           u == Must(t, ~Last(t, o))
           z == IF FinishedMeanwhile(o) THEN Later(u, o, "end_now") ELSE u
<1>1. due[o][k] > 0 /\ k \in Kinds /\ "end_now" \in Kinds
  BY KindsAre DEF AbortKickout
<1>2. /\ Moves(o, Data, r) /\ r \in Blocks /\ r.op = op
      /\ r.due[o] = [due[o] EXCEPT ![k] = @ - 1]
  BY <1>1, TakenMoves
<1>3. Becomes(z) /\ UNCHANGED half
  <2>1. s = [Taken(k, o) EXCEPT !.op[o].state = IF @ = "ABORT_CLOSING" THEN "ABORTING" ELSE @]
    <3> HIDE DEF r
    <3>1. s = [r EXCEPT !.op[o].state = IF @ = "ABORT_CLOSING" THEN "ABORTING" ELSE @]
      BY <1>2
    <3>2. QED
      BY <3>1 DEF r
  <2> HIDE DEF s
  <2>2. QED
    BY <2>1 DEF AbortKickout
<1>4. x \in OpStates
  BY OperationAt DEF Operations, OpStates
<1> HIDE DEF r
<1>5. /\ Moves(o, r, s) /\ s.due = r.due /\ s.op[o].state = x
      /\ SameRest(op[o], s.op[o]) /\ SameCounts(op[o], s.op[o])
  <2> HIDE DEF x
  <2> QED
    BY <1>2, <1>4, StateMoves
<1> HIDE DEF s
<1>6. /\ Apart(s, m) /\ m \in Blocks /\ Moves(o, Data, m) /\ m.op = s.op /\ m.due = r.due
  <2>1. s \in Blocks /\ Moves(o, Data, s)
    BY <1>2, <1>5, Transitive, MovedAt
  <2>2. Apart(s, m)
    BY <2>1, MustIs
  <2> HIDE DEF m
  <2>3. QED
    BY <1>5, <2>1, <2>2, ApartAt, Transitive
<1>7. m.op[o].ref > 0
  <2>1. op[o].ref > 0
    BY <1>1, ReferenceOf
  <2>2. QED
    BY <1>5, <1>6, <2>1 DEF SameCounts
<1> HIDE DEF m
<1>8. Moves(o, m, t) /\ Dropped(m.op[o], t.op[o], m.due[o], t.due[o])
  BY <1>6, <1>7, DecrementIs
<1> HIDE DEF t
<1>9. Apart(t, u) /\ u \in Blocks
  <2>1. t \in Blocks
    BY <1>8, MovedAt
  <2>2. Apart(t, u)
    BY <2>1, MustIs
  <2> HIDE DEF u
  <2>3. QED
    BY <2>2 DEF Apart
<1> HIDE DEF u
<1>10. LET l == Later(u, o, "end_now")
       IN Moves(o, u, l) /\ l.op = u.op /\ l.due[o] = [u.due[o] EXCEPT !["end_now"] = @ + 1]
  BY <1>1, <1>9, LaterIs
<1>11. Moves(o, u, u)
  BY <1>9 DEF Moves
<1>12. Moves(o, u, z) /\ z.op = u.op
       /\ \/ z.due[o] = u.due[o]
          \/ /\ op[o].state = "FINISH"
             /\ \E j \in {"end_read", "write_eof", "end", "end_now"} : z.due[o] = [u.due[o] EXCEPT ![j] = @ + 1]
  <2>1. CASE op[o].state = "FINISH"
    BY <1>10, <2>1 DEF FinishedMeanwhile
  <2>2. CASE op[o].state # "FINISH"
    BY <1>11, <2>2 DEF FinishedMeanwhile
  <2>3. QED
    BY <2>1, <2>2
<1> HIDE DEF z
<1>13. \/ m.op[o].state = op[o].state
       \/ op[o].state = "ABORT_CLOSING" /\ m.op[o].state = "ABORTING"
  BY <1>5, <1>6
<1>14. m.due[o] = [due[o] EXCEPT ![k] = @ - 1] /\ SameRest(op[o], m.op[o]) /\ SameCounts(op[o], m.op[o])
  BY <1>2, <1>5, <1>6
<1>15. k # "begin_cb2"
  OBVIOUS
<1>16. QED
  BY <1>1, <1>3, <1>6, <1>8, <1>9, <1>12, <1>13, <1>14, <1>15, EndsStep

\* BeginCbEnds keeps the invariant.
LEMMA BeginCbEndsKeeps ==
  ASSUME IInv, NEW o \in Ops, BeginCbEnds(o)
  PROVE  IInv'
<1> DEFINE k == "begin_cb2"
           r == Taken(k, o)
           x == IF op[o].state = "CONNECT_CB" THEN "CONNECTED" ELSE op[o].state
           s == [r EXCEPT !.op[o].state = x]
           t == Decrement(s, o)
           u == IF Last(t, o) THEN Check(t) ELSE t
           z == IF s.op[o].delayed THEN FinishConnected(u, o) ELSE u
<1>1. due[o][k] > 0 /\ k \in Kinds
  BY KindsAre DEF BeginCbEnds
<1>2. /\ Moves(o, Data, r) /\ r \in Blocks /\ r.op = op
      /\ r.due[o] = [due[o] EXCEPT ![k] = @ - 1]
  BY <1>1, TakenMoves
<1>3. Becomes(z) /\ UNCHANGED half
  <2>1. s = [Taken(k, o) EXCEPT !.op[o].state = IF @ = "CONNECT_CB" THEN "CONNECTED" ELSE @]
    <3> HIDE DEF r
    <3>1. s = [r EXCEPT !.op[o].state = IF @ = "CONNECT_CB" THEN "CONNECTED" ELSE @]
      BY <1>2
    <3>2. QED
      BY <3>1 DEF r
  <2> HIDE DEF s
  <2>2. QED
    BY <2>1 DEF BeginCbEnds
<1>4. x \in OpStates
  BY OperationAt DEF Operations, OpStates
<1> HIDE DEF r
<1>5. /\ Moves(o, r, s) /\ s.due = r.due /\ s.op[o].state = x
      /\ SameRest(op[o], s.op[o]) /\ SameCounts(op[o], s.op[o])
  <2> HIDE DEF x
  <2> QED
    BY <1>2, <1>4, StateMoves
<1> HIDE DEF s
<1>6. s \in Blocks /\ Moves(o, Data, s)
  BY <1>2, <1>5, Transitive, MovedAt
<1>7. s.op[o].ref > 0
  <2>1. op[o].ref > 0
    BY <1>1, ReferenceOf
  <2>2. QED
    BY <1>5, <2>1 DEF SameCounts
<1>8. Moves(o, s, t) /\ Dropped(s.op[o], t.op[o], s.due[o], t.due[o])
  BY <1>6, <1>7, DecrementIs
<1> HIDE DEF t
<1>9. Apart(t, u) /\ u \in Blocks
  <2>1. t \in Blocks
    BY <1>8, MovedAt
  <2>2. Apart(t, u)
    BY <2>1, CheckIs DEF Apart
  <2> HIDE DEF u
  <2>3. QED
    BY <2>2 DEF Apart
<1> HIDE DEF u
<1>10. LET l == FinishConnected(u, o)
       IN /\ Moves(o, u, l) /\ l.op = u.op
          /\ \E j \in {"end_read", "write_eof", "end"} : l.due[o] = [u.due[o] EXCEPT ![j] = @ + 1]
  BY <1>9, FinishConnectedIs
<1>11. Moves(o, u, u)
  BY <1>9 DEF Moves
<1>12. Moves(o, u, z) /\ z.op = u.op
       /\ \/ z.due[o] = u.due[o]
          \/ /\ op[o].delayed
             /\ \E j \in {"end_read", "write_eof", "end", "end_now"} : z.due[o] = [u.due[o] EXCEPT ![j] = @ + 1]
  <2>1. s.op[o].delayed = op[o].delayed
    BY <1>5 DEF SameRest
  <2>2. CASE op[o].delayed
    BY <1>10, <2>1, <2>2
  <2>3. CASE ~op[o].delayed
    BY <1>11, <2>1, <2>3
  <2>4. QED
    BY <2>2, <2>3
<1> HIDE DEF z
<1>13. \/ s.op[o].state = op[o].state
       \/ op[o].state = "CONNECT_CB" /\ s.op[o].state = "CONNECTED"
  BY <1>5
<1>14. s.due[o] = [due[o] EXCEPT ![k] = @ - 1]
  BY <1>2, <1>5
<1>15. QED
  BY <1>1, <1>3, <1>5, <1>6, <1>8, <1>9, <1>12, <1>13, <1>14, EndsStep

\* The operation p remembers that its connection failed.
ConnectLost(p, q) ==
  /\ q.connectFailed /\ SameCounts(p, q)
  /\ q.state = p.state /\ q.live = p.live /\ q.begun = p.begun /\ q.finished = p.finished
  /\ q.delayed = p.delayed /\ q.replies = p.replies

\* A connection that fails marks its operation.
LEMMA ConnectFails ==
  ASSUME NEW s \in Blocks, NEW o \in Ops, NEW p, s.op[o] = p
  PROVE  LET t == [s EXCEPT !.op[o].connectFailed = TRUE]
         IN Moves(o, s, t) /\ t.due = s.due /\ ConnectLost(p, t.op[o])
<1> DEFINE r == [p EXCEPT !.connectFailed = TRUE]
<1>1. r \in Operations /\ ConnectLost(p, r) /\ (r.ref > 0 <=> s.op[o].ref > 0)
  <2>1. p \in Operations
    BY BlockAt
  <2>2. QED
    BY <2>1 DEF Operations, SameCounts, ConnectLost
<1>2. [s EXCEPT !.op[o].connectFailed = TRUE] = [s EXCEPT !.op[o] = r]
  OBVIOUS
<1>3. QED
  <2> HIDE DEF r
  <2>1. r \in Operations /\ (r.ref > 0 <=> s.op[o].ref > 0)
    BY <1>1
  <2>2. LET t == [s EXCEPT !.op[o] = r]
        IN Moves(o, s, t) /\ t.due = s.due /\ t.op[o] = r
    BY <2>1, SetOp
  <2>3. QED
    BY <1>1, <1>2, <2>2

\* A connection that is there, or is not looked at any more.
LEMMA ConnectsStep ==
  ASSUME IInv, NEW o \in Ops, due[o]["begin_cb"] > 0, NEW s, Moves(o, Data, s),
         SameRest(op[o], s.op[o]), SameCounts(op[o], s.op[o]),
         \/ s.op[o].state = op[o].state
         \/ op[o].state = "CONNECTING" /\ s.op[o].state = "CONNECT_CB"
         \/ op[o].state = "COMPLETING" /\ s.op[o].state = "COMPLETE",
         s.due[o] = [[due[o] EXCEPT !["begin_cb"] = @ - 1] EXCEPT !["begin_cb2"] = @ + 1],
         NEW z, Apart(s, z), Becomes(z), UNCHANGED half
  PROVE  IInv'
<1>1. Moves(o, Data, z) /\ z.op = s.op /\ z.due = s.due
  BY Transitive DEF Apart
<1>2. s.op[o] \in Operations
  BY MovedAt
<1>3. Sound(s.op[o], [[due[o] EXCEPT !["begin_cb"] = @ - 1] EXCEPT !["begin_cb2"] = @ + 1], ctl[o])
  BY <1>2, OperationAt, SoundConnects
<1>4. QED
  BY <1>1, <1>3, OneMovesAlone

\* BeginCb keeps the invariant.
LEMMA BeginCbKeeps ==
  ASSUME IInv, NEW o \in Ops, BeginCb(o)
  PROVE  IInv'
<1>1. PICK error \in BOOLEAN :
        LET s == [Taken("begin_cb", o) EXCEPT !.channel = IF error /\ @ = "open" THEN "none" ELSE @]
            on == Later(s, o, "begin_cb2")
        IN Becomes(
            CASE op[o].state = "CONNECTING" /\ error ->
                   StartAbort([s EXCEPT !.op[o].connectFailed = TRUE], o)
              [] op[o].state = "CONNECTING" /\ ~error -> [on EXCEPT !.op[o].state = "CONNECT_CB"]
              [] op[o].state \in {"FINISH_WITH_ERROR", "FINISH", "ABORTING", "ABORT_CLOSING"} ->
                   Must(on, op[o].ref > 1)
              [] op[o].state = "COMPLETING" ->
                   IF op[o].ref = 1 THEN [on EXCEPT !.op[o].state = "COMPLETE"] ELSE on
              [] OTHER -> Must(on, FALSE))
  BY DEF BeginCb
<1> DEFINE r == Taken("begin_cb", o)
           ch == IF error /\ r.channel = "open" THEN "none" ELSE r.channel
           s == [r EXCEPT !.channel = ch]
           on == Later(s, o, "begin_cb2")
           f == [s EXCEPT !.op[o].connectFailed = TRUE]
           a == StartAbort(f, o)
           cc == [on EXCEPT !.op[o].state = "CONNECT_CB"]
           co == [on EXCEPT !.op[o].state = "COMPLETE"]
           m == Must(on, op[o].ref > 1)
           n == Must(on, FALSE)
<1>2. due[o]["begin_cb"] > 0 /\ UNCHANGED half /\ "begin_cb" \in Kinds /\ "begin_cb2" \in Kinds
  BY KindsAre DEF BeginCb
<1>3. \/ op[o].state = "CONNECTING" /\ Becomes(a)
      \/ op[o].state = "CONNECTING" /\ Becomes(cc)
      \/ op[o].state = "COMPLETING" /\ Becomes(co)
      \/ Becomes(on) \/ Becomes(m) \/ Becomes(n)
  BY <1>1
<1>4. /\ Moves(o, Data, r) /\ r \in Blocks /\ r.op = op
      /\ r.due[o] = [due[o] EXCEPT !["begin_cb"] = @ - 1]
  BY <1>2, TakenMoves
<1>5. ch \in {"open", "closing", "none"}
  <2> HIDE DEF r
  <2>1. r.channel \in {"open", "closing", "none"}
    BY <1>4 DEF Blocks
  <2>2. QED
    BY <2>1
<1> HIDE DEF r
<1>6. Apart(r, s)
  <2> HIDE DEF ch
  <2> QED
    BY <1>4, <1>5, SetChannel
<1> HIDE DEF s
<1>7. s \in Blocks /\ Moves(o, Data, s) /\ s.op = op /\ s.due = r.due
  BY <1>4, <1>6, ApartAt, Transitive
<1>8. on \in Blocks /\ Moves(o, Data, on) /\ on.op = op
      /\ on.due[o] = [[due[o] EXCEPT !["begin_cb"] = @ - 1] EXCEPT !["begin_cb2"] = @ + 1]
  <2>1. Moves(o, s, on) /\ on.op = s.op /\ on.due[o] = [s.due[o] EXCEPT !["begin_cb2"] = @ + 1]
    BY <1>2, <1>7, LaterIs
  <2> HIDE DEF on
  <2>2. QED
    BY <1>4, <1>7, <2>1, Transitive, MovedAt
<1> HIDE DEF on
<1>9. Apart(on, on) /\ Apart(on, m) /\ Apart(on, n)
  BY <1>8, MustIs, ZenonT(60) DEF Apart
<1>10. "CONNECT_CB" \in OpStates /\ "COMPLETE" \in OpStates
  BY DEF OpStates
<1>11. /\ Moves(o, on, cc) /\ cc.due = on.due /\ cc.op[o].state = "CONNECT_CB"
       /\ SameRest(op[o], cc.op[o]) /\ SameCounts(op[o], cc.op[o])
  BY <1>8, <1>10, StateMoves
<1>12. /\ Moves(o, on, co) /\ co.due = on.due /\ co.op[o].state = "COMPLETE"
       /\ SameRest(op[o], co.op[o]) /\ SameCounts(op[o], co.op[o])
  BY <1>8, <1>10, StateMoves
<1> HIDE DEF cc, co, m, n
<1>13. CASE op[o].state = "CONNECTING" /\ Becomes(cc)
  <2>1. Moves(o, Data, cc) /\ Apart(cc, cc)
    BY <1>8, <1>11, Transitive, MovedAt DEF Apart
  <2>2. QED
    BY <1>2, <1>8, <1>11, <1>13, <2>1, ConnectsStep
<1>14. CASE op[o].state = "COMPLETING" /\ Becomes(co)
  <2>1. Moves(o, Data, co) /\ Apart(co, co)
    BY <1>8, <1>12, Transitive, MovedAt DEF Apart
  <2>2. QED
    BY <1>2, <1>8, <1>12, <1>14, <2>1, ConnectsStep
<1>15. CASE Becomes(on) \/ Becomes(m) \/ Becomes(n)
  <2>1. SameRest(op[o], on.op[o]) /\ SameCounts(op[o], on.op[o]) /\ on.op[o].state = op[o].state
    BY <1>8, Reflexive
  <2>2. QED
    BY <1>2, <1>8, <1>9, <1>15, <2>1, ConnectsStep
<1>16. CASE op[o].state = "CONNECTING" /\ Becomes(a)
  <2>1. Moves(o, s, f) /\ f.due = s.due /\ ConnectLost(op[o], f.op[o])
    <3>1. s.op[o] = op[o]
      BY <1>7
    <3>2. LET y == [s EXCEPT !.op[o].connectFailed = TRUE]
          IN Moves(o, s, y) /\ y.due = s.due /\ ConnectLost(s.op[o], y.op[o])
      BY <1>7, ConnectFails
    <3>3. QED
      BY <3>1, <3>2
  <2> HIDE DEF f
  <2>2. f \in Blocks /\ Moves(o, Data, f)
    BY <1>7, <2>1, Transitive, MovedAt
  <2>3. f.op[o].ref > 0
    BY <1>2, <2>1, ReferenceOf DEF SameCounts, ConnectLost
  <2>4. Moves(o, f, a) /\ AbortStarts(f.op[o], a.op[o], f.due[o], a.due[o])
    BY <2>2, <2>3, StartAbortIs
  <2> HIDE DEF a
  <2>5. Moves(o, Data, a) /\ a.op[o] \in Operations
    BY <2>2, <2>4, Transitive, MovedAt
  <2>6. PICK k \in {"abort", "abort_fc"} :
          a.due[o] = [[due[o] EXCEPT !["begin_cb"] = @ - 1] EXCEPT ![k] = @ + 1]
    BY <1>4, <1>7, <1>16, <2>1, <2>4 DEF AbortStarts, ConnectLost
  <2>7. /\ a.op[o].state = "ABORT_CLOSING" /\ SameRest(f.op[o], a.op[o])
        /\ a.op[o].ref = f.op[o].ref + 1 /\ a.op[o].completes = f.op[o].completes
    BY <1>16, <2>1, <2>4 DEF AbortStarts, ConnectLost
  <2>8. /\ a.op[o].connectFailed /\ a.op[o].live = op[o].live /\ a.op[o].begun = op[o].begun
        /\ a.op[o].finished = op[o].finished /\ a.op[o].delayed = op[o].delayed
        /\ a.op[o].replies = op[o].replies
        /\ a.op[o].ref = op[o].ref + 1 /\ a.op[o].completes = op[o].completes
    BY <2>1, <2>7 DEF SameRest, SameCounts, ConnectLost
  <2>9. Sound(a.op[o], [[due[o] EXCEPT !["begin_cb"] = @ - 1] EXCEPT ![k] = @ + 1], ctl[o])
    BY <1>2, <1>16, <2>5, <2>7, <2>8, OperationAt, SoundConnectFails
  <2>10. QED
    BY <1>2, <1>16, <2>5, <2>6, <2>9, OneMovesAlone
<1>17. QED
  BY <1>3, <1>13, <1>14, <1>15, <1>16

\* The locked region of begin_transfer ends by giving its reference back.
Drops(t, o) == \E c : Becomes(Must(Decrement(t, o), c))

\* It has k come, with a reference of its own.
LEMMA BegunStep ==
  ASSUME IInv, NEW o \in Ops, NEW k \in {"begin_cb", "begin_abort"}, due[o]["begin"] > 0,
         NEW r, Moves(o, Kept(Later(Taken("begin", o), o, k), o), r),
         r.due = Kept(Later(Taken("begin", o), o, k), o).due,
         SameRest(Kept(Later(Taken("begin", o), o, k), o).op[o], r.op[o]),
         SameCounts(Kept(Later(Taken("begin", o), o, k), o).op[o], r.op[o]),
         \/ k = "begin_cb" /\ op[o].state = "REQUESTING" /\ r.op[o].state = "CONNECTING"
         \/ k = "begin_abort" /\ op[o].state \in {"REQUESTING", "ABORTING"} /\ r.op[o].state = "ABORTING",
         Drops(r, o), UNCHANGED half
  PROVE  IInv'
<1> DEFINE s == Later(Taken("begin", o), o, k)
           h == Kept(s, o)
<1>1. k \in Kinds /\ "begin" \in Kinds
  BY KindsAre
<1>2. /\ Moves(o, Data, s) /\ s \in Blocks /\ s.op = op
      /\ s.due[o] = [[due[o] EXCEPT !["begin"] = @ - 1] EXCEPT ![k] = @ + 1]
  BY <1>1, PassOn
<1>3. /\ Moves(o, h, r) /\ r.due = h.due /\ SameRest(h.op[o], r.op[o]) /\ SameCounts(h.op[o], r.op[o])
  OBVIOUS
<1> HIDE DEF s
<1>4. op[o].ref > 0
  BY <1>1, ReferenceOf
<1>5. /\ Moves(o, s, h) /\ h.due = s.due /\ SameCourse(s.op[o], h.op[o])
      /\ h.op[o].ref = s.op[o].ref + 1 /\ h.op[o].completes = s.op[o].completes
  BY <1>2, <1>4, KeptIs
<1> HIDE DEF h
<1>6. Moves(o, Data, r) /\ r \in Blocks /\ r.op[o] \in Operations
  <2>1. Moves(o, Data, r)
    BY <1>2, <1>3, <1>5, Transitive
  <2>2. QED
    BY <2>1, MovedAt
<1>7. /\ SameRest(op[o], r.op[o]) /\ r.op[o].ref = op[o].ref + 1 /\ r.op[o].completes = op[o].completes
      /\ r.due[o] = [[due[o] EXCEPT !["begin"] = @ - 1] EXCEPT ![k] = @ + 1]
  BY <1>2, <1>3, <1>5 DEF SameCourse, SameRest, SameCounts
<1>8. r.op[o].ref > 0
  <2>1. op[o].ref \in Int
    BY OperationAt DEF Operations
  <2>2. QED
    BY <1>4, <1>7, <2>1
<1> DEFINE t == Decrement(r, o)
<1>9. Moves(o, r, t) /\ Dropped(r.op[o], t.op[o], r.due[o], t.due[o])
  BY <1>6, <1>8, DecrementIs
<1>10. PICK c : Becomes(Must(t, c))
  BY DEF Drops
<1> HIDE DEF t
<1>11. Moves(o, Data, t) /\ t \in Blocks /\ t.op[o] \in Operations
  <2>1. Moves(o, Data, t)
    BY <1>6, <1>9, Transitive
  <2>2. QED
    BY <2>1, MovedAt
<1> DEFINE u == Must(t, c)
<1>12. Apart(t, u)
  BY <1>11, MustIs
<1>13. Becomes(u)
  BY <1>10
<1> HIDE DEF u
<1>14. Moves(o, Data, u) /\ u.op = t.op /\ u.due = t.due
  BY <1>11, <1>12, Transitive DEF Apart
<1>15. Sound(t.op[o], t.due[o], ctl[o])
  <2> DEFINE f == [[due[o] EXCEPT !["begin"] = @ - 1] EXCEPT ![k] = @ + 1]
  <2>1. Dropped(r.op[o], t.op[o], f, t.due[o])
    BY <1>7, <1>9
  <2>2. Tally(t.due[o]) = Tally(f)
    <3>1. f \in [Kinds -> Nat]
      BY <1>1, OperationAt, PassedOn
    <3> HIDE DEF f
    <3>2. QED
      BY <2>1, <3>1, DroppedIs
  <2>3. QED
    BY <1>6, <1>7, <1>11, <2>1, <2>2, OperationAt, SoundBegun
<1>16. QED
  BY <1>13, <1>14, <1>15, OneMovesAlone

\* BeginLocked keeps the invariant.
LEMMA BeginLockedKeeps ==
  ASSUME IInv, NEW o \in Ops, BeginLocked(o)
  PROVE  IInv'
<1> DEFINE s == Taken("begin", o)
           a == Later(s, o, "begin_abort")
           b == Later(s, o, "begin_cb")
           abort == Kept(a, o)
           kept == Kept(b, o)
           connect == [kept EXCEPT !.op[o].state = "CONNECTING"]
           aborting == [abort EXCEPT !.op[o].state = "ABORTING"]
<1>1. due[o]["begin"] > 0 /\ UNCHANGED half
  BY DEF BeginLocked
<1>2. \/ op[o].state = "REQUESTING" /\ Drops(connect, o)
      \/ op[o].state = "REQUESTING" /\ Drops(aborting, o)
      \/ op[o].state = "ABORTING" /\ Drops(abort, o)
      \/ \E c : Drops(Must(s, c), o)
  BY DEF BeginLocked, Drops
<1>3. /\ "begin" \in Kinds /\ "begin_abort" \in Kinds /\ "begin_cb" \in Kinds
      /\ "CONNECTING" \in OpStates /\ "ABORTING" \in OpStates
  BY KindsAre DEF OpStates
<1>4. op[o].ref > 0
  BY <1>1, ReferenceOf
<1>5. abort \in Blocks /\ SameCourse(op[o], abort.op[o])
  <2>1. /\ Moves(o, Data, a) /\ a \in Blocks /\ a.op = op
        /\ a.due[o] = [[due[o] EXCEPT !["begin"] = @ - 1] EXCEPT !["begin_abort"] = @ + 1]
    BY <1>1, <1>3, PassOn
  <2> HIDE DEF a
  <2>2. Moves(o, a, abort) /\ SameCourse(a.op[o], abort.op[o])
    BY <1>4, <2>1, KeptIs
  <2> HIDE DEF abort
  <2>3. QED
    BY <2>1, <2>2, MovedAt
<1>6. kept \in Blocks
  <2>1. /\ Moves(o, Data, b) /\ b \in Blocks /\ b.op = op
        /\ b.due[o] = [[due[o] EXCEPT !["begin"] = @ - 1] EXCEPT !["begin_cb"] = @ + 1]
    BY <1>1, <1>3, PassOn
  <2> HIDE DEF b
  <2>2. Moves(o, b, kept)
    BY <1>4, <2>1, KeptIs
  <2> HIDE DEF kept
  <2>3. QED
    BY <2>2, MovedAt
<1>7. CASE op[o].state = "REQUESTING" /\ Drops(connect, o)
  <2>1. /\ Moves(o, kept, connect) /\ connect.due = kept.due /\ connect.op[o].state = "CONNECTING"
        /\ SameRest(kept.op[o], connect.op[o]) /\ SameCounts(kept.op[o], connect.op[o])
    <3> HIDE DEF kept
    <3> QED
      BY <1>3, <1>6, StateMoves
  <2> HIDE DEF connect
  <2>2. QED
    BY <1>1, <1>7, <2>1, BegunStep
<1>8. CASE op[o].state = "REQUESTING" /\ Drops(aborting, o)
  <2>1. /\ Moves(o, abort, aborting) /\ aborting.due = abort.due /\ aborting.op[o].state = "ABORTING"
        /\ SameRest(abort.op[o], aborting.op[o]) /\ SameCounts(abort.op[o], aborting.op[o])
    <3> HIDE DEF abort
    <3> QED
      BY <1>3, <1>5, StateMoves
  <2> HIDE DEF aborting
  <2>2. QED
    BY <1>1, <1>8, <2>1, BegunStep
<1>9. CASE op[o].state = "ABORTING" /\ Drops(abort, o)
  <2>1. Moves(o, abort, abort) /\ SameRest(abort.op[o], abort.op[o]) /\ SameCounts(abort.op[o], abort.op[o])
    BY <1>5, Reflexive DEF Moves
  <2>2. abort.op[o].state = "ABORTING"
    BY <1>5, <1>9 DEF SameCourse
  <2>3. QED
    BY <1>1, <1>9, <2>1, <2>2, BegunStep
<1>10. CASE \E c : Drops(Must(s, c), o)
  <2>1. PICK c : Drops(Must(s, c), o)
    BY <1>10
  <2>2. /\ Moves(o, Data, s) /\ s \in Blocks /\ s.op = op
        /\ s.due[o] = [due[o] EXCEPT !["begin"] = @ - 1]
    BY <1>1, <1>3, TakenMoves
  <2> HIDE DEF s
  <2> DEFINE m == Must(s, c)
             t == Decrement(m, o)
  <2>3. Apart(s, m)
    BY <2>2, MustIs
  <2>4. PICK e : Becomes(Must(t, e))
    BY <2>1 DEF Drops
  <2> HIDE DEF m
  <2>5. m \in Blocks /\ Moves(o, Data, m) /\ m.op = op /\ m.due = s.due
    BY <2>2, <2>3, ApartAt, Transitive
  <2>6. Moves(o, m, t) /\ Dropped(m.op[o], t.op[o], m.due[o], t.due[o])
    BY <1>4, <2>5, DecrementIs
  <2> HIDE DEF t
  <2> DEFINE u == Must(t, e)
  <2>7. t \in Blocks
    BY <2>6, MovedAt
  <2>8. Apart(t, u)
    BY <2>7, MustIs
  <2>9. Becomes(u)
    BY <2>4
  <2> HIDE DEF u
  <2>10. SameCourse(op[o], m.op[o]) /\ SameCounts(op[o], m.op[o])
    BY <2>5, Reflexive
  <2>11. m.due[o] = [due[o] EXCEPT !["begin"] = @ - 1]
    BY <2>2, <2>5
  <2>12. QED
    BY <1>1, <2>5, <2>6, <2>8, <2>9, <2>10, <2>11, DropStep
<1>11. QED
  BY <1>2, <1>7, <1>8, <1>9, <1>10

\* The operation p has been replied to.
Replied(p, q) ==
  /\ q.replies = p.replies + 1 /\ SameCounts(p, q)
  /\ q.state = p.state /\ q.live = p.live /\ q.begun = p.begun /\ q.finished = p.finished
  /\ q.delayed = p.delayed /\ q.connectFailed = p.connectFailed

\* The reply counts one more.
LEMMA ReplyMoves ==
  ASSUME NEW s \in Blocks, NEW o \in Ops
  PROVE  LET t == [s EXCEPT !.op[o].replies = @ + 1]
         IN Moves(o, s, t) /\ t.due = s.due /\ Replied(s.op[o], t.op[o])
<1> DEFINE p == s.op[o]
           r == [p EXCEPT !.replies = @ + 1]
<1>1. r \in Operations /\ Replied(p, r) /\ (r.ref > 0 <=> p.ref > 0)
  <2>1. p \in Operations
    BY BlockAt
  <2> HIDE DEF p
  <2>2. QED
    BY <2>1 DEF Operations, SameCounts, Replied
<1>2. [s EXCEPT !.op[o].replies = @ + 1] = [s EXCEPT !.op[o] = r]
  OBVIOUS
<1>3. QED
  <2> HIDE DEF r
  <2>1. r \in Operations /\ (r.ref > 0 <=> s.op[o].ref > 0)
    BY <1>1
  <2>2. LET t == [s EXCEPT !.op[o] = r]
        IN Moves(o, s, t) /\ t.due = s.due /\ t.op[o] = r
    BY <2>1, SetOp
  <2>3. QED
    BY <1>1, <1>2, <2>2

\* The data object of a request that is answered is not in use any more.
LEMMA AnswerKeepsOne ==
  ASSUME IInv, NEW o \in Ops, ctl[o] \in {"busy", "aborted"},
         NEW c \in {"replied", "ended"}, ctl' = [ctl EXCEPT ![o] = c],
         object' \in {"destroy_wait", "ready"}, session'.destroyCb = session.destroyCb
  PROVE  /\ CtlTyped' /\ OneAtATime' /\ (object = "stopped" <=> object' = "stopped")
         /\ \A q \in Ops \ {o} : ctl'[q] = ctl[q]
         /\ ctl'[o] = c
<1>1. ctl \in [Ops -> CtlStates] /\ OneAtATime
  BY DEF IInv, Typed
<1>2. object = "inuse" /\ \A q \in Ops \ {o} : ctl[q] \notin {"busy", "aborted"}
  BY <1>1 DEF OneAtATime
<1>3. ~session.destroyCb
  BY <1>1, <1>2 DEF OneAtATime
<1>4. ctl' \in [Ops -> CtlStates] /\ ctl'[o] = c /\ \A q \in Ops \ {o} : ctl'[q] = ctl[q]
  BY <1>1 DEF CtlStates
<1>5. CtlTyped'
  BY <1>4 DEF CtlTyped
<1>6. OneAtATime'
  BY <1>2, <1>3, <1>4 DEF OneAtATime
<1>7. QED
  BY <1>2, <1>4, <1>5, <1>6

\* EndTransfer keeps the invariant.
LEMMA EndTransferKeeps ==
  ASSUME IInv, NEW o \in Ops, NEW k \in {"end", "end_now"}, EndTransfer(o, k)
  PROVE  IInv'
<1> DEFINE r == Later(Taken(k, o), o, "end2")
           a == [r EXCEPT !.op[o].replies = @ + 1]
           h == IF a.handle.state = "INUSE" THEN "TE_VALID" ELSE a.handle.state
           s == [a EXCEPT !.handle.state = h]
           c == IF op[o].begun THEN "replied" ELSE "ended"
<1>1. due[o][k] > 0 /\ k \in Kinds /\ "end2" \in Kinds
  BY KindsAre DEF EndTransfer
<1>2. /\ Moves(o, Data, r) /\ r \in Blocks /\ r.op = op
      /\ r.due[o] = [[due[o] EXCEPT ![k] = @ - 1] EXCEPT !["end2"] = @ + 1]
  BY <1>1, PassOn
<1>3. PICK e : Becomes(Must(s, e))
  <2>1. s = [Later(Taken(k, o), o, "end2") EXCEPT
                 !.op[o].replies = @ + 1,
                 !.handle.state = IF @ = "INUSE" THEN "TE_VALID" ELSE @]
    OBVIOUS
  <2> HIDE DEF s
  <2>2. QED
    BY <2>1 DEF EndTransfer
<1>4. /\ ctl' = [ctl EXCEPT ![o] = c] /\ c \in {"replied", "ended"}
  BY DEF EndTransfer
<1> HIDE DEF r
<1>5. Moves(o, r, a) /\ a.due = r.due /\ Replied(op[o], a.op[o])
  BY <1>2, ReplyMoves
<1> HIDE DEF a
<1>6. a \in Blocks /\ Moves(o, Data, a)
  BY <1>2, <1>5, Transitive, MovedAt
<1>7. Apart(a, s)
  <2>1. h \in HandleStates
    <3>1. a.handle.state \in HandleStates
      BY <1>6 DEF Blocks, Handles
    <3>2. QED
      BY <3>1 DEF HandleStates
  <2> HIDE DEF h
  <2>2. QED
    BY <1>6, <2>1, HandleState
<1> HIDE DEF s
<1>8. Apart(s, Must(s, e))
  <2>1. s \in Blocks
    BY <1>7 DEF Apart
  <2>2. QED
    BY <2>1, MustIs
<1> DEFINE t == Must(s, e)
<1>9. Moves(o, Data, t) /\ t.op = a.op /\ t.due = r.due /\ Becomes(t)
  <2>1. Becomes(t) /\ Apart(s, t)
    BY <1>3, <1>8
  <2> HIDE DEF t
  <2>2. QED
    BY <1>5, <1>6, <1>7, <2>1, Transitive DEF Apart
<1> HIDE DEF t, c
<1>10. a.op[o] \in Operations
  BY <1>6, MovedAt
<1>11. /\ Sound(a.op[o], [[due[o] EXCEPT ![k] = @ - 1] EXCEPT !["end2"] = @ + 1], c)
       /\ ctl[o] \in {"busy", "aborted"}
  BY <1>1, <1>5, <1>10, OperationAt, SoundReply DEF Replied, c
<1>12. object' \in {"destroy_wait", "ready"}
  BY DEF EndTransfer, ObjectAfter
<1>13. session'.destroyCb = session.destroyCb
  BY <1>9, DataIs DEF Becomes, Moves
<1>14. /\ CtlTyped' /\ OneAtATime' /\ (object = "stopped" <=> object' = "stopped")
       /\ \A q \in Ops \ {o} : ctl'[q] = ctl[q]
       /\ ctl'[o] = c
  BY <1>4, <1>11, <1>12, <1>13, AnswerKeepsOne
<1>15. Sound(t.op[o], t.due[o], ctl'[o])
  BY <1>2, <1>9, <1>11, <1>14
<1>16. QED
  BY <1>9, <1>14, <1>15, OneMoves

\* Request keeps the invariant.
LEMMA RequestKeeps ==
  ASSUME IInv, NEW o \in Ops, NEW w \in BOOLEAN, Request(o, w)
  PROVE  IInv'
<1> DEFINE n == NewOp(w)
           x == [session EXCEPT !.ref = @ + 1]
<1>1. PICK c : Becomes([Must(Data, c) EXCEPT
                   !.op[o] = NewOp(w), !.session.ref = @ + 1,
                   !.handle.outstanding = o, !.handle.state = "INUSE"])
  BY DEF Request
<1>2. ctl[o] = "idle" /\ object = "ready" /\ ctl' = [ctl EXCEPT ![o] = "busy"] /\ object' = "inuse"
  BY DEF Request
<1> DEFINE m == Must(Data, c)
           a == [m EXCEPT !.op[o] = n]
           b == [a EXCEPT !.session = x]
           d == [b EXCEPT !.handle.outstanding = o]
           t == [d EXCEPT !.handle.state = "INUSE"]
<1>3. Data \in Blocks /\ Data.op = op /\ Data.session = session /\ Data.due = due /\ session \in Sessions
  BY DataIs
<1>4. Apart(Data, m) /\ m.session = session
  <2>1. Apart(Data, m) /\ m.session = Data.session
    BY <1>3, MustIs
  <2> HIDE DEF m
  <2>2. QED
    BY <1>3, <2>1
<1>5. Becomes(t)
  <2>1. t = [Must(Data, c) EXCEPT
                   !.op[o] = NewOp(w), !.session.ref = @ + 1,
                   !.handle.outstanding = o, !.handle.state = "INUSE"]
    <3> HIDE DEF m, n
    <3>1. t = [m EXCEPT !.op[o] = n, !.session.ref = @ + 1,
                        !.handle.outstanding = o, !.handle.state = "INUSE"]
      BY <1>4
    <3>2. QED
      BY <3>1 DEF m, n
  <2> HIDE DEF t
  <2>2. QED
    BY <1>1, <2>1
<1> HIDE DEF m
<1>6. m \in Blocks /\ Moves(o, Data, m) /\ m.op = op /\ m.due = due
  BY <1>3, <1>4, ApartAt
<1>7. Sound(op[o], due[o], "idle") /\ op[o] \in Operations /\ due[o] \in [Kinds -> Nat]
  BY <1>2, OperationAt
<1>8. n \in Operations /\ Sound(n, due[o], "busy")
  BY <1>7, SoundRequest
<1>9. n.ref > 0 /\ ~(op[o].ref > 0)
  BY <1>7 DEF NewOp, Sound, Fits, Stage
<1> HIDE DEF n
<1>10. x \in Sessions /\ x.ref = session.ref + 1 /\ x.destroyCb = session.destroyCb
  BY <1>3 DEF Sessions
<1> HIDE DEF x
<1>11. /\ a \in Blocks /\ a.due = m.due /\ a.op[o] = n /\ \A q \in Ops \ {o} : a.op[q] = m.op[q]
  BY <1>6, <1>8, SetOp
<1> HIDE DEF a
<1>12. b \in Blocks /\ b.op = a.op /\ b.due = a.due /\ b.session = x
  BY <1>10, <1>11, SetSession
<1> HIDE DEF b
<1>13. Moves(o, m, b)
  <2>1. Balance(b) = Balance(m)
    <3>1. ~(m.op[o].ref > 0) /\ b.op[o].ref > 0 /\ \A q \in Ops \ {o} : b.op[q] = m.op[q]
      BY <1>6, <1>9, <1>11, <1>12
    <3>2. b.session.ref = m.session.ref + 1 /\ b.session.destroyCb = m.session.destroyCb
      BY <1>4, <1>10, <1>12
    <3>3. QED
      BY <1>6, <1>12, <3>1, <3>2, FirstComes
  <2>2. QED
    BY <1>4, <1>10, <1>11, <1>12, <2>1 DEF Moves
<1>14. Apart(b, d) /\ d \in Blocks
  <2>1. Apart(b, d)
    BY <1>12, Outstanding
  <2> HIDE DEF d
  <2>2. QED
    BY <2>1 DEF Apart
<1> HIDE DEF d
<1>15. Apart(d, t)
  <2>1. "INUSE" \in HandleStates
    BY DEF HandleStates
  <2>2. QED
    BY <1>14, <2>1, HandleState
<1> HIDE DEF t
<1>16. Moves(o, Data, t) /\ t.op = b.op /\ t.due = b.due
  BY <1>6, <1>13, <1>14, <1>15, Transitive DEF Apart
<1>17. Sound(t.op[o], t.due[o], "busy")
  BY <1>6, <1>8, <1>11, <1>12, <1>16
<1>18. session'.destroyCb = session.destroyCb
  BY <1>3, <1>5, <1>16 DEF Becomes, Moves
<1>19. ctl \in [Ops -> CtlStates] /\ OneAtATime
  BY DEF IInv, Typed
<1>20. ctl' \in [Ops -> CtlStates] /\ ctl'[o] = "busy" /\ \A q \in Ops \ {o} : ctl'[q] = ctl[q]
  BY <1>2, <1>19 DEF CtlStates
<1>21. CtlTyped'
  BY <1>2, <1>20 DEF CtlTyped
<1>22. OneAtATime'
  <2>1. ~session.destroyCb /\ \A q \in Ops : ctl[q] \notin {"busy", "aborted"}
    BY <1>2, <1>19 DEF OneAtATime
  <2>2. QED
    BY <1>2, <1>18, <1>20, <2>1 DEF OneAtATime
<1>23. object = "stopped" <=> object' = "stopped"
  BY <1>2
<1>24. QED
  BY <1>5, <1>16, <1>17, <1>20, <1>21, <1>22, <1>23, OneMoves

\* Abort keeps the invariant.
LEMMA AbortKeeps ==
  ASSUME IInv, NEW o \in Ops, Abort(o)
  PROVE  IInv'
<1> DEFINE t == StartAbort(Data, o)
<1>1. Becomes(t) /\ ctl[o] = "busy" /\ ctl' = [ctl EXCEPT ![o] = "aborted"] /\ object' = object
  BY DEF Abort
<1>2. Data \in Blocks /\ Data.op = op /\ Data.session = session /\ Data.due = due
  BY DataIs
<1>3. Moves(o, Data, t) /\ AbortStarts(op[o], t.op[o], due[o], t.due[o])
  <2>1. op[o].state \in {"CONNECTING", "CONNECTED"} => op[o].ref > 0
    BY ReferenceOf
  <2>2. LET u == StartAbort(Data, o)
        IN Moves(o, Data, u) /\ AbortStarts(Data.op[o], u.op[o], Data.due[o], u.due[o])
    BY <1>2, <2>1, StartAbortIs
  <2>3. QED
    BY <1>2, <2>2
<1> HIDE DEF t
<1>4. t.op[o] \in Operations
  BY <1>3, MovedAt
<1>5. session'.destroyCb = session.destroyCb
  BY <1>1, <1>2, <1>3 DEF Becomes, Moves
<1>6. CtlTyped /\ OneAtATime
  BY DEF IInv, Typed, CtlTyped
<1>7. ctl'[o] = "aborted" /\ \A q \in Ops \ {o} : ctl'[q] = ctl[q]
  BY <1>1, <1>6 DEF CtlTyped
<1>8. CtlTyped'
  BY <1>1, <1>6 DEF CtlTyped, CtlStates
<1>9. OneAtATime'
  BY <1>1, <1>5, <1>6, <1>7 DEF OneAtATime
<1>10. Sound(t.op[o], t.due[o], ctl'[o])
  <2>1. Sound(op[o], due[o], "busy") /\ "busy" \in CtlStates
    BY <1>1, OperationAt DEF CtlStates
  <2>2. QED
    BY <1>3, <1>4, <1>7, <2>1, OperationAt, SoundAbort
<1>11. QED
  BY <1>1, <1>3, <1>7, <1>8, <1>9, <1>10, OneMoves

\* Counting a marker changes nothing the invariant speaks of.
LEMMA MarkerMoves ==
  ASSUME NEW s \in Blocks, NEW o \in Ops
  PROVE  LET t == [s EXCEPT !.op[o].markers = @ + 1]
         IN /\ Moves(o, s, t) /\ t.due = s.due
            /\ SameCourse(s.op[o], t.op[o]) /\ SameCounts(s.op[o], t.op[o])
<1> DEFINE p == s.op[o]
           r == [p EXCEPT !.markers = @ + 1]
<1>1. r \in Operations /\ SameCourse(p, r) /\ SameCounts(p, r) /\ (r.ref > 0 <=> p.ref > 0)
  <2>1. p \in Operations
    BY BlockAt
  <2> HIDE DEF p
  <2>2. QED
    BY <2>1 DEF Operations, SameCourse, SameRest, SameCounts
<1>2. [s EXCEPT !.op[o].markers = @ + 1] = [s EXCEPT !.op[o] = r]
  OBVIOUS
<1>3. QED
  <2> HIDE DEF r
  <2>1. r \in Operations /\ (r.ref > 0 <=> s.op[o].ref > 0)
    BY <1>1
  <2>2. LET t == [s EXCEPT !.op[o] = r]
        IN Moves(o, s, t) /\ t.due = s.due /\ t.op[o] = r
    BY <2>1, SetOp
  <2>3. QED
    BY <1>1, <1>2, <2>2

\* Marker keeps the invariant.
LEMMA MarkerKeeps ==
  ASSUME IInv, NEW o \in Ops, Marker(o)
  PROVE  IInv'
<1> DEFINE s == Later(Data, o, "trev")
           h == Kept(s, o)
           t == [h EXCEPT !.op[o].markers = @ + 1]
<1>1. /\ op[o].state = "CONNECTED" /\ Becomes(t) /\ UNCHANGED half /\ "trev" \in Kinds
  BY KindsAre DEF Marker
<1>2. Data \in Blocks /\ Data.op = op /\ Data.due = due
  BY DataIs
<1>3. op[o].ref > 0 /\ ctl[o] # "idle"
  BY <1>1, ReferenceOf
<1>4. Moves(o, Data, s) /\ s.op = op /\ s.due[o] = [due[o] EXCEPT !["trev"] = @ + 1]
  <2>1. LET y == Later(Data, o, "trev")
        IN Moves(o, Data, y) /\ y.op = Data.op /\ y.due[o] = [Data.due[o] EXCEPT !["trev"] = @ + 1]
    BY <1>1, <1>2, LaterIs
  <2>2. QED
    BY <1>2, <2>1
<1> HIDE DEF s
<1>5. s \in Blocks
  BY <1>4, MovedAt
<1>6. /\ Moves(o, s, h) /\ h.due = s.due /\ SameCourse(op[o], h.op[o])
      /\ h.op[o].ref = op[o].ref + 1 /\ h.op[o].completes = op[o].completes
  BY <1>3, <1>4, <1>5, KeptIs
<1> HIDE DEF h
<1>7. h \in Blocks
  BY <1>6, MovedAt
<1>8. Moves(o, h, t) /\ t.due = h.due /\ SameCourse(h.op[o], t.op[o]) /\ SameCounts(h.op[o], t.op[o])
  BY <1>7, MarkerMoves
<1> HIDE DEF t
<1>9. Moves(o, Data, t)
  BY <1>4, <1>6, <1>8, Transitive
<1>10. t.op[o] \in Operations
  BY <1>9, MovedAt
<1>11. /\ SameCourse(op[o], t.op[o]) /\ t.op[o].ref = op[o].ref + 1
       /\ t.op[o].completes = op[o].completes
  BY <1>6, <1>8 DEF SameCourse, SameRest, SameCounts
<1>12. t.due[o] = [due[o] EXCEPT !["trev"] = @ + 1]
  BY <1>4, <1>6, <1>8
<1>13. Sound(t.op[o], t.due[o], ctl[o])
  BY <1>1, <1>3, <1>10, <1>11, <1>12, OperationAt, SoundMarker
<1>14. QED
  BY <1>1, <1>9, <1>13, OneMovesAlone

\* The control half is through with a request that was answered.
LEMMA CompletesStep ==
  ASSUME IInv, NEW o \in Ops, ctl[o] = "replied",
         ctl' = [ctl EXCEPT ![o] = "ended"], object' = ObjectEnds,
         NEW s, Moves(o, Data, s), s.op[o].state = "COMPLETING",
         SameRest(op[o], s.op[o]), SameCounts(op[o], s.op[o]), s.due[o] = due[o],
         NEW t, Moves(o, s, t), Becomes(t),
         \/ Dropped(s.op[o], t.op[o], s.due[o], t.due[o])
         \/ /\ SameCourse(s.op[o], t.op[o]) /\ SameCounts(s.op[o], t.op[o])
            /\ t.due[o] = [s.due[o] EXCEPT !["complete_fc"] = @ + 1]
  PROVE  IInv'
<1>1. Moves(o, Data, t)
  BY Transitive
<1>2. s.op[o] \in Operations /\ t.op[o] \in Operations
  BY <1>1, MovedAt
<1>3. Sound(op[o], due[o], "replied") /\ op[o] \in Operations /\ due[o] \in [Kinds -> Nat]
  BY OperationAt
<1>4. \/ Dropped(s.op[o], t.op[o], due[o], t.due[o])
      \/ /\ SameCourse(s.op[o], t.op[o]) /\ SameCounts(s.op[o], t.op[o])
         /\ t.due[o] = [due[o] EXCEPT !["complete_fc"] = @ + 1]
  OBVIOUS
<1>5. Sound(t.op[o], t.due[o], "ended")
  BY <1>2, <1>3, <1>4, SoundComplete
<1>6. session'.destroyCb = session.destroyCb
  BY <1>1, DataIs DEF Becomes, Moves
<1>7. CtlTyped /\ OneAtATime
  BY DEF IInv, Typed, CtlTyped
<1>8. ctl'[o] = "ended" /\ \A q \in Ops \ {o} : ctl'[q] = ctl[q]
  BY <1>7 DEF CtlTyped
<1>9. CtlTyped'
  BY <1>7 DEF CtlTyped, CtlStates, ObjectEnds
<1>10. OneAtATime'
  BY <1>6, <1>7, <1>8 DEF OneAtATime, ObjectEnds
<1>11. object = "stopped" <=> object' = "stopped"
  BY DEF ObjectEnds
<1>12. Sound(t.op[o], t.due[o], ctl'[o])
  BY <1>5, <1>8
<1>13. QED
  BY <1>1, <1>8, <1>9, <1>10, <1>11, <1>12, OneMoves

\* Complete keeps the invariant.
LEMMA CompleteKeeps ==
  ASSUME IInv, NEW o \in Ops, Complete(o)
  PROVE  IInv'
<1> DEFINE over == [Data EXCEPT !.op[o].state = "COMPLETING"]
           closing == [over EXCEPT !.handle.state = "CLOSING"]
           r == Release(over, o)
           f == ForceCloseReturns(closing, o)
           g == Release(f, o)
           c == Close(closing, o, "complete_fc", g)
<1>1. ctl[o] = "replied" /\ ctl' = [ctl EXCEPT ![o] = "ended"] /\ object' = ObjectEnds
  BY DEF Complete
<1>2. op[o].ref > 0 /\ op[o].state \in {"FINISH", "FINISH_WITH_ERROR"}
  BY <1>1, ReferenceOf
<1>3. Becomes(r) \/ Becomes(c)
  BY <1>2 DEF Complete
<1>4. Data \in Blocks /\ Data.op = op /\ Data.due = due
  BY DataIs
<1>5. /\ Moves(o, Data, over) /\ over.due = due /\ over.op[o].state = "COMPLETING"
      /\ SameRest(op[o], over.op[o]) /\ SameCounts(op[o], over.op[o])
  <2>1. "COMPLETING" \in OpStates
    BY DEF OpStates
  <2>2. LET y == [Data EXCEPT !.op[o].state = "COMPLETING"]
        IN /\ Moves(o, Data, y) /\ y.due = Data.due /\ y.op[o].state = "COMPLETING"
           /\ SameRest(Data.op[o], y.op[o]) /\ SameCounts(Data.op[o], y.op[o])
    BY <1>4, <2>1, StateMoves
  <2>3. QED
    BY <1>4, <2>2
<1> HIDE DEF over
<1>6. over \in Blocks /\ over.op[o].ref > 0
  BY <1>2, <1>5, MovedAt DEF SameCounts
<1>7. Moves(o, over, r) /\ Dropped(over.op[o], r.op[o], over.due[o], r.due[o])
  BY <1>6, ReleaseIs
<1>8. Apart(over, closing) /\ closing \in Blocks /\ closing.op = over.op /\ closing.due = over.due
  <2>1. "CLOSING" \in HandleStates
    BY DEF HandleStates
  <2>2. Apart(over, closing)
    BY <1>6, <2>1, HandleState
  <2> HIDE DEF closing
  <2>3. QED
    BY <2>2 DEF Apart
<1> HIDE DEF r, closing
<1>9. CASE Becomes(r)
  BY <1>1, <1>5, <1>7, <1>9, CompletesStep
<1>10. CASE Becomes(c)
  <2>1. \/ Becomes(g)
        \/ Becomes(Closing(closing, o, "complete_fc"))
    BY <1>10 DEF Close, Closing
  <2>2. /\ Moves(o, closing, f) /\ f.due = closing.due
        /\ SameCourse(closing.op[o], f.op[o]) /\ SameCounts(closing.op[o], f.op[o])
    BY <1>8, ForceCloseReturnsIs
  <2> HIDE DEF f
  <2>3. f \in Blocks /\ f.op[o].ref > 0
    BY <1>6, <1>8, <2>2, MovedAt DEF SameCounts
  <2>4. Moves(o, f, g) /\ Dropped(f.op[o], g.op[o], f.due[o], g.due[o])
    BY <2>3, ReleaseIs
  <2> HIDE DEF g
  <2>5. LET y == Closing(closing, o, "complete_fc")
        IN /\ Moves(o, closing, y) /\ y.op = closing.op
           /\ y.due[o] = [closing.due[o] EXCEPT !["complete_fc"] = @ + 1]
    <3>1. "complete_fc" \in Kinds
      BY KindsAre
    <3>2. QED
      BY <1>8, <3>1, ClosingIs
  <2>6. CASE Becomes(g)
    <3>1. Moves(o, over, g)
      BY <1>8, <2>2, <2>4, Transitive
    <3>2. Dropped(over.op[o], g.op[o], over.due[o], g.due[o])
      <4>1. Dropped(closing.op[o], g.op[o], closing.due[o], g.due[o])
        BY <2>2, <2>4, DroppedSame
      <4>2. QED
        BY <1>8, <4>1
    <3>3. QED
      BY <1>1, <1>5, <2>6, <3>1, <3>2, CompletesStep
  <2>7. CASE Becomes(Closing(closing, o, "complete_fc"))
    <3> DEFINE y == Closing(closing, o, "complete_fc")
    <3>1. Moves(o, over, y)
      BY <1>8, <2>5, Transitive
    <3>2. /\ SameCourse(over.op[o], y.op[o]) /\ SameCounts(over.op[o], y.op[o])
          /\ y.due[o] = [over.due[o] EXCEPT !["complete_fc"] = @ + 1]
      BY <1>8, <2>5, Reflexive
    <3>3. Becomes(y)
      BY <2>7
    <3> HIDE DEF y
    <3>4. QED
      BY <1>1, <1>5, <3>1, <3>2, <3>3, CompletesStep
  <2>8. QED
    BY <2>1, <2>6, <2>7
<1>11. QED
  BY <1>3, <1>9, <1>10

\* No operation moves, but the session.
LEMMA SessionMoves ==
  ASSUME IInv, NEW t \in Blocks, Becomes(t), t.op = op, t.due = due, ctl' = ctl,
         object' \in {"ready", "inuse", "destroy_wait", "destroying", "gone", "stopped"},
         Balance(t) = One(object' # "stopped"), OneAtATime'
  PROVE  IInv'
<1>1. (Data \in Blocks)' /\ Balance(Data)' = Balance(t)
  BY BecomesIs
<1>2. Typed'
  BY <1>1 DEF Typed, IInv
<1>3. SessionCounted'
  BY <1>1 DEF SessionCounted
<1>4. \A q \in Ops : Sound(op'[q], due'[q], ctl'[q])
  BY DEF IInv, Becomes
<1>5. QED
  BY <1>2, <1>3, <1>4 DEF IInv

\* What the session's count comes to when it and the close of its channel change.
LEMMA BalanceIs ==
  ASSUME NEW s \in Blocks, NEW t \in Blocks, t.op = s.op
  PROVE  /\ s.session.ref \in Int /\ t.session.ref \in Int /\ Balance(s) \in Int
         /\ Balance(t) - Balance(s) =
              (t.session.ref - One(t.session.destroyCb)) - (s.session.ref - One(s.session.destroyCb))
<1> DEFINE n == Cardinality({o \in Ops : s.op[o].ref > 0})
<1>1. n \in Nat
  BY ReferencedFinite
<1>2. /\ s.session.ref \in Int /\ One(s.session.destroyCb) \in Int
      /\ t.session.ref \in Int /\ One(t.session.destroyCb) \in Int
  BY DEF Blocks, Sessions, One
<1>3. /\ Balance(s) = s.session.ref - One(s.session.destroyCb) - n
      /\ Balance(t) = t.session.ref - One(t.session.destroyCb) - n
  BY DEF Balance
<1> HIDE DEF n
<1>4. QED
  BY <1>1, <1>2, <1>3

\* SessionStop keeps the invariant.
LEMMA SessionStopKeeps ==
  ASSUME IInv, SessionStop
  PROVE  IInv'
<1> DEFINE x == [[session EXCEPT !.ref = @ - 1] EXCEPT !.freed = (session.ref = 1)]
           t == [Data EXCEPT !.session = x]
<1>1. Data \in Blocks /\ Data.op = op /\ Data.session = session /\ Data.due = due /\ session \in Sessions
  BY DataIs
<1>2. /\ Becomes(t) /\ ctl' = ctl /\ object = "gone" /\ object' = "stopped"
      /\ \A o \in Ops : ctl[o] \in {"idle", "ended"}
  <2>1. t = [Data EXCEPT !.session.ref = @ - 1, !.session.freed = (session.ref = 1)]
    BY <1>1
  <2> HIDE DEF t
  <2>2. QED
    BY <2>1 DEF SessionStop
<1>3. x \in Sessions /\ x.ref = session.ref - 1 /\ x.destroyCb = session.destroyCb
  <2> DEFINE y == [session EXCEPT !.ref = @ - 1]
  <2>1. y \in Sessions /\ y.ref = session.ref - 1 /\ y.destroyCb = session.destroyCb
    BY <1>1 DEF Sessions
  <2> HIDE DEF y
  <2>2. \A e \in BOOLEAN : LET z == [y EXCEPT !.freed = e]
                          IN z \in Sessions /\ z.ref = y.ref /\ z.destroyCb = y.destroyCb
    BY <2>1 DEF Sessions
  <2>3. (session.ref = 1) \in BOOLEAN
    OBVIOUS
  <2>4. x = [y EXCEPT !.freed = (session.ref = 1)]
    BY DEF y
  <2>5. QED
    BY <2>1, <2>2, <2>3, <2>4
<1> HIDE DEF x
<1>4. t \in Blocks /\ t.op = op /\ t.due = due /\ t.session = x
  <2>1. t \in Blocks /\ t.op = Data.op /\ t.due = Data.due /\ t.session = x
    BY <1>1, <1>3, SetSession
  <2> HIDE DEF t
  <2>2. QED
    BY <1>1, <2>1
<1> HIDE DEF t
<1>5. Balance(t) = 0
  <2>1. Balance(Data) = 1
    BY <1>2 DEF IInv, SessionCounted, One
  <2>2. /\ t.session.ref = Data.session.ref - 1 /\ t.session.destroyCb = Data.session.destroyCb
        /\ t.op = Data.op
    BY <1>1, <1>3, <1>4
  <2>3. One(Data.session.destroyCb) \in Int
    BY DEF One
  <2>4. QED
    BY <1>1, <1>4, <2>1, <2>2, <2>3, BalanceIs
<1>6. OneAtATime'
  BY <1>2 DEF OneAtATime
<1>7. QED
  BY <1>2, <1>4, <1>5, <1>6, SessionMoves DEF One

\* An idle operation is none the less idle when an abort finds it.
LEMMA SoundIdle ==
  ASSUME NEW p \in Operations, NEW q \in Operations, NEW d \in [Kinds -> Nat], Sound(p, d, "idle"),
         SameRest(p, q), SameCounts(p, q), q.state \in {"REQUESTING", "ABORTING"}
  PROVE  Sound(q, d, "idle")
<1> DEFINE t == Tally(d)
<1>1. \A k \in Kinds : d[k] = 0
  BY DEF Sound
<1>2. t = [begin |-> 0, connect |-> 0, abort |-> 0, end |-> 0, reply |-> 0, over |-> 0, marker |-> 0]
  BY <1>1, KindsAre DEF Tally
<1>3. Fits(p, t, "idle")
  BY DEF Sound
<1> HIDE DEF t
<1>4. Fits(q, t, "idle")
  BY <1>2, <1>3 DEF Fits, Stage, Begins, Aborts, Ends, Counted, RequestHolds, ControlHolds, One,
                    Finishing, SameRest, SameCounts, Operations
<1>5. QED
  BY <1>1, <1>4 DEF Sound, t

\* Before its request an operation has no reference and nothing on its way.
LEMMA IdleIs ==
  ASSUME IInv, NEW o \in Ops, ctl[o] = "idle"
  PROVE  op[o].state \in {"REQUESTING", "ABORTING"} /\ op[o].ref = 0
BY OperationAt DEF Sound, Fits, Stage

\* While the handle is asked to go no request is unanswered.
LEMMA GoneKeepsOne ==
  ASSUME IInv, object \in {"destroying", "ready", "destroy_wait"}, object' = "gone", ctl' = ctl
  PROVE  /\ CtlTyped' /\ OneAtATime' /\ (object = "stopped" <=> object' = "stopped")
         /\ ~session.destroyCb
<1>1. CtlTyped /\ OneAtATime
  BY DEF IInv, Typed, CtlTyped
<1>2. ~session.destroyCb /\ \A o \in Ops : ctl[o] \notin {"busy", "aborted"}
  BY <1>1 DEF OneAtATime
<1>3. CtlTyped' /\ OneAtATime'
  BY <1>1, <1>2 DEF CtlTyped, OneAtATime
<1>4. QED
  BY <1>2, <1>3

\* DestroyHandle keeps the invariant.
LEMMA DestroyHandleKeeps ==
  ASSUME IInv, DestroyHandle
  PROVE  IInv'
<1> DEFINE closed == [Data EXCEPT !.handle.state = "CLOSING_AND_DESTROYED"]
           freed == FreeHandle(closed)
           f == [Data EXCEPT !.handle.state = "CLOSED_AND_DESTROYED"]
           g == [Data EXCEPT !.handle.state = "TE_PRE_AND_DESTROYED"]
           m == Must(Data, FALSE)
           y == [session EXCEPT !.ref = @ + 1]
           x == [y EXCEPT !.destroyCb = TRUE]
           h == IF handle.state = "VALID" THEN "CLOSING_AND_DESTROYED" ELSE "TE_PRE_AND_DESTROYED"
           c == [Data EXCEPT !.session = x]
           d == [c EXCEPT !.channel = "closing"]
           e == [d EXCEPT !.handle.state = h]
<1>1. object \in {"destroying", "ready", "destroy_wait"} /\ object' = "gone" /\ ctl' = ctl
  BY DEF DestroyHandle
<1>2. /\ CtlTyped' /\ OneAtATime' /\ (object = "stopped" <=> object' = "stopped")
      /\ ~session.destroyCb
  BY <1>1, GoneKeepsOne
<1>3. /\ Data \in Blocks /\ Data.op = op /\ Data.session = session /\ Data.due = due
      /\ session \in Sessions /\ Data.handle = handle
  BY DataIs
<1>4. \/ Becomes(e)
      \/ Becomes(f) \/ Becomes(g) \/ Becomes(m) \/ Becomes(freed)
      \/ handle.outstanding # None /\ Becomes(StartAbort(Data, handle.outstanding))
  <2>1. e = [Data EXCEPT !.session.ref = @ + 1, !.session.destroyCb = TRUE,
                         !.channel = "closing",
                         !.handle.state = IF @ = "VALID" THEN "CLOSING_AND_DESTROYED"
                                          ELSE "TE_PRE_AND_DESTROYED"]
    BY <1>3
  <2> HIDE DEF e, f, g, m, freed
  <2>2. QED
    BY <2>1 DEF DestroyHandle, f, g, m, freed
<1>5. Balance(Data) = 1
  BY <1>1 DEF IInv, SessionCounted, One
<1>6. /\ "CLOSING_AND_DESTROYED" \in HandleStates /\ "CLOSED_AND_DESTROYED" \in HandleStates
      /\ "TE_PRE_AND_DESTROYED" \in HandleStates /\ h \in HandleStates
  BY DEF HandleStates
<1>7. Apart(Data, f) /\ Apart(Data, g) /\ Apart(Data, m)
  BY <1>3, <1>6, HandleState, MustIs
<1>8. Apart(Data, freed)
  <2>1. Apart(Data, closed) /\ closed \in Blocks
    <3>1. Apart(Data, closed)
      BY <1>3, <1>6, HandleState
    <3> HIDE DEF closed
    <3>2. QED
      BY <3>1 DEF Apart
  <2> HIDE DEF closed
  <2>2. QED
    BY <2>1, FreeHandleIs, Transitive
<1> HIDE DEF f, g, m, freed
<1>9. ASSUME NEW t, Apart(Data, t), Becomes(t)
      PROVE  IInv'
  <2>1. t \in Blocks /\ t.op = op /\ t.due = due /\ Balance(t) = 1
    BY <1>3, <1>5, <1>9 DEF Apart
  <2>2. QED
    BY <1>1, <1>2, <1>9, <2>1, SessionMoves DEF One
<1>10. CASE Becomes(e)
  <2>1. x \in Sessions /\ x.ref = session.ref + 1 /\ x.destroyCb = TRUE
    <3>1. y \in Sessions /\ y.ref = session.ref + 1
      BY <1>3 DEF Sessions
    <3> HIDE DEF y
    <3>2. QED
      BY <3>1 DEF Sessions
  <2> HIDE DEF x
  <2>2. c \in Blocks /\ c.op = op /\ c.due = due /\ c.session = x
    <3>1. c \in Blocks /\ c.op = Data.op /\ c.due = Data.due /\ c.session = x
      BY <1>3, <2>1, SetSession
    <3> HIDE DEF c
    <3>2. QED
      BY <1>3, <3>1
  <2> HIDE DEF c
  <2>3. Apart(c, d) /\ d \in Blocks
    <3>1. Apart(c, d)
      BY <2>2, SetChannel
    <3> HIDE DEF d
    <3>2. QED
      BY <3>1 DEF Apart
  <2> HIDE DEF d
  <2>4. Apart(d, e)
    <3> HIDE DEF h
    <3> QED
      BY <1>6, <2>3, HandleState
  <2> HIDE DEF e
  <2>5. e \in Blocks /\ e.op = op /\ e.due = due /\ Balance(e) = Balance(c)
    BY <2>2, <2>3, <2>4 DEF Apart
  <2>6. Balance(c) = 1
    <3>1. /\ c.session.ref = Data.session.ref + 1 /\ One(c.session.destroyCb) = 1
          /\ One(Data.session.destroyCb) = 0 /\ c.op = Data.op
      BY <1>2, <1>3, <2>1, <2>2 DEF One
    <3>2. QED
      BY <1>3, <1>5, <2>2, <3>1, BalanceIs
  <2>7. QED
    BY <1>1, <1>2, <1>10, <2>5, <2>6, SessionMoves DEF One
<1>11. CASE handle.outstanding # None /\ Becomes(StartAbort(Data, handle.outstanding))
  <2>1. PICK o \in Ops : o = handle.outstanding
    BY <1>11, DataIs DEF Handles
  <2> DEFINE t == StartAbort(Data, o)
  <2>2. Becomes(t)
    BY <1>11, <2>1
  <2>3. Moves(o, Data, t) /\ AbortStarts(op[o], t.op[o], due[o], t.due[o])
    <3>1. op[o].state \in {"CONNECTING", "CONNECTED"} => op[o].ref > 0
      BY ReferenceOf
    <3>2. LET u == StartAbort(Data, o)
          IN Moves(o, Data, u) /\ AbortStarts(Data.op[o], u.op[o], Data.due[o], u.due[o])
      BY <1>3, <3>1, StartAbortIs
    <3>3. QED
      BY <1>3, <3>2
  <2> HIDE DEF t
  <2>4. t.op[o] \in Operations
    BY <2>3, MovedAt
  <2>5. Sound(t.op[o], t.due[o], ctl[o])
    <3>1. CASE ctl[o] # "idle"
      BY <2>3, <2>4, <3>1, OperationAt, SoundAbort
    <3>2. CASE ctl[o] = "idle"
      <4>1. op[o].state \in {"REQUESTING", "ABORTING"}
        BY <3>2, IdleIs
      <4>2. /\ SameRest(op[o], t.op[o]) /\ SameCounts(op[o], t.op[o])
            /\ t.op[o].state \in {"REQUESTING", "ABORTING"} /\ t.due[o] = due[o]
        BY <2>3, <4>1 DEF AbortStarts, SameCourse
      <4>3. QED
        BY <2>4, <3>2, <4>2, OperationAt, SoundIdle
    <3>3. QED
      BY <3>1, <3>2
  <2>6. QED
    BY <1>1, <1>2, <2>2, <2>3, <2>5, OneMoves
<1>12. QED
  BY <1>4, <1>7, <1>8, <1>9, <1>10, <1>11

\* DestroyCb keeps the invariant.
LEMMA DestroyCbKeeps ==
  ASSUME IInv, DestroyCb
  PROVE  IInv'
<1> DEFINE y == [session EXCEPT !.destroyCb = FALSE]
           z == [y EXCEPT !.ref = @ - 1]
           x == [z EXCEPT !.freed = (session.ref = 1)]
           a == [Data EXCEPT !.channel = "none"]
           s == [a EXCEPT !.session = x]
<1>1. /\ Data \in Blocks /\ Data.op = op /\ Data.session = session /\ Data.due = due
      /\ session \in Sessions
  BY DataIs
<1>2. session.destroyCb /\ ctl' = ctl /\ object' = object
  BY DEF DestroyCb, half
<1>3. Becomes(s) \/ Becomes(FreeHandle(s)) \/ Becomes(Must(s, FALSE))
  <2>1. s = [Data EXCEPT !.channel = "none", !.session.destroyCb = FALSE,
                         !.session.ref = @ - 1, !.session.freed = (session.ref = 1)]
    <3>1. a.session = session
      BY <1>1
    <3>2. s = [a EXCEPT !.session.destroyCb = FALSE,
                        !.session.ref = @ - 1, !.session.freed = (session.ref = 1)]
      <4> HIDE DEF a
      <4> QED
        BY <3>1
    <3>3. QED
      <4> HIDE DEF s
      <4> QED
        BY <3>2
  <2> HIDE DEF s
  <2>2. QED
    BY <2>1 DEF DestroyCb
<1>4. x \in Sessions /\ x.ref = session.ref - 1 /\ x.destroyCb = FALSE
  <2>1. y \in Sessions /\ y.ref = session.ref /\ y.destroyCb = FALSE
    BY <1>1 DEF Sessions
  <2> HIDE DEF y
  <2>2. z \in Sessions /\ z.ref = session.ref - 1 /\ z.destroyCb = FALSE
    BY <2>1 DEF Sessions
  <2>3. \A e \in BOOLEAN : LET w == [z EXCEPT !.freed = e]
                          IN w \in Sessions /\ w.ref = z.ref /\ w.destroyCb = z.destroyCb
    <3> HIDE DEF z
    <3> QED
      BY <2>2 DEF Sessions
  <2>4. (session.ref = 1) \in BOOLEAN
    OBVIOUS
  <2> HIDE DEF z
  <2>5. QED
    BY <2>2, <2>3, <2>4
<1> HIDE DEF x
<1>5. Apart(Data, a) /\ a \in Blocks /\ a.op = op /\ a.due = due
  <2>1. Apart(Data, a)
    BY <1>1, SetChannel
  <2> HIDE DEF a
  <2>2. QED
    BY <1>1, <2>1 DEF Apart
<1> HIDE DEF a
<1>6. s \in Blocks /\ s.op = op /\ s.due = due /\ s.session = x
  <2>1. s \in Blocks /\ s.op = a.op /\ s.due = a.due /\ s.session = x
    BY <1>4, <1>5, SetSession
  <2> HIDE DEF s
  <2>2. QED
    BY <1>5, <2>1
<1> HIDE DEF s
<1>7. Balance(s) = Balance(Data)
  <2>1. /\ s.session.ref = Data.session.ref - 1 /\ One(s.session.destroyCb) = 0
        /\ One(Data.session.destroyCb) = 1 /\ s.op = Data.op
    BY <1>1, <1>2, <1>4, <1>6 DEF One
  <2>2. /\ Data.session.ref \in Int /\ Balance(Data) \in Int /\ Balance(s) \in Int
        /\ Balance(s) - Balance(Data) =
             (s.session.ref - One(s.session.destroyCb)) - (Data.session.ref - One(Data.session.destroyCb))
    BY <1>1, <1>6, <2>1, BalanceIs
  <2>3. \A b, c, n \in Int : c - b = (n - 1 - 0) - (n - 1) => c = b
    OBVIOUS
  <2>4. Balance(s) - Balance(Data) = (Data.session.ref - 1 - 0) - (Data.session.ref - 1)
    BY <2>1, <2>2, Zenon
  <2>5. QED
    BY <2>2, <2>3, <2>4
<1>8. Apart(s, s) /\ Apart(s, FreeHandle(s)) /\ Apart(s, Must(s, FALSE))
  BY <1>6, FreeHandleIs, MustIs DEF Apart
<1>9. PICK t : Becomes(t) /\ Apart(s, t)
  BY <1>3, <1>8
<1>10. t \in Blocks /\ t.op = op /\ t.due = due /\ Balance(t) = Balance(Data) /\ ~t.session.destroyCb
  BY <1>4, <1>6, <1>7, <1>9 DEF Apart
<1>11. OneAtATime'
  <2>1. ~session'.destroyCb
    BY <1>9, <1>10 DEF Becomes
  <2>2. QED
    BY <1>2, <2>1 DEF OneAtATime, IInv
<1>12. /\ object' \in {"ready", "inuse", "destroy_wait", "destroying", "gone", "stopped"}
       /\ Balance(t) = One(object' # "stopped")
  BY <1>2, <1>10 DEF IInv, Typed, SessionCounted
<1>13. QED
  BY <1>2, <1>9, <1>10, <1>11, <1>12, SessionMoves

\* LinkDown keeps the invariant.
LEMMA LinkDownKeeps ==
  ASSUME IInv, LinkDown
  PROVE  IInv'
<1> DEFINE t == [Data EXCEPT !.channel = "none"]
<1>1. Becomes(t) /\ UNCHANGED half
  BY DEF LinkDown, Becomes, Data, half
<1>2. Apart(Data, t)
  BY DataIs, SetChannel
<1> HIDE DEF t
<1>3. QED
  BY <1>1, <1>2, NoneMoves

\* Begin keeps the invariant.
LEMMA BeginKeeps ==
  ASSUME IInv, NEW o \in Ops, Begin(o)
  PROVE  IInv'
<1> DEFINE l == Later(Data, o, "begin")
           p == [op[o] EXCEPT !.begun = TRUE]
           r == [p EXCEPT !.ref = @ + 2]
           l1 == [l EXCEPT !.op[o] = p]
           t == [l1 EXCEPT !.op[o] = r]
<1>1. op[o].live /\ ~op[o].begun /\ ~op[o].finished /\ UNCHANGED half /\ "begin" \in Kinds
  BY KindsAre DEF Begin
<1>2. Data \in Blocks /\ Data.op = op /\ Data.due = due
  BY DataIs
<1>3. op[o].ref > 0 /\ ctl[o] # "idle"
  BY <1>1, ReferenceOf
<1>4. Moves(o, Data, l) /\ l.op = op /\ l.due[o] = [due[o] EXCEPT !["begin"] = @ + 1]
  <2>1. LET y == Later(Data, o, "begin")
        IN Moves(o, Data, y) /\ y.op = Data.op /\ y.due[o] = [Data.due[o] EXCEPT !["begin"] = @ + 1]
    BY <1>1, <1>2, LaterIs
  <2>2. QED
    BY <1>2, <2>1
<1>5. l \in Blocks /\ l.op = op
  <2> HIDE DEF l
  <2> QED
    BY <1>4, MovedAt
<1>6. /\ p \in Operations /\ p.begun /\ p.ref = op[o].ref /\ p.completes = op[o].completes
      /\ p.state = op[o].state /\ p.live = op[o].live /\ p.finished = op[o].finished
      /\ p.delayed = op[o].delayed /\ p.connectFailed = op[o].connectFailed
      /\ p.replies = op[o].replies
  <2>1. op[o] \in Operations
    BY OperationAt
  <2>2. QED
    BY <2>1 DEF Operations
<1>7. Moves(o, l, l1) /\ l1.due = l.due /\ l1.op[o] = p /\ l1 \in Blocks
  <2> HIDE DEF l, p
  <2>1. p.ref > 0 <=> l.op[o].ref > 0
    BY <1>5, <1>6
  <2>2. Moves(o, l, l1) /\ l1.due = l.due /\ l1.op[o] = p
    BY <1>5, <1>6, <2>1, SetOp
  <2> HIDE DEF l1
  <2>3. QED
    BY <2>2, MovedAt
<1>8. Becomes(t)
  <2>1. t = [Later(Data, o, "begin") EXCEPT !.op[o].begun = TRUE, !.op[o].ref = @ + 2]
    <3>1. l1 = [l EXCEPT !.op[o].begun = TRUE]
      <4> HIDE DEF l
      <4> QED
        BY <1>5
    <3>2. t = [l1 EXCEPT !.op[o].ref = @ + 2]
      <4> HIDE DEF l1, p
      <4> QED
        BY <1>7
    <3>3. QED
      <4> HIDE DEF t, l1
      <4> QED
        BY <3>1, <3>2, ZenonT(60)
  <2> HIDE DEF t
  <2>2. QED
    BY <2>1 DEF Begin
<1> HIDE DEF l, p
<1>9. Moves(o, l1, t) /\ t.due = l1.due /\ t.op[o] = r
  <2>1. r \in Operations /\ r.ref = p.ref + 2 /\ p.ref \in Int
    BY <1>6 DEF Operations
  <2>2. r.ref > 0 <=> l1.op[o].ref > 0
    BY <1>3, <1>6, <1>7, <2>1
  <2> HIDE DEF l1, r
  <2>3. QED
    BY <1>7, <2>1, <2>2, SetOp
<1>9a. /\ r.begun /\ r.ref = op[o].ref + 2 /\ r.completes = op[o].completes
       /\ r.state = op[o].state /\ r.live = op[o].live /\ r.finished = op[o].finished
       /\ r.delayed = op[o].delayed /\ r.connectFailed = op[o].connectFailed
       /\ r.replies = op[o].replies
  BY <1>6 DEF Operations
<1> HIDE DEF l1, t, r
<1>10. Moves(o, Data, t) /\ r \in Operations
  <2>1. Moves(o, Data, t)
    BY <1>4, <1>7, <1>9, Transitive
  <2>2. QED
    BY <1>9, <2>1, MovedAt
<1>11. Sound(r, t.due[o], ctl[o])
  <2>1. t.due[o] = [due[o] EXCEPT !["begin"] = @ + 1]
    BY <1>4, <1>7, <1>9
  <2>2. QED
    BY <1>1, <1>3, <1>9a, <1>10, <2>1, OperationAt, SoundBegin DEF SameCounts
<1>12. QED
  BY <1>1, <1>8, <1>9, <1>10, <1>11, OneMovesAlone

\* The operation p has been finished by the storage module.
Finishes(p, q) ==
  /\ q.finished /\ q.live = p.live /\ q.begun = p.begun
  /\ q.connectFailed = p.connectFailed /\ q.replies = p.replies /\ SameCounts(p, q)

\* A step that leaves the storage module's end in s as it is, or to come as j.
LEMMA FinishStep ==
  ASSUME IInv, NEW o \in Ops, op[o].live, ~op[o].finished,
         NEW s, Moves(o, Data, s), Finishes(op[o], s.op[o]),
         s.due[o] = due[o] \/ \E j \in {"end_read", "write_eof", "end"} : s.due[o] = [due[o] EXCEPT ![j] = @ + 1],
         \/ /\ op[o].state = "CONNECTED" /\ s.op[o].state \in {"FINISH", "FINISH_WITH_ERROR"}
            /\ s.op[o].delayed = op[o].delayed
         \/ /\ op[o].state \in {"CONNECT_CB", "CONNECTING"}
            /\ s.op[o].state \in {"FINISH", "FINISH_WITH_ERROR"}
            /\ s.op[o].delayed /\ s.due[o] = due[o]
         \/ /\ op[o].state \in {"ABORTING", "REQUESTING"} /\ s.op[o].state = "FINISH"
            /\ s.op[o].delayed = op[o].delayed
         \/ /\ op[o].state = "ABORT_CLOSING" /\ s.op[o].state = "FINISH"
            /\ s.op[o].delayed = op[o].delayed /\ s.due[o] = due[o],
         Becomes(s), UNCHANGED half
  PROVE  IInv'
<1>1. s.op[o] \in Operations /\ s.due[o] \in [Kinds -> Nat]
  BY MovedAt
<1>2. ctl[o] # "idle"
  BY ReferenceOf
<1>3. Sound(s.op[o], s.due[o], ctl[o])
  BY <1>1, <1>2, OperationAt, SoundFinish, ZenonT(60) DEF Finishes
<1>4. QED
  BY <1>3, OneMovesAlone

\* A finish that has to wait for the connection.
LEMMA DelayMoves ==
  ASSUME NEW s \in Blocks, NEW o \in Ops, NEW p, Finishes(p, s.op[o])
  PROVE  LET t == [s EXCEPT !.op[o].delayed = TRUE]
         IN /\ Moves(o, s, t) /\ t.due = s.due /\ Finishes(p, t.op[o]) /\ t.op[o].delayed = TRUE
            /\ t.op[o].state = s.op[o].state
<1> DEFINE r == [s.op[o] EXCEPT !.delayed = TRUE]
<1>1. r \in Operations /\ Finishes(p, r) /\ r.delayed = TRUE /\ r.state = s.op[o].state
      /\ (r.ref > 0 <=> s.op[o].ref > 0)
  <2>1. s.op[o] \in Operations
    BY BlockAt
  <2>2. QED
    BY <2>1 DEF Operations, SameCounts, Finishes
<1>2. [s EXCEPT !.op[o].delayed = TRUE] = [s EXCEPT !.op[o] = r]
  OBVIOUS
<1>3. QED
  <2> HIDE DEF r
  <2>1. r \in Operations /\ (r.ref > 0 <=> s.op[o].ref > 0)
    BY <1>1
  <2>2. LET t == [s EXCEPT !.op[o] = r]
        IN Moves(o, s, t) /\ t.due = s.due /\ t.op[o] = r
    BY <2>1, SetOp
  <2>3. QED
    BY <1>1, <1>2, <2>2

\* Until it is finished an operation is in one of the states of its beginning.
LEMMA UnfinishedState ==
  ASSUME IInv, NEW o \in Ops, ~op[o].finished
  PROVE  op[o].state \in {"REQUESTING", "CONNECTING", "CONNECT_CB", "CONNECTED", "ABORTING",
                          "ABORT_CLOSING"}
<1>1. op[o].state \in OpStates
  BY OperationAt DEF Operations
<1>2. op[o].state \notin Finishing
  BY OperationAt DEF Sound, Fits, Stage
<1>3. QED
  BY <1>1, <1>2 DEF OpStates, Finishing

\* Where the end goes, once it is noted in s.
Finished(s, o, good) ==
  CASE op[o].state = "CONNECTED" /\ good -> FinishConnected(s, o)
    [] op[o].state = "CONNECTED" /\ ~good ->
         CASE handle.state = "INUSE" -> [Later(s, o, "end") EXCEPT !.handle.state = "CLOSING"]
           [] handle.state \in {"CLOSED", "CLOSING"} -> s
           [] OTHER -> Must(s, FALSE)
    [] op[o].state \in {"CONNECT_CB", "CONNECTING"} -> [s EXCEPT !.op[o].delayed = TRUE]
    [] op[o].state \in {"ABORTING", "REQUESTING"} ->
         [Later(s, o, "end") EXCEPT
            !.handle.state = IF @ = "VALID" THEN "TE_VALID" ELSE @]
    [] op[o].state = "ABORT_CLOSING" -> s
    [] OTHER -> Must(s, FALSE)

\* Finish keeps the invariant.
LEMMA FinishKeeps ==
  ASSUME IInv, NEW o \in Ops, NEW good \in BOOLEAN, Finish(o, good)
  PROVE  IInv'
<1> DEFINE x == IF good \/ op[o].state \in {"REQUESTING", "ABORTING", "ABORT_CLOSING"}
                THEN "FINISH" ELSE "FINISH_WITH_ERROR"
           r1 == [op[o] EXCEPT !.finished = TRUE]
           r2 == [r1 EXCEPT !.failed = ~good]
           r == [r2 EXCEPT !.state = x]
           s == [Data EXCEPT !.op[o] = r]
           c == FinishConnected(s, o)
           l == Later(s, o, "end")
           e == [l EXCEPT !.handle.state = "CLOSING"]
           h == IF l.handle.state = "VALID" THEN "TE_VALID" ELSE l.handle.state
           g == [l EXCEPT !.handle.state = h]
           m == Must(s, FALSE)
           d == [s EXCEPT !.op[o].delayed = TRUE]
<1>1. op[o].live /\ ~op[o].finished /\ UNCHANGED half
  BY ZenonT(30) DEF Finish
<1>2. Data \in Blocks /\ Data.op = op /\ Data.due = due
  BY DataIs
<1>3. \/ op[o].state = "CONNECTED" /\ (Becomes(c) \/ Becomes(e) \/ Becomes(s) \/ Becomes(m))
      \/ op[o].state \in {"CONNECT_CB", "CONNECTING"} /\ Becomes(d)
      \/ op[o].state \in {"ABORTING", "REQUESTING"} /\ Becomes(g)
      \/ op[o].state = "ABORT_CLOSING" /\ Becomes(s)
  <2>1. s = [Data EXCEPT !.op[o].finished = TRUE, !.op[o].failed = ~good,
                         !.op[o].state = IF good \/ @ \in {"REQUESTING", "ABORTING", "ABORT_CLOSING"}
                                         THEN "FINISH" ELSE "FINISH_WITH_ERROR"]
    BY <1>2, ZenonT(60)
  <2> HIDE DEF s
  <2>2. op[o].state \in {"REQUESTING", "CONNECTING", "CONNECT_CB", "CONNECTED", "ABORTING",
                         "ABORT_CLOSING"}
    BY <1>1, UnfinishedState
  <2>3. Becomes(Finished(s, o, good))
    <3>1. Becomes(Finished([Data EXCEPT !.op[o].finished = TRUE, !.op[o].failed = ~good,
                                        !.op[o].state = IF good \/ @ \in {"REQUESTING", "ABORTING", "ABORT_CLOSING"}
                                                        THEN "FINISH" ELSE "FINISH_WITH_ERROR"], o, good))
      BY ZenonT(30) DEF Finish, Finished
    <3>2. QED
      BY <2>1, <3>1
  <2>4. Becomes(
          CASE op[o].state = "CONNECTED" /\ good -> c
            [] op[o].state = "CONNECTED" /\ ~good ->
                 CASE handle.state = "INUSE" -> e
                   [] handle.state \in {"CLOSED", "CLOSING"} -> s
                   [] OTHER -> m
            [] op[o].state \in {"CONNECT_CB", "CONNECTING"} -> d
            [] op[o].state \in {"ABORTING", "REQUESTING"} -> g
            [] op[o].state = "ABORT_CLOSING" -> s
            [] OTHER -> m)
    BY <2>3 DEF Finished
  <2> HIDE DEF g, c, l
  <2> HIDE DEF e, m, d
  <2>5. CASE op[o].state = "CONNECTED"
    <3>1. CASE good
      BY <2>4, <2>5, <3>1
    <3>2. CASE ~good
      BY <2>4, <2>5, <3>2
    <3>3. QED
      BY <2>5, <3>1, <3>2
  <2>6. CASE op[o].state \in {"CONNECT_CB", "CONNECTING"}
    BY <2>4, <2>6
  <2>7. CASE op[o].state \in {"ABORTING", "REQUESTING"}
    BY <2>4, <2>7
  <2>8. CASE op[o].state = "ABORT_CLOSING"
    BY <2>4, <2>8
  <2>9. QED
    BY <2>2, <2>5, <2>6, <2>7, <2>8
<1>4. /\ r \in Operations /\ Finishes(op[o], r) /\ r.delayed = op[o].delayed /\ r.state = x
      /\ (r.ref > 0 <=> op[o].ref > 0)
  <2>1. op[o] \in Operations /\ x \in OpStates
    BY OperationAt DEF OpStates
  <2> HIDE DEF x
  <2>2. r1 \in Operations /\ Finishes(op[o], r1) /\ r1.delayed = op[o].delayed
    BY <2>1 DEF Operations, Finishes, SameCounts
  <2> HIDE DEF r1
  <2>3. r2 \in Operations /\ Finishes(op[o], r2) /\ r2.delayed = op[o].delayed
    BY <2>2 DEF Operations, Finishes, SameCounts
  <2> HIDE DEF r2
  <2>4. QED
    BY <2>1, <2>3 DEF Operations, Finishes, SameCounts
<1> HIDE DEF r
<1>5. Moves(o, Data, s) /\ s.due = due /\ s.op[o] = r
  <2>1. LET y == [Data EXCEPT !.op[o] = r]
        IN Moves(o, Data, y) /\ y.due = Data.due /\ y.op[o] = r
    BY <1>2, <1>4, SetOp
  <2>2. QED
    BY <1>2, <2>1
<1> HIDE DEF s
<1>6. s \in Blocks
  BY <1>5, MovedAt
<1>7. Moves(o, s, c) /\ c.op = s.op
      /\ \E j \in {"end_read", "write_eof", "end"} : c.due[o] = [s.due[o] EXCEPT ![j] = @ + 1]
  BY <1>6, FinishConnectedIs
<1>8. Moves(o, s, l) /\ l.op = s.op /\ l.due[o] = [s.due[o] EXCEPT !["end"] = @ + 1]
  <2>1. "end" \in Kinds
    BY KindsAre
  <2>2. LET y == Later(s, o, "end")
        IN Moves(o, s, y) /\ y.op = s.op /\ y.due[o] = [s.due[o] EXCEPT !["end"] = @ + 1]
    BY <1>6, <2>1, LaterIs
  <2>3. QED
    BY <2>2
<1> HIDE DEF l
<1>9. l \in Blocks /\ "CLOSING" \in HandleStates /\ h \in HandleStates
  <2>1. l \in Blocks
    BY <1>8, MovedAt
  <2>2. l.handle.state \in HandleStates
    BY <2>1 DEF Blocks, Handles
  <2>3. QED
    BY <2>1, <2>2 DEF HandleStates
<1>10. Apart(l, e) /\ Apart(l, g) /\ Apart(s, m)
  <2> HIDE DEF h
  <2> QED
    BY <1>6, <1>9, HandleState, MustIs
<1>11. /\ Moves(o, s, d) /\ d.due = s.due /\ Finishes(op[o], d.op[o]) /\ d.op[o].delayed = TRUE
       /\ d.op[o].state = s.op[o].state
  <2>1. Finishes(op[o], s.op[o])
    BY <1>4, <1>5
  <2>2. QED
    BY <1>6, <2>1, DelayMoves
<1> HIDE DEF c, e, g, m, d
<1>12. x \in {"FINISH", "FINISH_WITH_ERROR"}
       /\ (op[o].state \in {"REQUESTING", "ABORTING", "ABORT_CLOSING"} => x = "FINISH")
  OBVIOUS
<1> HIDE DEF x
<1>13. ASSUME NEW t, Becomes(t), Moves(o, s, t), t.op = s.op,
              s.due[o] = t.due[o] \/ \E j \in {"end_read", "write_eof", "end"} : t.due[o] = [s.due[o] EXCEPT ![j] = @ + 1],
              \/ op[o].state \in {"CONNECTED", "ABORTING", "REQUESTING"}
              \/ op[o].state = "ABORT_CLOSING" /\ s.due[o] = t.due[o]
       PROVE  IInv'
  <2>1. Moves(o, Data, t)
    BY <1>5, <1>13, Transitive
  <2>2. Finishes(op[o], t.op[o]) /\ t.op[o].delayed = op[o].delayed /\ t.op[o].state = x
    BY <1>4, <1>5, <1>13
  <2>3. t.due[o] = due[o] \/ \E j \in {"end_read", "write_eof", "end"} : t.due[o] = [due[o] EXCEPT ![j] = @ + 1]
    BY <1>5, <1>13
  <2>4. op[o].state = "ABORT_CLOSING" => t.due[o] = due[o]
    BY <1>5, <1>13
  <2>5. QED
    BY <1>1, <1>12, <1>13, <2>1, <2>2, <2>3, <2>4, FinishStep
<1>14. CASE op[o].state \in {"CONNECT_CB", "CONNECTING"} /\ Becomes(d)
  <2>1. Moves(o, Data, d)
    BY <1>5, <1>11, Transitive
  <2>2. d.due[o] = due[o] /\ d.op[o].state \in {"FINISH", "FINISH_WITH_ERROR"}
    BY <1>4, <1>5, <1>11, <1>12
  <2>3. QED
    BY <1>1, <1>11, <1>14, <2>1, <2>2, FinishStep
<1>15. Moves(o, s, s) /\ (Moves(o, s, e) /\ e.op = s.op /\ e.due = l.due)
       /\ (Moves(o, s, g) /\ g.op = s.op /\ g.due = l.due)
       /\ (Moves(o, s, m) /\ m.op = s.op /\ m.due = s.due)
  <2>1. Moves(o, s, s)
    BY <1>6 DEF Moves
  <2>2. QED
    BY <1>8, <1>10, <2>1, Transitive DEF Apart
<1>16. CASE op[o].state = "CONNECTED" /\ Becomes(c)
  BY <1>7, <1>13, <1>16
<1>17. CASE op[o].state = "CONNECTED" /\ Becomes(e)
  BY <1>8, <1>13, <1>15, <1>17
<1>18. CASE op[o].state = "CONNECTED" /\ Becomes(m)
  BY <1>13, <1>15, <1>18
<1>19. CASE op[o].state \in {"CONNECTED", "ABORT_CLOSING"} /\ Becomes(s)
  BY <1>13, <1>15, <1>19
<1>20. CASE op[o].state \in {"ABORTING", "REQUESTING"} /\ Becomes(g)
  BY <1>8, <1>13, <1>15, <1>20
<1>21. QED
  BY <1>3, <1>14, <1>16, <1>17, <1>18, <1>19, <1>20

-----------------------------------------------------------------------------
(* The invariant holds, and what follows from it.                           *)

\* Initially nothing is on its way and the session is the control half's.
LEMMA InitHolds ==
  ASSUME Init
  PROVE  IInv
<1> DEFINE n == NewOp(FALSE)
           p == [n EXCEPT !.ref = 0]
           q == [p EXCEPT !.live = FALSE]
           z == [k \in Kinds |-> 0]
<1>1. /\ op = [o \in Ops |-> q] /\ due = [o \in Ops |-> z] /\ ctl = [o \in Ops |-> "idle"]
      /\ handle = [state |-> "VALID", outstanding |-> None, freed |-> FALSE]
      /\ session = [ref |-> 1, freed |-> FALSE, destroyCb |-> FALSE]
      /\ channel = "open" /\ broken = FALSE /\ object = "ready"
  BY DEF Init
<1>2. /\ q \in Operations /\ q.ref = 0 /\ ~q.live /\ q.state = "REQUESTING" /\ ~q.begun
      /\ ~q.finished /\ ~q.delayed /\ ~q.connectFailed /\ q.replies = 0 /\ q.completes = 0
  <2>1. /\ n \in Operations /\ n.state = "REQUESTING" /\ ~n.begun
        /\ ~n.finished /\ ~n.delayed /\ ~n.connectFailed /\ n.replies = 0 /\ n.completes = 0
    BY DEF NewOp, Operations, OpStates
  <2> HIDE DEF n
  <2>2. /\ p \in Operations /\ p.ref = 0 /\ p.state = "REQUESTING" /\ ~p.begun
        /\ ~p.finished /\ ~p.delayed /\ ~p.connectFailed /\ p.replies = 0 /\ p.completes = 0
    BY <2>1 DEF Operations
  <2> HIDE DEF p
  <2>3. QED
    BY <2>2 DEF Operations
<1> HIDE DEF q
<1>3. z \in [Kinds -> Nat] /\ \A k \in Kinds : z[k] = 0
  OBVIOUS
<1> HIDE DEF z
<1>4. Typed
  <2>1. op \in [Ops -> Operations] /\ due \in [Ops -> [Kinds -> Nat]] /\ ctl \in [Ops -> CtlStates]
    BY <1>1, <1>2, <1>3 DEF CtlStates
  <2>2. handle \in Handles /\ session \in Sessions
    BY <1>1 DEF Handles, HandleStates, Sessions
  <2>3. Data \in Blocks
    BY <1>1, <2>1, <2>2 DEF Data, Blocks
  <2>4. QED
    BY <1>1, <2>1, <2>3 DEF Typed
<1>5. OneAtATime
  BY <1>1 DEF OneAtATime
<1>6. SessionCounted
  <2>1. {o \in Ops : op[o].ref > 0} = {}
    BY <1>1, <1>2
  <2>2. Cardinality({o \in Ops : op[o].ref > 0}) = 0
    BY <2>1, FS_EmptySet
  <2>3. Balance(Data) = session.ref - One(session.destroyCb) - Cardinality({o \in Ops : op[o].ref > 0})
    BY DEF Balance, Data
  <2>4. session.ref = 1 /\ One(session.destroyCb) = 0 /\ One(object # "stopped") = 1
    BY <1>1 DEF One
  <2>5. QED
    BY <2>2, <2>3, <2>4 DEF SessionCounted
<1>7. Sound(q, z, "idle")
  <2> DEFINE t == Tally(z)
  <2>1. t = [begin |-> 0, connect |-> 0, abort |-> 0, end |-> 0, reply |-> 0, over |-> 0, marker |-> 0]
    BY <1>3, KindsAre DEF Tally
  <2> HIDE DEF t
  <2>2. Fits(q, t, "idle")
    BY <1>2, <2>1 DEF Fits, Stage, Begins, Aborts, Ends, Counted, RequestHolds, ControlHolds, One,
                      Finishing
  <2>3. QED
    BY <1>3, <2>2 DEF Sound, t
<1>8. \A o \in Ops : Sound(op[o], due[o], ctl[o])
  BY <1>1, <1>7
<1>9. QED
  BY <1>4, <1>5, <1>6, <1>8 DEF IInv

\* Every callback keeps the invariant.
LEMMA CallbackKeeps ==
  ASSUME IInv, NEW o \in Ops, Callback(o)
  PROVE  IInv'
<1>1. CASE \E k \in {"abort", "abort_now"} : AbortKickout(o, k)
  BY <1>1, AbortKickoutKeeps
<1>2. CASE \E k \in {"end", "end_now"} : EndTransfer(o, k)
  BY <1>2, EndTransferKeeps
<1>3. CASE BeginLocked(o) \/ BeginAborted(o) \/ BeginCb(o) \/ BeginCbEnds(o)
  BY <1>3, BeginLockedKeeps, BeginAbortedKeeps, BeginCbKeeps, BeginCbEndsKeeps
<1>4. CASE WriteEofCb(o) \/ SendEofCb(o) \/ EndReadKickout(o)
  BY <1>4, WriteEofCbKeeps, SendEofCbKeeps, EndReadKickoutKeeps
<1>5. CASE FinishFcCb(o) \/ AbortFcCb(o) \/ CompleteFcCb(o)
  BY <1>5, FinishFcCbKeeps, AbortFcCbKeeps, CompleteFcCbKeeps
<1>6. CASE EndTransferEnds(o) \/ TrevKickout(o) \/ TrevKickoutEnds(o) \/ PostTransferEvent(o)
  BY <1>6, EndTransferEndsKeeps, TrevKickoutKeeps, TrevKickoutEndsKeeps, PostTransferEventKeeps
<1>7. QED
  BY <1>1, <1>2, <1>3, <1>4, <1>5, <1>6 DEF Callback

\* So does a step in which nothing happens.
LEMMA Stutters ==
  ASSUME IInv, UNCHANGED vars
  PROVE  IInv'
<1>1. UNCHANGED <<op, handle, session, channel, due, broken, ctl, object>>
  BY DEF vars
<1>2. Typed' /\ SessionCounted' /\ OneAtATime'
  BY <1>1 DEF IInv, Typed, SessionCounted, OneAtATime, Data, Balance
<1>3. QED
  BY <1>1, <1>2 DEF IInv

\* Every step keeps the invariant.
LEMMA NextKeeps == IInv /\ [Next]_vars => IInv'
<1> SUFFICES ASSUME IInv, [Next]_vars
             PROVE  IInv'
  OBVIOUS
<1>1. ASSUME NEW o \in Ops, NEW writes \in BOOLEAN, Request(o, writes)
      PROVE  IInv'
  BY <1>1, RequestKeeps
<1>2. ASSUME NEW o \in Ops, NEW good \in BOOLEAN, Finish(o, good)
      PROVE  IInv'
  BY <1>2, FinishKeeps
<1>3. ASSUME NEW o \in Ops, Begin(o) \/ Abort(o) \/ Marker(o) \/ Complete(o) \/ Callback(o)
      PROVE  IInv'
  BY <1>3, BeginKeeps, AbortKeeps, MarkerKeeps, CompleteKeeps, CallbackKeeps
<1>4. CASE DestroyHandle \/ SessionStop \/ LinkDown \/ DestroyCb
  BY <1>4, DestroyHandleKeeps, SessionStopKeeps, LinkDownKeeps, DestroyCbKeeps
<1>5. CASE UNCHANGED vars
  BY <1>5, Stutters
<1>6. QED
  BY <1>1, <1>2, <1>3, <1>4, <1>5 DEF Next

\* The reference count of every operation is the number of those who will give
\* one back, and the session's that of its users: globus_l_gfs_data_operation_t.ref
\* and globus_l_gfs_data_session_t.ref, taken and dropped in a score of places.
LEMMA Inductive == Spec => []IInv
<1>1. Init => IInv
  BY InitHolds
<1>2. QED
  BY <1>1, NextKeeps, PTL DEF Spec

\* The reference counts never go below zero.
LEMMA TypeFollows ==
  ASSUME IInv
  PROVE  TypeOK
<1>1. /\ op \in [Ops -> Operations] /\ due \in [Ops -> [Kinds -> Nat]] /\ ctl \in [Ops -> CtlStates]
      /\ handle \in Handles /\ session \in Sessions
  BY DataIs
<1>2. \A o \in Ops : op[o].state \in OpStates /\ op[o].ref \in Nat
  <2> TAKE o \in Ops
  <2> DEFINE t == Tally(due[o])
  <2>1. op[o] \in Operations /\ t \in Tallies /\ Fits(op[o], t, ctl[o]) /\ ctl[o] \in CtlStates
    BY OperationAt, TallyIs DEF Sound
  <2> HIDE DEF t
  <2>2. op[o].ref \in Nat
    <3>1. CASE ctl[o] = "idle"
      BY <3>1, IdleIs
    <3>2. CASE ctl[o] # "idle"
      <4>1. op[o].ref = One(RequestHolds(op[o], t, ctl[o])) + One(ControlHolds(op[o], t, ctl[o]))
                        + One(op[o].connectFailed) + t.begin + t.connect + t.abort + t.marker
        BY <2>1, <3>2 DEF Fits, Counted
      <4>2. /\ One(RequestHolds(op[o], t, ctl[o])) \in Nat /\ One(ControlHolds(op[o], t, ctl[o])) \in Nat
            /\ One(op[o].connectFailed) \in Nat
        BY DEF One
      <4>3. t.begin \in Nat /\ t.connect \in Nat /\ t.abort \in Nat /\ t.marker \in Nat
        BY <2>1 DEF Tallies
      <4>4. QED
        BY <4>1, <4>2, <4>3
    <3>3. QED
      BY <3>1, <3>2
  <2>3. QED
    BY <2>1, <2>2 DEF Operations
<1>3. session.ref \in Nat
  <2>1. Cardinality({o \in Ops : op[o].ref > 0}) \in Nat
    <3>1. Cardinality({o \in Ops : Data.op[o].ref > 0}) \in Nat
      BY ReferencedFinite
    <3>2. QED
      BY <3>1, DataIs
  <2>2. session.ref - One(session.destroyCb) - Cardinality({o \in Ops : op[o].ref > 0}) =
          One(object # "stopped")
    BY DEF IInv, SessionCounted, Balance, Data
  <2>3. session.ref \in Int /\ One(session.destroyCb) \in Nat /\ One(object # "stopped") \in Nat
    BY <1>1 DEF Sessions, One
  <2> DEFINE n == Cardinality({o \in Ops : op[o].ref > 0})
  <2> HIDE DEF n
  <2>4. QED
    BY <2>1, <2>2, <2>3 DEF n
<1>4. DOMAIN op = Ops
  BY <1>1
<1>5. /\ handle.state \in HandleStates /\ handle.outstanding \in Ops \cup {None}
      /\ ctl \in [Ops -> {"idle", "busy", "aborted", "replied", "ended"}]
  BY <1>1 DEF Handles, CtlStates
<1>6. /\ channel \in {"open", "closing", "none"}
      /\ object \in {"ready", "inuse", "destroy_wait", "destroying", "gone", "stopped"}
  BY DEF IInv, Typed, Blocks, Data
<1>7. QED
  BY <1>1, <1>2, <1>3, <1>4, <1>5, <1>6 DEF TypeOK

\* An operation that has had its TRANSFER_COMPLETE has no reference left, so
\* nobody who would need one is on the way.
LEMMA LastFollows ==
  ASSUME IInv
  PROVE  CompleteIsLast
<1> SUFFICES ASSUME NEW o \in Ops
             PROVE  /\ op[o].replies <= 1 /\ op[o].completes <= 1
                    /\ op[o].completes = 1 =>
                         /\ op[o].finished /\ op[o].replies = 1 /\ op[o].ref = 0
                         /\ \A k \in Kinds \ {"post"} : due[o][k] = 0
  BY DEF CompleteIsLast
<1> DEFINE p == op[o]
           d == due[o]
           c == ctl[o]
           t == Tally(d)
<1>1. /\ p \in Operations /\ d \in [Kinds -> Nat] /\ c \in CtlStates
      /\ t \in Tallies /\ Fits(p, t, c)
  BY OperationAt, TallyIs DEF Sound
<1>2. t.begin + t.connect + t.abort + t.end + t.reply + t.over + t.marker = 0 =>
        \A k \in Kinds \ {"post"} : d[k] = 0
  <2> HIDE DEF d
  <2>1. \A k \in Kinds : d[k] \in Nat
    BY <1>1
  <2>2. /\ t.begin = d["begin"] + d["begin_abort"] /\ t.connect = d["begin_cb"] + d["begin_cb2"]
        /\ t.abort = d["abort"] + d["abort_fc"] + d["abort_now"]
        /\ t.end = d["end_read"] + d["write_eof"] + d["send_eof"] + d["finish_fc"] + d["end"] + d["end_now"]
        /\ t.reply = d["end2"] /\ t.over = d["complete_fc"] /\ t.marker = d["trev"] + d["trev2"]
    BY DEF Tally
  <2>3. HAVE t.begin + t.connect + t.abort + t.end + t.reply + t.over + t.marker = 0
  <2>4. /\ t.begin \in Nat /\ t.connect \in Nat /\ t.abort \in Nat /\ t.end \in Nat
        /\ t.reply \in Nat /\ t.over \in Nat /\ t.marker \in Nat
    BY <1>1 DEF Tallies
  <2> HIDE DEF t
  <2>5. /\ t.begin = 0 /\ t.connect = 0 /\ t.abort = 0 /\ t.end = 0
        /\ t.reply = 0 /\ t.over = 0 /\ t.marker = 0
    <3> DEFINE a == t.begin
               b == t.connect
               e == t.abort
               f == t.end
               g == t.reply
               h == t.over
               i == t.marker
    <3>1. a + b + e + f + g + h + i = 0
      BY <2>3
    <3>2. a \in Nat /\ b \in Nat /\ e \in Nat /\ f \in Nat /\ g \in Nat /\ h \in Nat /\ i \in Nat
      BY <2>4
    <3> HIDE DEF a, b, e, f, g, h, i
    <3>3. a = 0 /\ b = 0 /\ e = 0 /\ f = 0 /\ g = 0 /\ h = 0 /\ i = 0
      BY <3>1, <3>2
    <3>4. QED
      BY <3>3 DEF a, b, e, f, g, h, i
  <2>6. /\ d["begin"] = 0 /\ d["begin_abort"] = 0 /\ d["begin_cb"] = 0 /\ d["begin_cb2"] = 0
        /\ d["abort"] = 0 /\ d["abort_fc"] = 0 /\ d["abort_now"] = 0
        /\ d["end2"] = 0 /\ d["complete_fc"] = 0 /\ d["trev"] = 0 /\ d["trev2"] = 0
    <3>1. /\ d["begin"] \in Nat /\ d["begin_abort"] \in Nat /\ d["begin_cb"] \in Nat
          /\ d["begin_cb2"] \in Nat /\ d["abort"] \in Nat /\ d["abort_fc"] \in Nat
          /\ d["abort_now"] \in Nat /\ d["trev"] \in Nat /\ d["trev2"] \in Nat
      BY KindsAre, <2>1
    <3>2. /\ d["begin"] + d["begin_abort"] = 0 /\ d["begin_cb"] + d["begin_cb2"] = 0
          /\ d["abort"] + d["abort_fc"] + d["abort_now"] = 0
          /\ d["end2"] = 0 /\ d["complete_fc"] = 0 /\ d["trev"] + d["trev2"] = 0
      BY <2>2, <2>5
    <3> DEFINE a == d["begin"]
               b == d["begin_abort"]
               e == d["begin_cb"]
               f == d["begin_cb2"]
               g == d["trev"]
               h == d["trev2"]
    <3>3. /\ a + b = 0 /\ e + f = 0 /\ g + h = 0
          /\ a \in Nat /\ b \in Nat /\ e \in Nat /\ f \in Nat /\ g \in Nat /\ h \in Nat
      BY <3>1, <3>2
    <3> HIDE DEF a, b, e, f, g, h
    <3>4. a = 0 /\ b = 0 /\ e = 0 /\ f = 0 /\ g = 0 /\ h = 0
      BY <3>3
    <3>5. d["abort"] = 0 /\ d["abort_fc"] = 0 /\ d["abort_now"] = 0
      <4> DEFINE x == d["abort"]
                 y == d["abort_fc"]
                 z == d["abort_now"]
      <4>1. x + y + z = 0 /\ x \in Nat /\ y \in Nat /\ z \in Nat
        BY <3>1, <3>2
      <4> HIDE DEF x, y, z
      <4>2. x = 0 /\ y = 0 /\ z = 0
        BY <4>1
      <4>3. QED
        BY <4>2 DEF x, y, z
    <3>6. QED
      BY <3>2, <3>4, <3>5 DEF a, b, e, f, g, h
  <2>7. /\ d["end_read"] = 0 /\ d["write_eof"] = 0 /\ d["send_eof"] = 0
        /\ d["finish_fc"] = 0 /\ d["end"] = 0 /\ d["end_now"] = 0
    <3>1. /\ d["end_read"] \in Nat /\ d["write_eof"] \in Nat /\ d["send_eof"] \in Nat
          /\ d["finish_fc"] \in Nat /\ d["end"] \in Nat /\ d["end_now"] \in Nat
      BY KindsAre, <2>1
    <3>2. d["end_read"] + d["write_eof"] + d["send_eof"] + d["finish_fc"] + d["end"] + d["end_now"] = 0
      BY <2>2, <2>5
    <3> DEFINE a == d["end_read"]
               b == d["write_eof"]
               e == d["send_eof"]
               f == d["finish_fc"]
               g == d["end"]
               h == d["end_now"]
    <3>3. /\ a + b + e + f + g + h = 0
          /\ a \in Nat /\ b \in Nat /\ e \in Nat /\ f \in Nat /\ g \in Nat /\ h \in Nat
      BY <3>1, <3>2
    <3> HIDE DEF a, b, e, f, g, h
    <3>4. a = 0 /\ b = 0 /\ e = 0 /\ f = 0 /\ g = 0 /\ h = 0
      BY <3>3
    <3>5. QED
      BY <3>4 DEF a, b, e, f, g, h
  <2>8. QED
    BY KindsAre, <2>6, <2>7
<1> HIDE DEF p, d, c, t
<1>3. p.replies <= 1 /\ p.completes <= 1
  BY <1>1 DEF Fits, Stage, Counted
<1>4. ASSUME p.completes = 1
      PROVE  /\ p.finished /\ p.replies = 1 /\ p.ref = 0
             /\ t.begin + t.connect + t.abort + t.end + t.reply + t.over + t.marker = 0
  <2>1. p.ref = 0 /\ c # "idle"
    BY <1>1, <1>4 DEF Fits, Counted, Stage
  <2>2. /\ t.begin \in Nat /\ t.connect \in Nat /\ t.abort \in Nat /\ t.end \in Nat /\ t.reply \in Nat
        /\ t.over \in Nat /\ t.marker \in Nat
    BY <1>1 DEF Tallies
  <2>3. /\ One(RequestHolds(p, t, c)) \in Nat /\ One(ControlHolds(p, t, c)) \in Nat
        /\ One(p.connectFailed) \in Nat
    BY DEF One
  <2>4. p.ref = One(RequestHolds(p, t, c)) + One(ControlHolds(p, t, c)) + One(p.connectFailed)
                + t.begin + t.connect + t.abort + t.marker
    BY <1>1, <2>1 DEF Fits, Counted
  <2>5. /\ One(RequestHolds(p, t, c)) = 0 /\ One(ControlHolds(p, t, c)) = 0
        /\ t.begin = 0 /\ t.connect = 0 /\ t.abort = 0 /\ t.marker = 0
    <3> DEFINE x == One(RequestHolds(p, t, c))
               y == One(ControlHolds(p, t, c))
               w == One(p.connectFailed)
               a == t.begin
               b == t.connect
               e == t.abort
               f == t.marker
    <3>1. x + y + w + a + b + e + f = 0
      BY <2>1, <2>4
    <3>2. /\ x \in Nat /\ y \in Nat /\ w \in Nat
          /\ a \in Nat /\ b \in Nat /\ e \in Nat /\ f \in Nat
      BY <2>2, <2>3
    <3> HIDE DEF x, y, w, a, b, e, f
    <3>3. x = 0 /\ y = 0 /\ a = 0 /\ b = 0 /\ e = 0 /\ f = 0
      BY <3>1, <3>2
    <3>4. QED
      BY <3>3 DEF x, y, a, b, e, f
  <2>6. ~RequestHolds(p, t, c) /\ ~ControlHolds(p, t, c)
    BY <2>5 DEF One
  <2>7. p.replies = 1 /\ t.reply = 0
    BY <1>1, <2>1, <2>2, <2>6 DEF RequestHolds, Fits, Stage
  <2>8. t.over = 0
    BY <1>1, <2>2, <2>6 DEF ControlHolds, Fits, Counted, One
  <2>9. p.finished /\ t.end = 0
    BY <1>1, <2>2, <2>5, <2>7 DEF Fits, Ends
  <2>10. QED
    BY <2>1, <2>5, <2>7, <2>8, <2>9
<1>5. QED
  BY <1>2, <1>3, <1>4 DEF p, d

\* Every block of the data half holds what its declaration says, and no count
\* of references, of an operation (globus_l_gfs_data_operation_t.ref) or of the
\* session, ever goes below zero, whatever fails and in whatever order the
\* callbacks come.
THEOREM TypeCorrect == Spec => []TypeOK
<1>1. IInv => TypeOK
  BY TypeFollows
<1>2. QED
  BY <1>1, Inductive, PTL

\* A request is answered at most once; the storage module hears at most one
\* TRANSFER_COMPLETE, after it has finished and after the reply, and then no
\* callback of the transfer is on its way but the one that frees it
\* (globus_l_gfs_data_post_transfer_event_cb).
THEOREM CompleteLast == Spec => []CompleteIsLast
<1>1. IInv => CompleteIsLast
  BY LastFollows
<1>2. QED
  BY <1>1, Inductive, PTL
=============================================================================
