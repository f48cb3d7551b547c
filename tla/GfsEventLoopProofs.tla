------------------------- MODULE GfsEventLoopProofs -------------------------
(***************************************************************************)
(* Proofs about GfsData with all callbacks in one event loop, for every    *)
(* number of requests and markers and every set of faults: no assertion of *)
(* the data half fails, and each callback finds what it works on alive,    *)
(* until a client uses the channel of a transfer that has spoiled it.      *)
(* They add to IInv (GfsDataProofs), which counts references and           *)
(* callbacks, what the states of the blocks have to do with each other and *)
(* with what is on its way.                                                *)
(***************************************************************************)
EXTENDS GfsDataProofs

USE GfsAssumption DEF Ops, None

-----------------------------------------------------------------------------
(* One event loop: what the states of an operation, of the handle, of the   *)
(* channel and of the data object have to do with each other, and with what *)
(* is on its way.                                                           *)

OneLoop == ~Threads

\* Nothing but callbacks of these kinds is on its way.
Only(d, K) == \A k \in Kinds \ K : d[k] = 0

\* At most one of the callbacks of these kinds is.
OneOf(d, K) == \A k \in K : d[k] > 0 => d[k] = 1 /\ \A l \in K \ {k} : d[l] = 0

\* A request the control half has had no answer to, with its handle's state h
\* and its channel ch: where the connection is, what may still come of it, and
\* what the end of the transfer or its abort has left of the handle.
Unconnected == {"REQUESTING", "CONNECTING", "CONNECT_CB"}
Connection(p, d, h, ch) ==
  /\ p.state \in Unconnected \cup {"CONNECTED"} \/ ~p.begun => h = "INUSE"
  /\ p.state \in {"REQUESTING", "ABORTING", "CONNECTED"} => d["begin_cb"] = 0 /\ d["begin_cb2"] = 0
  /\ p.state = "CONNECTING" => d["begin_cb"] > 0
  /\ p.state = "CONNECT_CB" => d["begin_cb2"] > 0
  /\ d["begin"] > 0 => p.state \in {"REQUESTING", "ABORTING"}
  /\ d["begin_cb"] > 0 => ch # "none"
  /\ d["begin_cb"] > 0 \/ d["begin_cb2"] > 0 =>
       p.state \in {"CONNECTING", "CONNECT_CB"} \/ d["abort_fc"] > 0 \/ (p.delayed /\ h = "INUSE")
  /\ ~p.begun => p.state \in {"REQUESTING", "FINISH"} /\ Only(d, {"end"})
  /\ p.connectFailed => /\ h = "CLOSING" /\ ch = "none"
                        /\ p.state \in {"ABORT_CLOSING", "ABORTING", "FINISH"}

Asked(p, d, h, ch) ==
  /\ p.hasHandle /\ ~p.freeHandle
  /\ h \in {"INUSE", "CLOSING", "TE_PRE_CLOSED"} /\ (ch = "closing" => h = "CLOSING")
  /\ Connection(p, d, h, ch)
  /\ d["end_read"] > 0 \/ d["write_eof"] > 0 \/ d["send_eof"] > 0 => h = "INUSE"
  /\ p.state = "ABORT_CLOSING" => d["abort"] > 0 \/ d["abort_fc"] > 0 \/ d["abort_now"] > 0
  /\ d["abort_now"] > 0 => h = "TE_PRE_CLOSED"
  /\ d["trev"] > 0 \/ d["trev2"] > 0 => p.state \notin Unconnected
  /\ d["abort_now"] > 0 \/ d["end_now"] > 0 => d["trev"] = 0
  /\ p.state = "FINISH_WITH_ERROR" => p.failed /\ (h = "INUSE" => p.delayed)

\* One that has been answered, before the control half ends it: the answer told
\* what is left of the handle, and the data object ob was made ready or not.
Answered(p, d, h, ob) ==
  /\ p.hasHandle /\ ~p.freeHandle
  /\ Only(d, {"end2"})
  /\ h \in {"TE_VALID", "CLOSING", "TE_PRE_CLOSED"} /\ (h = "TE_PRE_CLOSED" => d["end2"] > 0)
  /\ ob = IF h = "TE_VALID" THEN "ready" ELSE "destroy_wait"
  /\ p.state = "FINISH_WITH_ERROR" => p.failed /\ (h = "TE_VALID" => p.delayed)
  /\ p.connectFailed => h = "CLOSING" /\ p.state = "FINISH"

\* One that has ended: its last callback finds the handle, or has freed it.
Ended(p, d, h, ob) ==
  /\ ~p.freeHandle
  /\ Only(d, {"end2", "post", "complete_fc"})
  /\ OneOf(d, {"end2", "post", "complete_fc"})
  /\ d["end2"] > 0 => p.hasHandle /\ ~p.begun /\ h = "TE_VALID" /\ ob = "ready"
  /\ d["complete_fc"] > 0 =>
       /\ p.hasHandle /\ p.failed /\ p.state = "COMPLETING" /\ ~p.connectFailed
       /\ ob = "ready" => p.delayed
       /\ \/ ob \in {"ready", "destroying"} /\ h = "CLOSING"
          \/ ob \in {"gone", "stopped"} /\ h = "CLOSING_AND_DESTROYED"
  /\ d["post"] > 0 =>
       IF p.hasHandle
         THEN \/ h = "TE_VALID" /\ ob = "ready"
              \/ /\ h = "TE_PRE_CLOSED"
                 /\ ob = "destroying" \/ (ob = "ready" /\ p.failed /\ p.delayed)
              \/ h = "CLOSING" /\ ob = "destroying"
         ELSE h = "CLOSING_AND_DESTROYED" /\ ob \in {"gone", "stopped"}

\* A handle nothing is on its way for; lost: some transfer has spoiled
\* its channel.
Resting(h, ob, lost) ==
  \/ ob = "ready" /\ (h = "VALID" \/ (h = "CLOSED" /\ lost))
  \/ ob = "destroying" /\ h \in {"CLOSING", "CLOSED"}
  \/ ob \in {"gone", "stopped"} /\ h \in {"CLOSING_AND_DESTROYED", "CLOSED_AND_DESTROYED"}

\* The close of a channel has one callback on its way; a handle that is freed,
\* or that the callback of its own close will free, belongs to nobody any more,
\* and neither does a session.
Released(d, h, x, ch, ob) ==
  /\ ch = "closing" <=> \/ d["finish_fc"] > 0 \/ d["abort_fc"] > 0 \/ d["complete_fc"] > 0
                        \/ x.destroyCb
  /\ x.destroyCb => d["complete_fc"] = 0
  /\ h.freed \/ x.destroyCb => h.state = "CLOSING_AND_DESTROYED" /\ ob \in {"gone", "stopped"}
  /\ h.freed => ch = "none"
  /\ x.freed => x.ref = 0 /\ d["post"] = 0

\* All of it, for the operation the handle names.
Course(p, d, c, h, x, ch, ob, lost) ==
  /\ c # "idle" /\ OneOf(d, Rest)
  /\ p.ref > 0 => p.live /\ d["post"] = 0
  /\ d["post"] > 0 => p.live /\ (p.freeSession => x.ref = 0)
  /\ Released(d, h, x, ch, ob)
  /\ c \in {"busy", "aborted"} => Asked(p, d, h.state, ch)
  /\ c = "replied" => Answered(p, d, h.state, ob)
  /\ c = "ended" => /\ Ended(p, d, h.state, ob)
                    /\ Only(d, {}) => Resting(h.state, ob, lost)

Nothing == [k \in Kinds |-> 0]
Lost == \E q \in Ops : ctl[q] = "ended" /\ Spoiled(q)

\* Every other operation has not come or is over, and they come in order.
Others(o) == \A q \in Ops \ {o} : ctl[q] \in {"idle", "ended"} /\ due[q] = Nothing
InOrder == \A q \in Ops : ctl[q] # "idle" => \A r \in 1..(q - 1) : ctl[r] = "ended"

Named == handle.outstanding
OnCourse ==
  /\ ~broken /\ InOrder /\ Others(Named)
  /\ Named \in Ops =>
       Course(op[Named], due[Named], ctl[Named], handle, session, channel, object, Lost)
  /\ Named = None => /\ Resting(handle.state, object, Lost)
                     /\ Released(Nothing, handle, session, channel, object)

-----------------------------------------------------------------------------
(* What the locked regions make of the blocks, field by field.              *)

\* In s operation o and what is on its way for it are p and d, the rest is as given.
Has(s, o, p, d, h, x, ch, b) ==
  /\ s \in Blocks /\ s.op[o] = p /\ s.due[o] = d /\ s.handle = h /\ s.session = x
  /\ s.channel = ch /\ s.broken = b
  /\ \A q \in Ops \ {o} : s.op[q] = op[q] /\ s.due[q] = due[q]

\* What the blocks are made of.
LEMMA HasTypes ==
  ASSUME NEW s, NEW o \in Ops, NEW p, NEW d, NEW h, NEW x, NEW ch, NEW b,
         Has(s, o, p, d, h, x, ch, b)
  PROVE  /\ s \in Blocks /\ s.op \in [Ops -> Operations] /\ s.due \in [Ops -> [Kinds -> Nat]]
         /\ p \in Operations /\ d \in [Kinds -> Nat] /\ h \in Handles /\ x \in Sessions
         /\ b \in BOOLEAN
<1>1. s \in Blocks /\ s.op \in [Ops -> Operations] /\ s.due \in [Ops -> [Kinds -> Nat]]
  BY DEF Has, Blocks
<1>2. QED
  BY <1>1 DEF Has, Blocks

\* One of the blocks is replaced.
LEMMA PutOp ==
  ASSUME NEW s, NEW o \in Ops, NEW p, NEW d, NEW h, NEW x, NEW ch, NEW b,
         Has(s, o, p, d, h, x, ch, b), NEW q \in Operations
  PROVE  Has([s EXCEPT !.op[o] = q], o, q, d, h, x, ch, b)
<1>1. [s.op EXCEPT ![o] = q] \in [Ops -> Operations]
  BY HasTypes
<1>2. QED
  BY <1>1, HasTypes DEF Has, Blocks

\* Another.
LEMMA PutDue ==
  ASSUME NEW s, NEW o \in Ops, NEW p, NEW d, NEW h, NEW x, NEW ch, NEW b,
         Has(s, o, p, d, h, x, ch, b), NEW e \in [Kinds -> Nat]
  PROVE  Has([s EXCEPT !.due[o] = e], o, p, e, h, x, ch, b)
<1>1. [s.due EXCEPT ![o] = e] \in [Ops -> [Kinds -> Nat]]
  BY HasTypes
<1>2. QED
  BY <1>1, HasTypes DEF Has, Blocks

\* Another.
LEMMA PutHandle ==
  ASSUME NEW s, NEW o \in Ops, NEW p, NEW d, NEW h, NEW x, NEW ch, NEW b,
         Has(s, o, p, d, h, x, ch, b), NEW g \in Handles
  PROVE  Has([s EXCEPT !.handle = g], o, p, d, g, x, ch, b)
BY HasTypes DEF Has, Blocks

\* Another.
LEMMA PutSession ==
  ASSUME NEW s, NEW o \in Ops, NEW p, NEW d, NEW h, NEW x, NEW ch, NEW b,
         Has(s, o, p, d, h, x, ch, b), NEW y \in Sessions
  PROVE  Has([s EXCEPT !.session = y], o, p, d, h, y, ch, b)
BY HasTypes DEF Has, Blocks

\* Another.
LEMMA PutChannel ==
  ASSUME NEW s, NEW o \in Ops, NEW p, NEW d, NEW h, NEW x, NEW ch, NEW b,
         Has(s, o, p, d, h, x, ch, b), NEW l \in {"open", "closing", "none"}
  PROVE  Has([s EXCEPT !.channel = l], o, p, d, h, x, l, b)
BY HasTypes DEF Has, Blocks

\* Another.
LEMMA PutBroken ==
  ASSUME NEW s, NEW o \in Ops, NEW p, NEW d, NEW h, NEW x, NEW ch, NEW b,
         Has(s, o, p, d, h, x, ch, b), NEW v \in BOOLEAN
  PROVE  Has([s EXCEPT !.broken = v], o, p, d, h, x, ch, v)
BY HasTypes DEF Has, Blocks

\* Nothing is replaced yet.
LEMMA DataHas ==
  ASSUME Typed, NEW o \in Ops
  PROVE  Has(Data, o, op[o], due[o], handle, session, channel, broken)
BY DEF Typed, Data, Has

\* A callback that was due runs.
LEMMA TakenHas ==
  ASSUME Typed, NEW o \in Ops, NEW k \in Kinds, due[o][k] > 0
  PROVE  Has(Taken(k, o), o, op[o], [due[o] EXCEPT ![k] = @ - 1], handle, session, channel, broken)
<1> DEFINE d == [due[o] EXCEPT ![k] = @ - 1]
<1>1. Has(Data, o, op[o], due[o], handle, session, channel, broken)
  BY DataHas
<1>2. d \in [Kinds -> Nat]
  <2>1. due[o] \in [Kinds -> Nat]
    BY <1>1, HasTypes
  <2>2. due[o][k] - 1 \in Nat
    BY <2>1
  <2>3. QED
    BY <2>1, <2>2
<1>3. Taken(k, o) = [Data EXCEPT !.due[o] = d]
  <2>1. Data.due = due
    BY DEF Data
  <2>2. QED
    BY <2>1 DEF Taken
<1>4. QED
  <2> HIDE DEF d
  <2>1. Has([Data EXCEPT !.due[o] = d], o, op[o], d, handle, session, channel, broken)
    BY <1>1, <1>2, PutDue
  <2>2. QED
    BY <1>3, <2>1 DEF d

\* A callback is registered.
LEMMA LaterHas ==
  ASSUME NEW s, NEW o \in Ops, NEW p, NEW d, NEW h, NEW x, NEW ch, NEW b,
         Has(s, o, p, d, h, x, ch, b), NEW k \in Kinds
  PROVE  Has(Later(s, o, k), o, p, [d EXCEPT ![k] = @ + 1], h, x, ch, b)
<1> DEFINE e == [d EXCEPT ![k] = @ + 1]
<1>1. e \in [Kinds -> Nat]
  <2>1. d \in [Kinds -> Nat]
    BY HasTypes
  <2>2. QED
    BY <2>1
<1>2. Later(s, o, k) = [s EXCEPT !.due[o] = e]
  <2>1. s.due[o] = d
    BY DEF Has
  <2>2. QED
    BY <2>1 DEF Later
<1>3. QED
  <2> HIDE DEF e
  <2>1. Has([s EXCEPT !.due[o] = e], o, p, e, h, x, ch, b)
    BY <1>1, PutDue
  <2>2. QED
    BY <1>2, <2>1 DEF e

\* A reference is taken.
LEMMA KeptHas ==
  ASSUME NEW s, NEW o \in Ops, NEW p, NEW d, NEW h, NEW x, NEW ch, NEW b,
         Has(s, o, p, d, h, x, ch, b)
  PROVE  Has(Kept(s, o), o, [p EXCEPT !.ref = @ + 1], d, h, x, ch, b)
<1> DEFINE q == [p EXCEPT !.ref = @ + 1]
<1>1. q \in Operations
  <2>1. p \in Operations
    BY HasTypes
  <2>2. QED
    BY <2>1 DEF Operations
<1>2. Kept(s, o) = [s EXCEPT !.op[o] = q]
  <2>1. s.op[o] = p
    BY DEF Has
  <2>2. QED
    BY <2>1 DEF Kept
<1>3. QED
  <2> HIDE DEF q
  <2>1. Has([s EXCEPT !.op[o] = q], o, q, d, h, x, ch, b)
    BY <1>1, PutOp
  <2>2. QED
    BY <1>2, <2>1 DEF q

\* An assertion that holds, and one that may not.
LEMMA MustHas ==
  ASSUME NEW s, NEW o \in Ops, NEW p, NEW d, NEW h, NEW x, NEW ch, NEW b,
         Has(s, o, p, d, h, x, ch, b), NEW c
  PROVE  /\ Has(Must(s, c), o, p, d, h, x, ch, b \/ ~c)
         /\ c => Has(Must(s, c), o, p, d, h, x, ch, b)
<1> DEFINE v == b \/ ~c
<1>1. v \in BOOLEAN /\ b \in BOOLEAN /\ (c => v = b)
  <2>1. b \in BOOLEAN
    BY HasTypes
  <2>2. QED
    BY <2>1
<1>2. Must(s, c) = [s EXCEPT !.broken = v]
  <2>1. s.broken = b
    BY DEF Has
  <2>2. QED
    BY <2>1 DEF Must
<1>3. Has(Must(s, c), o, p, d, h, x, ch, v)
  <2> HIDE DEF v
  <2>1. Has([s EXCEPT !.broken = v], o, p, d, h, x, ch, v)
    BY <1>1, PutBroken
  <2>2. QED
    BY <1>2, <2>1
<1>4. QED
  BY <1>1, <1>3

\* The operation's state changes.
LEMMA StateHas ==
  ASSUME NEW s, NEW o \in Ops, NEW p, NEW d, NEW h, NEW x, NEW ch, NEW b,
         Has(s, o, p, d, h, x, ch, b), NEW v \in OpStates
  PROVE  Has([s EXCEPT !.op[o].state = v], o, [p EXCEPT !.state = v], d, h, x, ch, b)
<1> DEFINE q == [p EXCEPT !.state = v]
<1>1. q \in Operations
  <2>1. p \in Operations
    BY HasTypes
  <2>2. QED
    BY <2>1 DEF Operations
<1>2. [s EXCEPT !.op[o].state = v] = [s EXCEPT !.op[o] = q]
  <2>1. s.op[o] = p
    BY DEF Has
  <2>2. QED
    BY <2>1
<1>3. QED
  <2> HIDE DEF q
  <2>1. Has([s EXCEPT !.op[o] = q], o, q, d, h, x, ch, b)
    BY <1>1, PutOp
  <2>2. QED
    BY <1>2, <2>1 DEF q

\* The handle's state changes.
LEMMA HandleHas ==
  ASSUME NEW s, NEW o \in Ops, NEW p, NEW d, NEW h, NEW x, NEW ch, NEW b,
         Has(s, o, p, d, h, x, ch, b), NEW v \in HandleStates
  PROVE  Has([s EXCEPT !.handle.state = v], o, p, d, [h EXCEPT !.state = v], x, ch, b)
<1> DEFINE g == [h EXCEPT !.state = v]
<1>1. s.handle = h /\ h \in Handles
  BY HasTypes DEF Has
<1>2. g \in Handles
  BY <1>1 DEF Handles
<1>3. [s EXCEPT !.handle.state = v] = [s EXCEPT !.handle = g]
  BY <1>1
<1>4. Has([s EXCEPT !.handle = g], o, p, d, g, x, ch, b)
  <2> HIDE DEF g
  <2> QED
    BY <1>2, PutHandle
<1>5. QED
  BY <1>3, <1>4

\* The handle is freed.
LEMMA FreedHas ==
  ASSUME NEW s, NEW o \in Ops, NEW p, NEW d, NEW h, NEW x, NEW ch, NEW b,
         Has(s, o, p, d, h, x, ch, b)
  PROVE  Has([s EXCEPT !.handle.freed = TRUE], o, p, d, [h EXCEPT !.freed = TRUE], x, ch, b)
<1> DEFINE g == [h EXCEPT !.freed = TRUE]
<1>1. s.handle = h /\ h \in Handles
  BY HasTypes DEF Has
<1>2. g \in Handles
  BY <1>1 DEF Handles
<1>3. [s EXCEPT !.handle.freed = TRUE] = [s EXCEPT !.handle = g]
  BY <1>1
<1>4. Has([s EXCEPT !.handle = g], o, p, d, g, x, ch, b)
  <2> HIDE DEF g
  <2> QED
    BY <1>2, PutHandle
<1>5. QED
  BY <1>3, <1>4

\* The handle forgets its operation.
LEMMA ForgetHas ==
  ASSUME NEW s, NEW o \in Ops, NEW p, NEW d, NEW h, NEW x, NEW ch, NEW b,
         Has(s, o, p, d, h, x, ch, b)
  PROVE  Has([s EXCEPT !.handle.outstanding = None], o, p, d, [h EXCEPT !.outstanding = None], x, ch, b)
<1> DEFINE g == [h EXCEPT !.outstanding = None]
<1>1. s.handle = h /\ h \in Handles
  BY HasTypes DEF Has
<1>2. g \in Handles
  BY <1>1 DEF Handles
<1>3. [s EXCEPT !.handle.outstanding = None] = [s EXCEPT !.handle = g]
  BY <1>1
<1>4. Has([s EXCEPT !.handle = g], o, p, d, g, x, ch, b)
  <2> HIDE DEF g
  <2> QED
    BY <1>2, PutHandle
<1>5. QED
  BY <1>3, <1>4

\* GFSDataOpDec; left for the session by the last one.
Less(p) == [p EXCEPT !.ref = @ - 1]
Lesser(x) == [x EXCEPT !.ref = @ - 1]
Over1(p, x) == [p EXCEPT !.ref = 0, !.freeSession = (x.ref - 1 = 0),
                        !.completes = @ + One(p.begun)]

\* A reference is given back that was not the last.
LEMMA DecrementHas ==
  ASSUME NEW s, NEW o \in Ops, NEW p, NEW d, NEW h, NEW x, NEW ch, NEW b,
         Has(s, o, p, d, h, x, ch, b), p.ref # 1
  PROVE  Has(Decrement(s, o), o, Less(p), d, h, x, ch, b)
<1>1. s.op[o] = p /\ p \in Operations
  BY HasTypes DEF Has
<1>2. Less(p) \in Operations
  BY <1>1 DEF Operations, Less
<1>3. Decrement(s, o) = [s EXCEPT !.op[o] = Less(p)]
  BY <1>1 DEF Decrement, Less
<1>4. QED
  BY <1>2, <1>3, PutOp

\* The last reference is given back.
LEMMA LastHas ==
  ASSUME NEW s, NEW o \in Ops, NEW p, NEW d, NEW h, NEW x, NEW ch, NEW b,
         Has(s, o, p, d, h, x, ch, b), p.ref = 1
  PROVE  /\ Has(Decrement(s, o), o, Over1(p, x), [d EXCEPT !["post"] = @ + 1], h, Lesser(x), ch, b)
         /\ Last(Decrement(s, o), o)
<1> DEFINE left == s.session.ref - 1
           e == [d EXCEPT !["post"] = @ + 1]
           a0 == Later(s, o, "post")
           a1 == [a0 EXCEPT !.op[o].ref = 0]
           a2 == [a1 EXCEPT !.session.ref = left]
           a3 == [a2 EXCEPT !.op[o].freeSession = (left = 0)]
           a4 == [a3 EXCEPT !.op[o].completes = @ + (IF s.op[o].begun THEN 1 ELSE 0)]
           q1 == [p EXCEPT !.ref = 0]
           q2 == [q1 EXCEPT !.freeSession = (left = 0)]
           q3 == [q2 EXCEPT !.completes = @ + One(p.begun)]
<1>1. s.op[o] = p /\ s.session = x /\ p \in Operations /\ x \in Sessions /\ "post" \in Kinds
  BY HasTypes, KindsAre DEF Has
<1>2. q1 \in Operations /\ Lesser(x) \in Sessions
  BY <1>1 DEF Operations, Sessions, Lesser
<1>3. q2 \in Operations
  <2>1. (left = 0) \in BOOLEAN
    OBVIOUS
  <2>2. QED
    <3> HIDE DEF q1
    <3> QED
      BY <1>2, <2>1, ZenonT(60) DEF Operations
<1>4. q3 \in Operations
  <2> HIDE DEF q2
  <2> QED
    BY <1>3 DEF Operations, One
<1>5. q3 = Over1(p, x)
  BY <1>1 DEF Over1
<1>6. Decrement(s, o) = a4
  BY <1>1, ZenonT(60) DEF Decrement, SessionLeft
<1>7. Has(a0, o, p, e, h, x, ch, b)
  BY <1>1, LaterHas
<1>8. Has(a1, o, q1, e, h, x, ch, b)
  <2> HIDE DEF a0, e, q1
  <2>1. a0.op[o] = p
    BY <1>7 DEF Has
  <2>2. a1 = [a0 EXCEPT !.op[o] = q1]
    BY <2>1 DEF q1
  <2>3. Has([a0 EXCEPT !.op[o] = q1], o, q1, e, h, x, ch, b)
    BY <1>2, <1>7, PutOp
  <2>4. QED
    BY <2>2, <2>3
<1>9. Has(a2, o, q1, e, h, Lesser(x), ch, b)
  <2> HIDE DEF a1, e, q1
  <2>1. a1.session = x
    BY <1>8 DEF Has
  <2>2. a2 = [a1 EXCEPT !.session = Lesser(x)]
    BY <1>1, <2>1 DEF Lesser
  <2>3. Has([a1 EXCEPT !.session = Lesser(x)], o, q1, e, h, Lesser(x), ch, b)
    BY <1>2, <1>8, PutSession
  <2>4. QED
    BY <2>2, <2>3
<1>10. Has(a3, o, q2, e, h, Lesser(x), ch, b)
  <2> HIDE DEF a2, e, q1, q2
  <2>1. a2.op[o] = q1
    BY <1>9 DEF Has
  <2>2. a3 = [a2 EXCEPT !.op[o] = q2]
    BY <2>1 DEF q2
  <2>3. Has([a2 EXCEPT !.op[o] = q2], o, q2, e, h, Lesser(x), ch, b)
    BY <1>3, <1>9, PutOp
  <2>4. QED
    BY <2>2, <2>3
<1>11. Has(a4, o, q3, e, h, Lesser(x), ch, b)
  <2>1. q2.begun = p.begun
    BY <1>1, <1>2, ZenonT(60) DEF Operations
  <2> HIDE DEF a3, e, q2, q3
  <2>2. a3.op[o] = q2
    BY <1>10 DEF Has
  <2>3. a4 = [a3 EXCEPT !.op[o] = q3]
    BY <1>1, <2>1, <2>2 DEF q3, One
  <2>4. Has([a3 EXCEPT !.op[o] = q3], o, q3, e, h, Lesser(x), ch, b)
    BY <1>4, <1>10, PutOp
  <2>5. QED
    BY <2>3, <2>4
<1>12. q3.ref = 0
  <2>1. q1.ref = 0
    BY <1>1 DEF Operations
  <2>2. q2.ref = 0
    <3> HIDE DEF q1
    <3> QED
      BY <1>2, <2>1, ZenonT(60) DEF Operations
  <2>3. QED
    <3> HIDE DEF q2
    <3> QED
      BY <1>3, <2>2 DEF Operations
<1>13. QED
  <2> HIDE DEF a4, q3
  <2> QED
    BY <1>5, <1>6, <1>11, <1>12 DEF Has, Last

\* Not the last reference: the assertion its callers make is not reached.
LEMMA ReleaseHas ==
  ASSUME NEW s, NEW o \in Ops, NEW p, NEW d, NEW h, NEW x, NEW ch, NEW b,
         Has(s, o, p, d, h, x, ch, b), p.ref # 1, p.ref # 0
  PROVE  Has(Release(s, o), o, Less(p), d, h, x, ch, b) /\ ~Last(Decrement(s, o), o)
<1>1. Has(Decrement(s, o), o, Less(p), d, h, x, ch, b)
  BY DecrementHas
<1>2. Less(p).ref = p.ref - 1 /\ p.ref \in Int
  <2>1. p \in Operations
    BY HasTypes
  <2>2. QED
    BY <2>1 DEF Operations, Less
<1>3. ~Last(Decrement(s, o), o)
  BY <1>1, <1>2 DEF Has, Last
<1>4. QED
  BY <1>1, <1>3 DEF Release

\* The last one finds the transfer complete.
LEMMA ReleaseLast ==
  ASSUME NEW s, NEW o \in Ops, NEW p, NEW d, NEW h, NEW x, NEW ch, NEW b,
         Has(s, o, p, d, h, x, ch, b), p.ref = 1, p.state = "COMPLETING", h.state # "TE_PRE_AND_DESTROYED"
  PROVE  Has(Release(s, o), o, Over1(p, x), [d EXCEPT !["post"] = @ + 1], h, Lesser(x), ch, b)
<1> DEFINE t == Decrement(s, o)
           e == [d EXCEPT !["post"] = @ + 1]
<1>1. Has(t, o, Over1(p, x), e, h, Lesser(x), ch, b) /\ Last(t, o)
  BY LastHas
<1>2. Over1(p, x).state = "COMPLETING"
  <2>1. p \in Operations
    BY HasTypes
  <2>2. QED
    BY <2>1 DEF Operations, Over1
<1>3. Has(Must(t, t.op[o].state = "COMPLETING"), o, Over1(p, x), e, h, Lesser(x), ch, b)
  <2> HIDE DEF t, e
  <2>1. t.op[o].state = "COMPLETING"
    BY <1>1, <1>2 DEF Has
  <2>2. QED
    BY <1>1, <2>1, MustHas
<1>4. QED
  <2> DEFINE m == Must(t, t.op[o].state = "COMPLETING")
  <2>1. Release(s, o) = Check(m)
    BY <1>1 DEF Release
  <2>2. m.handle = h
    BY <1>3 DEF Has
  <2>3. Check(m) = m
    <3> HIDE DEF m
    <3> QED
      BY <2>2 DEF Check
  <2>4. QED
    BY <1>3, <2>1, <2>3

\* The destroyed handle is freed unless its channel is there.
LEMMA FreeHandleHas ==
  ASSUME NEW s, NEW o \in Ops, NEW p, NEW d, NEW h, NEW x, NEW ch, NEW b,
         Has(s, o, p, d, h, x, ch, b), h.state = "CLOSING_AND_DESTROYED", ~h.freed
  PROVE  Has(FreeHandle(s), o, p, d, IF ch = "none" THEN [h EXCEPT !.freed = TRUE] ELSE h, x, ch, b)
<1> DEFINE c == /\ s.handle.state \in {"CLOSING_AND_DESTROYED", "CLOSED_AND_DESTROYED"}
                /\ ~s.handle.freed
           t == Must(s, c)
<1>1. s.handle = h /\ s.channel = ch
  BY DEF Has
<1>2. Has(t, o, p, d, h, x, ch, b)
  <2>1. c
    BY <1>1
  <2> HIDE DEF c
  <2>2. QED
    BY <2>1, MustHas
<1>3. FreeHandle(s) = IF ch = "none" THEN [t EXCEPT !.handle.freed = TRUE] ELSE t
  BY <1>1 DEF FreeHandle
<1>4. QED
  <2> HIDE DEF t
  <2> QED
    BY <1>2, <1>3, FreedHas

\* A close returns to a handle that is in use, or that was destroyed meanwhile.
LEMMA ReturnsHas ==
  ASSUME NEW s, NEW o \in Ops, NEW p, NEW d, NEW h, NEW x, NEW ch, NEW b,
         Has(s, o, p, d, h, x, ch, b), h.state = "CLOSING"
  PROVE  Has(ForceCloseReturns(s, o), o, p, d, [h EXCEPT !.state = "TE_PRE_CLOSED"], x, ch, b)
<1>1. s.handle = h /\ "TE_PRE_CLOSED" \in HandleStates
  BY DEF Has, HandleStates
<1>2. ForceCloseReturns(s, o) = [s EXCEPT !.handle.state = "TE_PRE_CLOSED"]
  BY <1>1 DEF ForceCloseReturns
<1>3. QED
  BY <1>1, <1>2, HandleHas

\* The second.
LEMMA ReturnsDestroyed ==
  ASSUME NEW s, NEW o \in Ops, NEW p, NEW d, NEW h, NEW x, NEW ch, NEW b,
         Has(s, o, p, d, h, x, ch, b), h.state = "CLOSING_AND_DESTROYED", ~h.freed, ch = "none"
  PROVE  Has(ForceCloseReturns(s, o), o, [p EXCEPT !.hasHandle = FALSE], d,
             [h EXCEPT !.freed = TRUE], x, ch, b)
<1> DEFINE t == FreeHandle(s)
           q == [p EXCEPT !.hasHandle = FALSE]
           g == [h EXCEPT !.freed = TRUE]
<1>1. s.handle = h
  BY DEF Has
<1>2. Has(t, o, p, d, g, x, ch, b)
  BY FreeHandleHas
<1>3. q \in Operations
  <2>1. p \in Operations
    BY HasTypes
  <2>2. QED
    BY <2>1 DEF Operations
<1>4. ForceCloseReturns(s, o) = [t EXCEPT !.op[o].hasHandle = FALSE]
  BY <1>1 DEF ForceCloseReturns
<1>5. QED
  <2> HIDE DEF t, g
  <2>1. t.op[o] = p
    BY <1>2 DEF Has
  <2>2. [t EXCEPT !.op[o].hasHandle = FALSE] = [t EXCEPT !.op[o] = q]
    BY <2>1
  <2> HIDE DEF q
  <2>3. Has([t EXCEPT !.op[o] = q], o, q, d, g, x, ch, b)
    BY <1>2, <1>3, PutOp
  <2>4. QED
    BY <1>4, <2>2, <2>3 DEF q, g

\* Closing an open channel.
LEMMA CloseHas ==
  ASSUME NEW s, NEW o \in Ops, NEW p, NEW d, NEW h, NEW x, NEW ch, NEW b,
         Has(s, o, p, d, h, x, ch, b), NEW k \in Kinds, NEW t
  PROVE  /\ ch = "open" => Has(Close(s, o, k, t), o, p, [d EXCEPT ![k] = @ + 1], h, x, "closing", b)
         /\ ch # "open" => Close(s, o, k, t) = t
<1> DEFINE u == Later(s, o, k)
           e == [d EXCEPT ![k] = @ + 1]
<1>1. Has(u, o, p, e, h, x, ch, b)
  BY LaterHas
<1>2. s.channel = ch
  BY DEF Has
<1>3. Close(s, o, k, t) = IF ch = "open" THEN [u EXCEPT !.channel = "closing"] ELSE t
  BY <1>2 DEF Close
<1>4. QED
  <2> HIDE DEF u, e
  <2>1. Has([u EXCEPT !.channel = "closing"], o, p, e, h, x, "closing", b)
    BY <1>1, PutChannel
  <2>2. QED
    BY <1>3, <2>1 DEF e

\* What is on its way for an operation, one kind after the other.
LEMMA Counts ==
  ASSUME NEW d \in [Kinds -> Nat]
  PROVE  /\ d["begin"] \in Nat /\ d["begin_abort"] \in Nat /\ d["begin_cb"] \in Nat /\ d["begin_cb2"] \in Nat
         /\ d["abort"] \in Nat /\ d["abort_fc"] \in Nat /\ d["abort_now"] \in Nat /\ d["end_read"] \in Nat
         /\ d["write_eof"] \in Nat /\ d["send_eof"] \in Nat /\ d["finish_fc"] \in Nat /\ d["end"] \in Nat
         /\ d["end_now"] \in Nat /\ d["end2"] \in Nat /\ d["complete_fc"] \in Nat /\ d["trev"] \in Nat
         /\ d["trev2"] \in Nat /\ d["post"] \in Nat
BY KindsAre

\* Nothing else is on its way, one kind after the other.
LEMMA OnlyThese ==
  ASSUME NEW d
  PROVE  /\ Only(d, {}) <=>
              /\ d["begin"] = 0 /\ d["begin_abort"] = 0 /\ d["begin_cb"] = 0 /\ d["begin_cb2"] = 0
              /\ d["abort"] = 0 /\ d["abort_fc"] = 0 /\ d["abort_now"] = 0 /\ d["end_read"] = 0
              /\ d["write_eof"] = 0 /\ d["send_eof"] = 0 /\ d["finish_fc"] = 0 /\ d["end"] = 0
              /\ d["end_now"] = 0 /\ d["end2"] = 0 /\ d["complete_fc"] = 0 /\ d["trev"] = 0
              /\ d["trev2"] = 0 /\ d["post"] = 0
         /\ Only(d, {"end"}) <=>
              /\ d["begin"] = 0 /\ d["begin_abort"] = 0 /\ d["begin_cb"] = 0 /\ d["begin_cb2"] = 0
              /\ d["abort"] = 0 /\ d["abort_fc"] = 0 /\ d["abort_now"] = 0 /\ d["end_read"] = 0
              /\ d["write_eof"] = 0 /\ d["send_eof"] = 0 /\ d["finish_fc"] = 0 /\ d["end_now"] = 0
              /\ d["end2"] = 0 /\ d["complete_fc"] = 0 /\ d["trev"] = 0 /\ d["trev2"] = 0
              /\ d["post"] = 0
         /\ Only(d, {"end2"}) <=>
              /\ d["begin"] = 0 /\ d["begin_abort"] = 0 /\ d["begin_cb"] = 0 /\ d["begin_cb2"] = 0
              /\ d["abort"] = 0 /\ d["abort_fc"] = 0 /\ d["abort_now"] = 0 /\ d["end_read"] = 0
              /\ d["write_eof"] = 0 /\ d["send_eof"] = 0 /\ d["finish_fc"] = 0 /\ d["end"] = 0
              /\ d["end_now"] = 0 /\ d["complete_fc"] = 0 /\ d["trev"] = 0 /\ d["trev2"] = 0
              /\ d["post"] = 0
         /\ Only(d, {"end2", "post", "complete_fc"}) <=>
              /\ d["begin"] = 0 /\ d["begin_abort"] = 0 /\ d["begin_cb"] = 0 /\ d["begin_cb2"] = 0
              /\ d["abort"] = 0 /\ d["abort_fc"] = 0 /\ d["abort_now"] = 0 /\ d["end_read"] = 0
              /\ d["write_eof"] = 0 /\ d["send_eof"] = 0 /\ d["finish_fc"] = 0 /\ d["end"] = 0
              /\ d["end_now"] = 0 /\ d["trev"] = 0 /\ d["trev2"] = 0
<1>1. Only(d, {}) <=>
              /\ d["begin"] = 0 /\ d["begin_abort"] = 0 /\ d["begin_cb"] = 0 /\ d["begin_cb2"] = 0
              /\ d["abort"] = 0 /\ d["abort_fc"] = 0 /\ d["abort_now"] = 0 /\ d["end_read"] = 0
              /\ d["write_eof"] = 0 /\ d["send_eof"] = 0 /\ d["finish_fc"] = 0 /\ d["end"] = 0
              /\ d["end_now"] = 0 /\ d["end2"] = 0 /\ d["complete_fc"] = 0 /\ d["trev"] = 0
              /\ d["trev2"] = 0 /\ d["post"] = 0
  BY KindsAre DEF Only
<1>2. Only(d, {"end"}) <=>
              /\ d["begin"] = 0 /\ d["begin_abort"] = 0 /\ d["begin_cb"] = 0 /\ d["begin_cb2"] = 0
              /\ d["abort"] = 0 /\ d["abort_fc"] = 0 /\ d["abort_now"] = 0 /\ d["end_read"] = 0
              /\ d["write_eof"] = 0 /\ d["send_eof"] = 0 /\ d["finish_fc"] = 0 /\ d["end_now"] = 0
              /\ d["end2"] = 0 /\ d["complete_fc"] = 0 /\ d["trev"] = 0 /\ d["trev2"] = 0
              /\ d["post"] = 0
  BY KindsAre DEF Only
<1>3. Only(d, {"end2"}) <=>
              /\ d["begin"] = 0 /\ d["begin_abort"] = 0 /\ d["begin_cb"] = 0 /\ d["begin_cb2"] = 0
              /\ d["abort"] = 0 /\ d["abort_fc"] = 0 /\ d["abort_now"] = 0 /\ d["end_read"] = 0
              /\ d["write_eof"] = 0 /\ d["send_eof"] = 0 /\ d["finish_fc"] = 0 /\ d["end"] = 0
              /\ d["end_now"] = 0 /\ d["complete_fc"] = 0 /\ d["trev"] = 0 /\ d["trev2"] = 0
              /\ d["post"] = 0
  BY KindsAre DEF Only
<1>4. Only(d, {"end2", "post", "complete_fc"}) <=>
              /\ d["begin"] = 0 /\ d["begin_abort"] = 0 /\ d["begin_cb"] = 0 /\ d["begin_cb2"] = 0
              /\ d["abort"] = 0 /\ d["abort_fc"] = 0 /\ d["abort_now"] = 0 /\ d["end_read"] = 0
              /\ d["write_eof"] = 0 /\ d["send_eof"] = 0 /\ d["finish_fc"] = 0 /\ d["end"] = 0
              /\ d["end_now"] = 0 /\ d["trev"] = 0 /\ d["trev2"] = 0
  BY KindsAre DEF Only
<1>5. QED
  BY <1>1, <1>2, <1>3, <1>4

\* From d to e a callback of kind i has run, and one of kind j is registered;
\* no kind stands for no callback.
Nobody == "nobody"
Swap(d, e, i, j) ==
  /\ e \in [Kinds -> Nat]
  /\ \A k \in Kinds : e[k] = d[k] - One(k = i) + One(k = j)

\* Kind after kind.
LEMMA SwapIs ==
  ASSUME NEW d \in [Kinds -> Nat], NEW e, NEW i, NEW j, Swap(d, e, i, j)
  PROVE  /\ e \in [Kinds -> Nat]
         /\ e["begin"] = d["begin"] - One("begin" = i) + One("begin" = j)
         /\ e["begin_abort"] = d["begin_abort"] - One("begin_abort" = i) + One("begin_abort" = j)
         /\ e["begin_cb"] = d["begin_cb"] - One("begin_cb" = i) + One("begin_cb" = j)
         /\ e["begin_cb2"] = d["begin_cb2"] - One("begin_cb2" = i) + One("begin_cb2" = j)
         /\ e["abort"] = d["abort"] - One("abort" = i) + One("abort" = j)
         /\ e["abort_fc"] = d["abort_fc"] - One("abort_fc" = i) + One("abort_fc" = j)
         /\ e["abort_now"] = d["abort_now"] - One("abort_now" = i) + One("abort_now" = j)
         /\ e["end_read"] = d["end_read"] - One("end_read" = i) + One("end_read" = j)
         /\ e["write_eof"] = d["write_eof"] - One("write_eof" = i) + One("write_eof" = j)
         /\ e["send_eof"] = d["send_eof"] - One("send_eof" = i) + One("send_eof" = j)
         /\ e["finish_fc"] = d["finish_fc"] - One("finish_fc" = i) + One("finish_fc" = j)
         /\ e["end"] = d["end"] - One("end" = i) + One("end" = j)
         /\ e["end_now"] = d["end_now"] - One("end_now" = i) + One("end_now" = j)
         /\ e["end2"] = d["end2"] - One("end2" = i) + One("end2" = j)
         /\ e["complete_fc"] = d["complete_fc"] - One("complete_fc" = i) + One("complete_fc" = j)
         /\ e["trev"] = d["trev"] - One("trev" = i) + One("trev" = j)
         /\ e["trev2"] = d["trev2"] - One("trev2" = i) + One("trev2" = j)
         /\ e["post"] = d["post"] - One("post" = i) + One("post" = j)
BY KindsAre DEF Swap

\* One runs and another is registered; or only the one or the other.
LEMMA Swaps ==
  ASSUME NEW d \in [Kinds -> Nat]
  PROVE  /\ \A i \in Kinds : d[i] > 0 => Swap(d, [d EXCEPT ![i] = @ - 1], i, Nobody)
         /\ \A j \in Kinds : Swap(d, [d EXCEPT ![j] = @ + 1], Nobody, j)
         /\ \A i, j \in Kinds : d[i] > 0 =>
              Swap(d, [[d EXCEPT ![i] = @ - 1] EXCEPT ![j] = @ + 1], i, j)
         /\ Swap(d, d, Nobody, Nobody)
<1>0. Nobody \notin Kinds
  BY KindsAre DEF Nobody
<1>1. ASSUME NEW i \in Kinds, d[i] > 0
      PROVE  Swap(d, [d EXCEPT ![i] = @ - 1], i, Nobody)
  BY <1>0, <1>1 DEF Swap, One
<1>2. ASSUME NEW j \in Kinds
      PROVE  Swap(d, [d EXCEPT ![j] = @ + 1], Nobody, j)
  BY <1>0 DEF Swap, One
<1>3. ASSUME NEW i \in Kinds, NEW j \in Kinds, d[i] > 0
      PROVE  Swap(d, [[d EXCEPT ![i] = @ - 1] EXCEPT ![j] = @ + 1], i, j)
  <2> DEFINE e == [d EXCEPT ![i] = @ - 1]
  <2>1. e \in [Kinds -> Nat] /\ \A k \in Kinds : e[k] = d[k] - One(k = i)
    BY <1>3 DEF One
  <2> HIDE DEF e
  <2>2. Swap(d, [e EXCEPT ![j] = @ + 1], i, j)
    BY <2>1 DEF Swap, One
  <2>3. QED
    BY <2>2 DEF e
<1>4. Swap(d, d, Nobody, Nobody)
  BY <1>0 DEF Swap, One
<1>5. QED
  BY <1>1, <1>2, <1>3, <1>4


\* Of the callbacks that begin, abort and end an operation at most one is on
\* its way; those that abort or connect it may have its end left to them.
Shared(p, d, c) ==
  /\ OneOf(d, {"begin", "begin_abort", "begin_cb", "begin_cb2"})
  /\ OneOf(d, {"abort", "abort_fc", "abort_now"})
  /\ OneOf(d, {"end_read", "write_eof", "send_eof", "finish_fc", "end", "end_now"})
  /\ p.delayed => OneOf(d, {"begin_cb", "begin_cb2", "end_read", "write_eof", "send_eof",
                            "finish_fc", "end", "end_now"})
  /\ p.delayed /\ (d["begin_cb"] > 0 \/ d["begin_cb2"] > 0) =>
       d["abort"] = 0 /\ d["abort_fc"] = 0 /\ d["abort_now"] = 0
  /\ p.state = "FINISH" => OneOf(d, {"abort", "abort_fc", "abort_now", "end_read", "write_eof",
                                     "send_eof", "finish_fc", "end", "end_now"})
  /\ d["abort"] > 0 \/ d["abort_fc"] > 0 \/ d["abort_now"] > 0 => p.state \in {"ABORT_CLOSING", "FINISH"}
  /\ d["begin"] > 0 \/ d["begin_abort"] > 0 \/ d["begin_cb"] > 0 \/ d["begin_cb2"] > 0 =>
       p.begun /\ ~p.connectFailed
  /\ ~p.finished => ~p.delayed
  /\ ~p.finished \/ p.replies = 1 =>
       /\ d["end_read"] = 0 /\ d["write_eof"] = 0 /\ d["send_eof"] = 0 /\ d["finish_fc"] = 0
       /\ d["end"] = 0 /\ d["end_now"] = 0
  /\ d["end2"] > 0 => p.replies = 1

\* The sums of the tally say so.
LEMMA SharedIs ==
  ASSUME NEW p \in Operations, NEW d \in [Kinds -> Nat], NEW c, Fits(p, Tally(d), c)
  PROVE  Shared(p, d, c)
<1>1. SUFFICES ASSUME NEW v1 \in Nat, NEW v2 \in Nat, NEW v3 \in Nat, NEW v4 \in Nat, NEW v5 \in Nat,
                      NEW v6 \in Nat, NEW v7 \in Nat, NEW v8 \in Nat, NEW v9 \in Nat, NEW v10 \in Nat,
                      NEW v11 \in Nat, NEW v12 \in Nat, NEW v13 \in Nat, NEW v14 \in Nat, NEW v15 \in Nat,
                      NEW v16 \in Nat, NEW v17 \in Nat, NEW v18 \in Nat,
                      d["begin"] = v1, d["begin_abort"] = v2, d["begin_cb"] = v3, d["begin_cb2"] = v4,
                      d["abort"] = v5, d["abort_fc"] = v6, d["abort_now"] = v7, d["end_read"] = v8,
                      d["write_eof"] = v9, d["send_eof"] = v10, d["finish_fc"] = v11, d["end"] = v12,
                      d["end_now"] = v13, d["end2"] = v14, d["complete_fc"] = v15, d["trev"] = v16,
                      d["trev2"] = v17, d["post"] = v18
               PROVE  Shared(p, d, c)
  BY Counts
<1>2. /\ (v1 + v2) + (v3 + v4) <= One(p.begun)
      /\ p.connectFailed => p.begun /\ (v1 + v2) + (v3 + v4) = 0
      /\ v5 + v6 + v7 <= One(p.state \in {"ABORT_CLOSING", "FINISH"})
      /\ p.replies + (v8 + v9 + v10 + v11 + v12 + v13)
           + (IF p.delayed THEN v3 + v4 ELSE 0) + (IF p.state = "FINISH" THEN v5 + v6 + v7 ELSE 0) <= 1
      /\ p.finished <=> p.state \in Finishing
      /\ ~p.finished => ~p.delayed /\ p.replies = 0 /\ v8 + v9 + v10 + v11 + v12 + v13 = 0
      /\ v14 <= p.replies /\ p.replies \in 0..1
  BY <1>1 DEF Fits, Stage, Begins, Aborts, Ends, Tally
<1> DEFINE n == v8 + v9 + v10 + v11 + v12 + v13
<1>3. /\ v1 + v2 + v3 + v4 <= 1 /\ v5 + v6 + v7 <= 1 /\ n <= 1
      /\ p.delayed => v3 + v4 + n <= 1
      /\ p.state = "FINISH" => v5 + v6 + v7 + n <= 1
  <2>1. v3 + v4 \in Nat /\ v5 + v6 + v7 \in Nat /\ n \in Nat
    OBVIOUS
  <2>2. One(p.begun) <= 1 /\ One(p.state \in {"ABORT_CLOSING", "FINISH"}) <= 1
    BY DEF One
  <2>3. v1 + v2 + v3 + v4 <= 1 /\ v5 + v6 + v7 <= 1
    BY <1>2, <2>2, SMTT(30) DEF One
  <2> HIDE DEF n
  <2>4. QED
    BY <1>2, <2>1, <2>3 DEF n
<1>4. /\ OneOf(d, {"begin", "begin_abort", "begin_cb", "begin_cb2"})
      /\ OneOf(d, {"abort", "abort_fc", "abort_now"})
  BY <1>1, <1>3 DEF OneOf
<1>5. /\ OneOf(d, {"end_read", "write_eof", "send_eof", "finish_fc", "end", "end_now"})
      /\ p.delayed => OneOf(d, {"begin_cb", "begin_cb2", "end_read", "write_eof", "send_eof",
                                "finish_fc", "end", "end_now"})
      /\ p.state = "FINISH" => OneOf(d, {"abort", "abort_fc", "abort_now", "end_read", "write_eof",
                                         "send_eof", "finish_fc", "end", "end_now"})
  BY <1>1, <1>3 DEF OneOf
<1>6. /\ d["abort"] > 0 \/ d["abort_fc"] > 0 \/ d["abort_now"] > 0 => p.state \in {"ABORT_CLOSING", "FINISH"}
      /\ d["begin"] > 0 \/ d["begin_abort"] > 0 \/ d["begin_cb"] > 0 \/ d["begin_cb2"] > 0 =>
           p.begun /\ ~p.connectFailed
  BY <1>1, <1>2 DEF One
<1>7. p.delayed /\ (d["begin_cb"] > 0 \/ d["begin_cb2"] > 0) =>
        d["abort"] = 0 /\ d["abort_fc"] = 0 /\ d["abort_now"] = 0
  <2>1. ~p.delayed \/ p.finished
    BY <1>2
  <2>2. p.state \in Finishing /\ (v5 > 0 \/ v6 > 0 \/ v7 > 0) => p.state = "FINISH"
    BY <1>1, <1>6 DEF Finishing
  <2>3. QED
    BY <1>1, <1>2, <2>1, <2>2
<1>8. /\ ~p.finished \/ p.replies = 1 =>
           /\ d["end_read"] = 0 /\ d["write_eof"] = 0 /\ d["send_eof"] = 0 /\ d["finish_fc"] = 0
           /\ d["end"] = 0 /\ d["end_now"] = 0
      /\ d["end2"] > 0 => p.replies = 1
  BY <1>1, <1>2
<1>9. QED
  BY <1>2, <1>3, <1>4, <1>5, <1>6, <1>7, <1>8 DEF Shared

\* No function is between two regions.
LEMMA NothingHalfway ==
  ASSUME NEW d
  PROVE  Only(d, Kinds \ Rest) <=>
           /\ d["begin"] = 0 /\ d["begin_abort"] = 0 /\ d["begin_cb2"] = 0 /\ d["abort_now"] = 0
           /\ d["end_now"] = 0 /\ d["end2"] = 0 /\ d["trev2"] = 0 /\ d["post"] = 0
BY KindsAre DEF Only, Rest

\* The references of an operation that is not answered: that of the request, that
\* of the control half, and that of whoever runs.
LEMMA AskedReferences ==
  ASSUME NEW p \in Operations, NEW d \in [Kinds -> Nat], NEW c \in CtlStates, Fits(p, Tally(d), c),
         c \in {"busy", "aborted"}
  PROVE  /\ p.replies = 0 /\ p.ref > 0 /\ (p.begun => p.ref > 1) /\ p.ref \in Int
         /\ (\E k \in Beginning \cup Connecting \cup Aborting \cup Marking : d[k] > 0) => p.ref > 1
         /\ d["end2"] = 0 /\ d["complete_fc"] = 0
<1>1. SUFFICES ASSUME NEW v1 \in Nat, NEW v2 \in Nat, NEW v3 \in Nat, NEW v4 \in Nat, NEW v5 \in Nat,
                      NEW v6 \in Nat, NEW v7 \in Nat, NEW v8 \in Nat, NEW v9 \in Nat, NEW v10 \in Nat,
                      NEW v11 \in Nat, NEW v12 \in Nat, NEW v13 \in Nat, NEW v14 \in Nat, NEW v15 \in Nat,
                      NEW v16 \in Nat, NEW v17 \in Nat, NEW v18 \in Nat,
                      d["begin"] = v1, d["begin_abort"] = v2, d["begin_cb"] = v3, d["begin_cb2"] = v4,
                      d["abort"] = v5, d["abort_fc"] = v6, d["abort_now"] = v7, d["end_read"] = v8,
                      d["write_eof"] = v9, d["send_eof"] = v10, d["finish_fc"] = v11, d["end"] = v12,
                      d["end_now"] = v13, d["end2"] = v14, d["complete_fc"] = v15, d["trev"] = v16,
                      d["trev2"] = v17, d["post"] = v18
               PROVE  /\ p.replies = 0 /\ p.ref > 0 /\ (p.begun => p.ref > 1) /\ p.ref \in Int
                      /\ (\E k \in Beginning \cup Connecting \cup Aborting \cup Marking : d[k] > 0) => p.ref > 1
                      /\ d["end2"] = 0 /\ d["complete_fc"] = 0
  BY Counts
<1>2. /\ p.replies = 0 /\ v15 = 0 /\ v14 = 0
  BY <1>1 DEF Fits, Stage, Ends, Counted, One, Tally
<1>3. p.ref = 1 + One(p.begun) + One(p.connectFailed) + (v1 + v2) + (v3 + v4) + (v5 + v6 + v7) + (v16 + v17)
  BY <1>1, <1>2 DEF Fits, Counted, RequestHolds, ControlHolds, One, Tally
<1>4. (\E k \in Beginning \cup Connecting \cup Aborting \cup Marking : d[k] > 0) =>
        v1 > 0 \/ v2 > 0 \/ v3 > 0 \/ v4 > 0 \/ v5 > 0 \/ v6 > 0 \/ v7 > 0 \/ v16 > 0 \/ v17 > 0
  BY <1>1 DEF Beginning, Connecting, Aborting, Marking
<1>5. QED
  BY <1>1, <1>2, <1>3, <1>4 DEF One

\* Of one that has been answered.
LEMMA RepliedReferences ==
  ASSUME NEW p \in Operations, NEW d \in [Kinds -> Nat], NEW c \in CtlStates, Fits(p, Tally(d), c),
         c \in {"replied", "ended"},
         Only(d, {"end2", "post", "complete_fc"})
  PROVE  /\ p.ref = One(d["end2"] > 0) + One(c = "replied" \/ d["complete_fc"] > 0) + One(p.connectFailed)
         /\ d["end2"] <= 1 /\ d["complete_fc"] <= One(p.begun /\ c = "ended")
         /\ c = "replied" => p.begun
<1>1. SUFFICES ASSUME NEW v1 \in Nat, NEW v2 \in Nat, NEW v3 \in Nat, NEW v4 \in Nat, NEW v5 \in Nat,
                      NEW v6 \in Nat, NEW v7 \in Nat, NEW v8 \in Nat, NEW v9 \in Nat, NEW v10 \in Nat,
                      NEW v11 \in Nat, NEW v12 \in Nat, NEW v13 \in Nat, NEW v14 \in Nat, NEW v15 \in Nat,
                      NEW v16 \in Nat, NEW v17 \in Nat, NEW v18 \in Nat,
                      d["begin"] = v1, d["begin_abort"] = v2, d["begin_cb"] = v3, d["begin_cb2"] = v4,
                      d["abort"] = v5, d["abort_fc"] = v6, d["abort_now"] = v7, d["end_read"] = v8,
                      d["write_eof"] = v9, d["send_eof"] = v10, d["finish_fc"] = v11, d["end"] = v12,
                      d["end_now"] = v13, d["end2"] = v14, d["complete_fc"] = v15, d["trev"] = v16,
                      d["trev2"] = v17, d["post"] = v18
               PROVE  /\ p.ref = One(d["end2"] > 0) + One(c = "replied" \/ d["complete_fc"] > 0) + One(p.connectFailed)
                      /\ d["end2"] <= 1 /\ d["complete_fc"] <= One(p.begun /\ c = "ended")
                      /\ c = "replied" => p.begun
  BY Counts
<1>2. /\ p.replies = 1 /\ v15 <= One(p.begun /\ c = "ended") /\ v14 <= 1
      /\ c = "replied" => p.begun
  BY <1>1 DEF Fits, Stage, Ends, Counted, Tally
<1>3. /\ v1 = 0 /\ v2 = 0 /\ v3 = 0 /\ v4 = 0 /\ v5 = 0 /\ v6 = 0 /\ v7 = 0 /\ v16 = 0 /\ v17 = 0
  BY <1>1, OnlyThese
<1>4. p.ref = One(v14 > 0) + One(p.begun /\ (c = "replied" \/ v15 > 0)) + One(p.connectFailed)
  BY <1>1, <1>2, <1>3 DEF Fits, Counted, RequestHolds, ControlHolds, One, Tally
<1>5. QED
  BY <1>1, <1>2, <1>4 DEF One

\* An operation that is not answered, with what is on its way for it.
Pending(p, d, h, ch) ==
  /\ Asked(p, d, h, ch) /\ OneOf(d, Rest)
  /\ ch = "closing" <=> d["finish_fc"] > 0 \/ d["abort_fc"] > 0
  /\ d["post"] = 0 /\ d["complete_fc"] = 0 /\ d["end2"] = 0

\* That is its course until then; the handle is not freed.
LEMMA PendingCourse ==
  ASSUME NEW p \in Operations, NEW d \in [Kinds -> Nat], NEW c \in CtlStates, Fits(p, Tally(d), c),
         c \in {"busy", "aborted"},
         NEW h \in Handles, NEW x \in Sessions, NEW ch, NEW lost, ~x.freed, ~x.destroyCb
  PROVE  /\ Course(p, d, c, h, x, ch, "inuse", lost) => Pending(p, d, h.state, ch) /\ ~h.freed /\ p.live
         /\ Pending(p, d, h.state, ch) /\ ~h.freed /\ p.live => Course(p, d, c, h, x, ch, "inuse", lost)
<1>1. p.ref > 0 /\ d["complete_fc"] = 0 /\ d["end2"] = 0 /\ d["post"] \in Nat
  BY AskedReferences, Counts
<1>2. ASSUME Course(p, d, c, h, x, ch, "inuse", lost)
      PROVE  Pending(p, d, h.state, ch) /\ ~h.freed /\ p.live
  BY <1>1, <1>2 DEF Course, Released, Pending
<1>3. ASSUME Pending(p, d, h.state, ch), ~h.freed, p.live
      PROVE  Course(p, d, c, h, x, ch, "inuse", lost)
  <2>1. Released(d, h, x, ch, "inuse")
    BY <1>1, <1>3 DEF Pending, Released, Sessions
  <2>2. QED
    BY <1>1, <1>3, <2>1 DEF Course, Pending
<1>4. QED
  BY <1>2, <1>3

-----------------------------------------------------------------------------
(* From a step to the course of the operation it is a step of.              *)

\* The invariant for one operation, in the parts that are needed here.
LEMMA Fitting ==
  ASSUME IInv, NEW o \in Ops
  PROVE  /\ op[o] \in Operations /\ due[o] \in [Kinds -> Nat] /\ ctl[o] \in CtlStates
         /\ Fits(op[o], Tally(due[o]), ctl[o])
         /\ ctl[o] = "idle" => due[o] = Nothing
<1>1. op[o] \in Operations /\ due[o] \in [Kinds -> Nat] /\ ctl[o] \in CtlStates /\ Sound(op[o], due[o], ctl[o])
  BY OperationAt
<1>2. ctl[o] = "idle" => due[o] = Nothing
  BY <1>1 DEF Sound, Nothing
<1>3. QED
  BY <1>1, <1>2 DEF Sound

\* The session is held by the control half, by the close of its channel and by
\* the operations that have a reference.
LEMMA SessionHeld ==
  ASSUME IInv
  PROVE  /\ session.ref \in Nat
         /\ object # "stopped" => session.ref > 0
         /\ session.destroyCb => session.ref > 0
         /\ \A o \in Ops : op[o].ref > 0 => session.ref > 0
<1> DEFINE S == {o \in Ops : op[o].ref > 0}
<1>1. IsFiniteSet(S) /\ Cardinality(S) \in Nat
  <2>1. Data.op = op
    BY DataIs
  <2>2. QED
    BY <2>1, ReferencedFinite
<1>2. \A o \in Ops : op[o].ref > 0 => Cardinality(S) > 0
  <2>1. ASSUME NEW o \in S
        PROVE  Cardinality(S) > 0
    <3>1. Cardinality(S \ {o}) = Cardinality(S) - 1
      BY <1>1, <2>1, FS_RemoveElement
    <3>2. IsFiniteSet(S \ {o})
      BY <1>1, FS_Subset
    <3>3. Cardinality(S \ {o}) \in Nat
      BY <3>2, FS_CardinalityType
    <3> HIDE DEF S
    <3>4. QED
      BY <1>1, <3>1, <3>3
  <2>2. QED
    BY <2>1
<1>3. session.ref - One(session.destroyCb) - Cardinality(S) = One(object # "stopped")
  BY DataIs DEF IInv, SessionCounted, Balance
<1>4. session.ref \in Int
  BY DataIs DEF Sessions
<1>5. QED
  <2> HIDE DEF S
  <2> QED
    BY <1>1, <1>2, <1>3, <1>4 DEF One

\* Whoever is not over is the one the handle names.
LEMMA NamedIs ==
  ASSUME IInv, OnCourse, NEW o \in Ops
  PROVE  /\ ctl[o] \in {"busy", "aborted", "replied"} => Named = o
         /\ \A k \in Kinds : due[o][k] > 0 => Named = o
         /\ op[o].live /\ ~op[o].finished => ctl[o] \in {"busy", "aborted"}
         /\ op[o].state \in {"CONNECTING", "CONNECT_CB", "CONNECTED"} => ctl[o] \in {"busy", "aborted"}
<1>1. /\ op[o] \in Operations /\ due[o] \in [Kinds -> Nat] /\ ctl[o] \in CtlStates
      /\ Fits(op[o], Tally(due[o]), ctl[o])
  BY Fitting
<1>2. Named # o => ctl[o] \in {"idle", "ended"} /\ due[o] = Nothing
  BY DEF OnCourse, Others
<1>3. \A k \in Kinds : due[o][k] > 0 => Named = o
  BY <1>2 DEF Nothing
<1>4. Stage(op[o], ctl[o]) /\ (~op[o].finished => op[o].replies = 0)
  BY <1>1 DEF Fits, Ends
<1>5. QED
  BY <1>1, <1>2, <1>3, <1>4 DEF Stage, CtlStates, Finishing

\* An operation that is not answered, and what it finds.
PendingAt(o) ==
  /\ ctl[o] \in {"busy", "aborted"} /\ Named = o /\ object = "inuse"
  /\ Pending(op[o], due[o], handle.state, channel) /\ op[o].live /\ ~handle.freed
  /\ ~session.destroyCb /\ ~session.freed /\ ~broken

\* Its course says so.
LEMMA IsPending ==
  ASSUME IInv, OnCourse, NEW o \in Ops, ctl[o] \in {"busy", "aborted"}
  PROVE  PendingAt(o)
<1>1. /\ op[o] \in Operations /\ due[o] \in [Kinds -> Nat] /\ ctl[o] \in CtlStates
      /\ Fits(op[o], Tally(due[o]), ctl[o])
  BY Fitting
<1>2. Named = o
  BY NamedIs
<1>3. object = "inuse" /\ ~session.destroyCb /\ handle \in Handles /\ session \in Sessions
  BY DataIs DEF IInv, OneAtATime
<1>4. Course(op[o], due[o], ctl[o], handle, session, channel, "inuse", Lost)
  BY <1>2, <1>3 DEF OnCourse
<1>5. ~session.freed /\ ~broken
  BY <1>3, <1>4, SessionHeld DEF Course, Released, OnCourse
<1>6. Pending(op[o], due[o], handle.state, channel) /\ op[o].live /\ ~handle.freed
  BY <1>1, <1>3, <1>4, <1>5, PendingCourse
<1>7. QED
  BY <1>2, <1>3, <1>5, <1>6 DEF PendingAt

\* The callbacks that come before the answer find it pending.
LEMMA FindsPending ==
  ASSUME IInv, OnCourse, NEW o \in Ops, NEW k \in Kinds \ {"end2", "post", "complete_fc"}, due[o][k] > 0
  PROVE  PendingAt(o)
<1>1. due[o] \in [Kinds -> Nat] /\ ctl[o] \in CtlStates
  BY Fitting
<1>2. Named = o
  BY NamedIs
<1>3. Course(op[o], due[o], ctl[o], handle, session, channel, object, Lost)
  BY <1>2 DEF OnCourse
<1>4. ctl[o] \in {"busy", "aborted"}
  BY <1>1, <1>3 DEF Course, Answered, Ended, Only, CtlStates
<1>5. QED
  BY <1>4, IsPending

\* The order of the requests stays when one of them goes on.
LEMMA StaysInOrder ==
  ASSUME InOrder, NEW o \in Ops, ctl[o] # "idle", \A q \in Ops \ {o} : ctl'[q] = ctl[q],
         ctl[o] = "ended" => ctl'[o] = "ended"
  PROVE  InOrder'
<1>1. \A q \in Ops : ctl'[q] # "idle" => ctl[q] # "idle"
  OBVIOUS
<1>2. \A q \in Ops : ctl[q] = "ended" => ctl'[q] = "ended"
  OBVIOUS
<1>3. \A q \in Ops : 1..(q - 1) \subseteq Ops
  OBVIOUS
<1>4. QED
  BY <1>1, <1>2, <1>3 DEF InOrder

\* The operation the handle names goes on, and stays the one it names.
LEMMA Onward ==
  ASSUME OnCourse, NEW o \in Ops, NEW s, Becomes(s),
         NEW p, NEW d, NEW h, NEW x, NEW ch, Has(s, o, p, d, h, x, ch, broken),
         h.outstanding = o, \A q \in Ops \ {o} : ctl'[q] = ctl[q], Others(o), InOrder',
         Course(p, d, ctl'[o], h, x, ch, object', Lost')
  PROVE  OnCourse'
<1>1. /\ op' = s.op /\ due' = s.due /\ handle' = h /\ session' = x /\ channel' = ch /\ broken' = broken
      /\ op'[o] = p /\ due'[o] = d /\ \A q \in Ops \ {o} : due'[q] = due[q]
  BY DEF Becomes, Has
<1>2. Others(o)'
  <2>1. \A q \in Ops \ {o} : ctl'[q] \in {"idle", "ended"} /\ due'[q] = Nothing
    BY <1>1 DEF Others
  <2>2. QED
    BY <2>1 DEF Others, Nothing
<1>3. Named' = o /\ ~broken'
  BY <1>1 DEF Named, OnCourse
<1>4. Others(Named)'
  BY <1>2, <1>3 DEF Others
<1>5. Course(op'[o], due'[o], ctl'[o], handle', session', channel', object', Lost')
  BY <1>1
<1>6. QED
  BY <1>3, <1>4, <1>5 DEF OnCourse

\* It is still not answered.
LEMMA OnPending ==
  ASSUME IInv', OnCourse, NEW o \in Ops, PendingAt(o), UNCHANGED half, NEW s, Becomes(s),
         NEW p, NEW d, NEW h, NEW x, NEW ch, Has(s, o, p, d, h, x, ch, broken),
         h.outstanding = handle.outstanding, h.freed = handle.freed, p.live = op[o].live,
         x.destroyCb = session.destroyCb, x.freed = session.freed,
         Pending(p, d, h.state, ch)
  PROVE  OnCourse'
<1>1. ctl' = ctl /\ object' = "inuse"
  BY DEF half, PendingAt
<1>2. op'[o] = p /\ due'[o] = d
  BY DEF Becomes, Has
<1>3. /\ op'[o] \in Operations /\ due'[o] \in [Kinds -> Nat] /\ ctl'[o] \in CtlStates
      /\ Fits(op'[o], Tally(due'[o]), ctl'[o])
  <2>1. (op \in [Ops -> Operations] /\ due \in [Ops -> [Kinds -> Nat]])'
    BY DataIs, PTL
  <2>2. (\A q \in Ops : Sound(op[q], due[q], ctl[q]))'
    BY DEF IInv
  <2>3. (ctl \in [Ops -> CtlStates])'
    BY DEF IInv, Typed
  <2>4. QED
    BY <2>1, <2>2, <2>3 DEF Sound
<1>4. h \in Handles /\ x \in Sessions
  BY HasTypes
<1>5. Course(p, d, ctl'[o], h, x, ch, "inuse", Lost')
  BY <1>1, <1>2, <1>3, <1>4, PendingCourse DEF PendingAt
<1>6. Others(o) /\ InOrder'
  <2>1. InOrder /\ Others(o)
    BY DEF PendingAt, OnCourse
  <2>2. InOrder'
    BY <1>1, <2>1 DEF InOrder
  <2>3. QED
    BY <2>1, <2>2
<1>7. h.outstanding = o
  BY DEF PendingAt, Named
<1>8. QED
  BY <1>1, <1>5, <1>6, <1>7, Onward

-----------------------------------------------------------------------------
(* What each step makes of an operation that is not answered: p and d       *)
(* before, q and e after, h and ch the handle's state and the channel.      *)

\* Nothing but the state and the counts of the operation changes, or more.
AlikeButFailed(p, q) ==
  /\ q.begun = p.begun /\ q.delayed = p.delayed /\ q.connectFailed = p.connectFailed
  /\ q.hasHandle = p.hasHandle /\ q.freeHandle = p.freeHandle
Alike(p, q) == AlikeButFailed(p, q) /\ q.failed = p.failed
AlikeButBegun(p, q) ==
  /\ q.failed = p.failed /\ q.delayed = p.delayed /\ q.connectFailed = p.connectFailed
  /\ q.hasHandle = p.hasHandle /\ q.freeHandle = p.freeHandle

\* The performance marker.
LEMMA PendingTrev ==
  ASSUME NEW p \in Operations, NEW q \in Operations, NEW d \in [Kinds -> Nat], NEW e,
         NEW c \in {"busy", "aborted"}, Fits(p, Tally(d), c), NEW h, NEW ch,
         Pending(p, d, h, ch), Swap(d, e, "trev", "trev2"), d["trev"] > 0,
         Only(d, Kinds \ Rest), q.state = p.state, Alike(p, q)
  PROVE  Pending(q, e, h, ch)
<1>1. Shared(p, d, c) /\ p.replies = 0
  BY SharedIs, AskedReferences DEF CtlStates
<1>2. Stage(p, c)
  BY DEF Fits
<1>3. QED
  BY <1>1, <1>2, SwapIs, Counts, OnlyThese, NothingHalfway, KindsAre
     DEF Pending, Asked, Connection, Unconnected, OneOf, Rest, One, Nobody, Shared, Alike, AlikeButFailed,
         AlikeButBegun, Stage, Finishing

\* Its second region.
LEMMA PendingTrev2 ==
  ASSUME NEW p \in Operations, NEW q \in Operations, NEW d \in [Kinds -> Nat], NEW e,
         NEW c \in {"busy", "aborted"}, Fits(p, Tally(d), c), NEW h, NEW ch,
         Pending(p, d, h, ch), Swap(d, e, "trev2", Nobody), d["trev2"] > 0,
         q.state = p.state, Alike(p, q)
  PROVE  Pending(q, e, h, ch)
<1>1. Shared(p, d, c) /\ p.replies = 0
  BY SharedIs, AskedReferences DEF CtlStates
<1>2. Stage(p, c)
  BY DEF Fits
<1>3. QED
  BY <1>1, <1>2, SwapIs, Counts, OnlyThese, NothingHalfway, KindsAre
     DEF Pending, Asked, Connection, Unconnected, OneOf, Rest, One, Nobody, Shared, Alike, AlikeButFailed,
         AlikeButBegun, Stage, Finishing

\* A marker is asked of a connected operation.
LEMMA PendingMarker ==
  ASSUME NEW p \in Operations, NEW q \in Operations, NEW d \in [Kinds -> Nat], NEW e,
         NEW c \in {"busy", "aborted"}, Fits(p, Tally(d), c), NEW h, NEW ch,
         Pending(p, d, h, ch), Swap(d, e, Nobody, "trev"),
         p.state = "CONNECTED", q.state = p.state, Alike(p, q)
  PROVE  Pending(q, e, h, ch)
<1>1. Shared(p, d, c) /\ p.replies = 0
  BY SharedIs, AskedReferences DEF CtlStates
<1>2. Stage(p, c)
  BY DEF Fits
<1>3. QED
  BY <1>1, <1>2, SwapIs, Counts, OnlyThese, NothingHalfway, KindsAre
     DEF Pending, Asked, Connection, Unconnected, OneOf, Rest, One, Nobody, Shared, Alike, AlikeButFailed,
         AlikeButBegun, Stage, Finishing

\* The storage module begins.
LEMMA PendingBegin ==
  ASSUME NEW p \in Operations, NEW q \in Operations, NEW d \in [Kinds -> Nat], NEW e,
         NEW c \in {"busy", "aborted"}, Fits(p, Tally(d), c), NEW h, NEW ch,
         Pending(p, d, h, ch), Swap(d, e, Nobody, "begin"), Only(d, Kinds \ Rest),
         ~p.begun, ~p.finished, q.begun, q.state = p.state, AlikeButBegun(p, q)
  PROVE  Pending(q, e, h, ch)
<1>1. Shared(p, d, c) /\ p.replies = 0
  BY SharedIs, AskedReferences DEF CtlStates
<1>2. Stage(p, c)
  BY DEF Fits
<1>3. QED
  BY <1>1, <1>2, SwapIs, Counts, OnlyThese, NothingHalfway, KindsAre
     DEF Pending, Asked, Connection, Unconnected, OneOf, Rest, One, Nobody, Shared, Alike, AlikeButFailed,
         AlikeButBegun, Stage, Finishing

\* It connects.
LEMMA PendingConnect ==
  ASSUME NEW p \in Operations, NEW q \in Operations, NEW d \in [Kinds -> Nat], NEW e,
         NEW c \in {"busy", "aborted"}, Fits(p, Tally(d), c), NEW h, NEW ch,
         Pending(p, d, h, ch), Swap(d, e, "begin", "begin_cb"), d["begin"] > 0, ch = "open",
         p.state = "REQUESTING", q.state = "CONNECTING", Alike(p, q)
  PROVE  Pending(q, e, h, ch)
<1>1. Shared(p, d, c) /\ p.replies = 0
  BY SharedIs, AskedReferences DEF CtlStates
<1>2. Stage(p, c)
  BY DEF Fits
<1>3. QED
  BY <1>1, <1>2, SwapIs, Counts, OnlyThese, NothingHalfway, KindsAre
     DEF Pending, Asked, Connection, Unconnected, OneOf, Rest, One, Nobody, Shared, Alike, AlikeButFailed,
         AlikeButBegun, Stage, Finishing

\* It is aborted instead.
LEMMA PendingBegunAbort ==
  ASSUME NEW p \in Operations, NEW q \in Operations, NEW d \in [Kinds -> Nat], NEW e,
         NEW c \in {"busy", "aborted"}, Fits(p, Tally(d), c), NEW h, NEW ch,
         Pending(p, d, h, ch), Swap(d, e, "begin", "begin_abort"), d["begin"] > 0,
         p.state \in {"REQUESTING", "ABORTING"}, q.state = "ABORTING", Alike(p, q)
  PROVE  Pending(q, e, h, ch)
<1>1. Shared(p, d, c) /\ p.replies = 0
  BY SharedIs, AskedReferences DEF CtlStates
<1>2. Stage(p, c)
  BY DEF Fits
<1>3. QED
  BY <1>1, <1>2, SwapIs, Counts, OnlyThese, NothingHalfway, KindsAre
     DEF Pending, Asked, Connection, Unconnected, OneOf, Rest, One, Nobody, Shared, Alike, AlikeButFailed,
         AlikeButBegun, Stage, Finishing

\* The storage module has been told.
LEMMA PendingBegunAborted ==
  ASSUME NEW p \in Operations, NEW q \in Operations, NEW d \in [Kinds -> Nat], NEW e,
         NEW c \in {"busy", "aborted"}, Fits(p, Tally(d), c), NEW h, NEW ch,
         Pending(p, d, h, ch), Swap(d, e, "begin_abort", Nobody), d["begin_abort"] > 0,
         q.state = p.state, Alike(p, q)
  PROVE  Pending(q, e, h, ch)
<1>1. Shared(p, d, c) /\ p.replies = 0
  BY SharedIs, AskedReferences DEF CtlStates
<1>2. Stage(p, c)
  BY DEF Fits
<1>3. QED
  BY <1>1, <1>2, SwapIs, Counts, OnlyThese, NothingHalfway, KindsAre
     DEF Pending, Asked, Connection, Unconnected, OneOf, Rest, One, Nobody, Shared, Alike, AlikeButFailed,
         AlikeButBegun, Stage, Finishing

\* A connected transfer is finished well.
LEMMA PendingFinished ==
  ASSUME NEW p \in Operations, NEW q \in Operations, NEW d \in [Kinds -> Nat], NEW e,
         NEW c \in {"busy", "aborted"}, Fits(p, Tally(d), c), NEW h, NEW ch,
         Pending(p, d, h, ch), NEW j, j \in {"end_read", "write_eof", "end"}, Swap(d, e, Nobody, j),
         p.state = "CONNECTED", ~p.finished, q.state = "FINISH", AlikeButFailed(p, q)
  PROVE  Pending(q, e, h, ch)
<1>1. Shared(p, d, c) /\ p.replies = 0
  BY SharedIs, AskedReferences DEF CtlStates
<1>2. Stage(p, c)
  BY DEF Fits
<1>3. QED
  BY <1>1, <1>2, SwapIs, Counts, OnlyThese, NothingHalfway, KindsAre
     DEF Pending, Asked, Connection, Unconnected, OneOf, Rest, One, Nobody, Shared, Alike, AlikeButFailed,
         AlikeButBegun, Stage, Finishing

\* Or it failed.
LEMMA PendingFinishedFailed ==
  ASSUME NEW p \in Operations, NEW q \in Operations, NEW d \in [Kinds -> Nat], NEW e,
         NEW c \in {"busy", "aborted"}, Fits(p, Tally(d), c), NEW h, NEW ch,
         Pending(p, d, h, ch), Swap(d, e, Nobody, "end"), h = "INUSE",
         p.state = "CONNECTED", ~p.finished, q.state = "FINISH_WITH_ERROR", q.failed, AlikeButFailed(p, q)
  PROVE  Pending(q, e, "CLOSING", ch)
<1>1. Shared(p, d, c) /\ p.replies = 0
  BY SharedIs, AskedReferences DEF CtlStates
<1>2. Stage(p, c)
  BY DEF Fits
<1>3. QED
  BY <1>1, <1>2, SwapIs, Counts, OnlyThese, NothingHalfway, KindsAre
     DEF Pending, Asked, Connection, Unconnected, OneOf, Rest, One, Nobody, Shared, Alike, AlikeButFailed,
         AlikeButBegun, Stage, Finishing

\* It is finished before it is connected.
LEMMA PendingDelayed ==
  ASSUME NEW p \in Operations, NEW q \in Operations, NEW d \in [Kinds -> Nat], NEW e,
         NEW c \in {"busy", "aborted"}, Fits(p, Tally(d), c), NEW h, NEW ch,
         Pending(p, d, h, ch), Swap(d, e, Nobody, Nobody),
         p.state \in {"CONNECT_CB", "CONNECTING"}, ~p.finished, q.delayed, q.hasHandle = p.hasHandle,
         q.freeHandle = p.freeHandle, q.begun = p.begun, q.connectFailed = p.connectFailed,
         q.state \in {"FINISH", "FINISH_WITH_ERROR"}, q.state = "FINISH_WITH_ERROR" => q.failed
  PROVE  Pending(q, e, h, ch)
<1>1. Shared(p, d, c) /\ p.replies = 0
  BY SharedIs, AskedReferences DEF CtlStates
<1>2. Stage(p, c)
  BY DEF Fits
<1>3. QED
  BY <1>1, <1>2, SwapIs, Counts, OnlyThese, NothingHalfway, KindsAre
     DEF Pending, Asked, Connection, Unconnected, OneOf, Rest, One, Nobody, Shared, Alike, AlikeButFailed,
         AlikeButBegun, Stage, Finishing

\* It is finished without a connection.
LEMMA PendingFinishedEarly ==
  ASSUME NEW p \in Operations, NEW q \in Operations, NEW d \in [Kinds -> Nat], NEW e,
         NEW c \in {"busy", "aborted"}, Fits(p, Tally(d), c), NEW h, NEW ch,
         Pending(p, d, h, ch), Swap(d, e, Nobody, "end"), d["begin"] = 0,
         p.state \in {"ABORTING", "REQUESTING"}, ~p.finished, q.state = "FINISH", AlikeButFailed(p, q)
  PROVE  Pending(q, e, h, ch)
<1>1. Shared(p, d, c) /\ p.replies = 0
  BY SharedIs, AskedReferences DEF CtlStates
<1>2. Stage(p, c)
  BY DEF Fits
<1>3. QED
  BY <1>1, <1>2, SwapIs, Counts, OnlyThese, NothingHalfway, KindsAre
     DEF Pending, Asked, Connection, Unconnected, OneOf, Rest, One, Nobody, Shared, Alike, AlikeButFailed,
         AlikeButBegun, Stage, Finishing

\* It is finished while its abort is on the way.
LEMMA PendingFinishedAbort ==
  ASSUME NEW p \in Operations, NEW q \in Operations, NEW d \in [Kinds -> Nat], NEW e,
         NEW c \in {"busy", "aborted"}, Fits(p, Tally(d), c), NEW h, NEW ch,
         Pending(p, d, h, ch), Swap(d, e, Nobody, Nobody),
         p.state = "ABORT_CLOSING", ~p.finished, q.state = "FINISH", AlikeButFailed(p, q)
  PROVE  Pending(q, e, h, ch)
<1>1. Shared(p, d, c) /\ p.replies = 0
  BY SharedIs, AskedReferences DEF CtlStates
<1>2. Stage(p, c)
  BY DEF Fits
<1>3. QED
  BY <1>1, <1>2, SwapIs, Counts, OnlyThese, NothingHalfway, KindsAre
     DEF Pending, Asked, Connection, Unconnected, OneOf, Rest, One, Nobody, Shared, Alike, AlikeButFailed,
         AlikeButBegun, Stage, Finishing

\* The peer goes away.
LEMMA PendingLinkDown ==
  ASSUME NEW p \in Operations, NEW q \in Operations, NEW d \in [Kinds -> Nat], NEW e,
         NEW c \in {"busy", "aborted"}, Fits(p, Tally(d), c), NEW h, NEW ch,
         Pending(p, d, h, ch), Swap(d, e, Nobody, Nobody), p.state = "CONNECTED",
         q.state = p.state, Alike(p, q)
  PROVE  Pending(q, e, h, "none")
<1>1. Shared(p, d, c) /\ p.replies = 0
  BY SharedIs, AskedReferences DEF CtlStates
<1>2. Stage(p, c)
  BY DEF Fits
<1>3. QED
  BY <1>1, <1>2, SwapIs, Counts, OnlyThese, NothingHalfway, KindsAre
     DEF Pending, Asked, Connection, Unconnected, OneOf, Rest, One, Nobody, Shared, Alike, AlikeButFailed,
         AlikeButBegun, Stage, Finishing

\* The connection failed.
LEMMA PendingConnectFails ==
  ASSUME NEW p \in Operations, NEW q \in Operations, NEW d \in [Kinds -> Nat], NEW e,
         NEW c \in {"busy", "aborted"}, Fits(p, Tally(d), c), NEW h, NEW ch,
         Pending(p, d, h, ch), Swap(d, e, "begin_cb", "abort"), d["begin_cb"] > 0,
         p.state = "CONNECTING", q.state = "ABORT_CLOSING", q.connectFailed, q.begun = p.begun,
         q.hasHandle = p.hasHandle, q.freeHandle = p.freeHandle, q.delayed = p.delayed
  PROVE  Pending(q, e, "CLOSING", "none")
<1>1. Shared(p, d, c) /\ p.replies = 0
  BY SharedIs, AskedReferences DEF CtlStates
<1>2. Stage(p, c)
  BY DEF Fits
<1>3. QED
  BY <1>1, <1>2, SwapIs, Counts, OnlyThese, NothingHalfway, KindsAre
     DEF Pending, Asked, Connection, Unconnected, OneOf, Rest, One, Nobody, Shared, Alike, AlikeButFailed,
         AlikeButBegun, Stage, Finishing

\* It stands.
LEMMA PendingConnects ==
  ASSUME NEW p \in Operations, NEW q \in Operations, NEW d \in [Kinds -> Nat], NEW e,
         NEW c \in {"busy", "aborted"}, Fits(p, Tally(d), c), NEW h, NEW ch,
         Pending(p, d, h, ch), Swap(d, e, "begin_cb", "begin_cb2"), d["begin_cb"] > 0, Only(d, Kinds \ Rest),
         p.state = "CONNECTING", q.state = "CONNECT_CB", Alike(p, q)
  PROVE  Pending(q, e, h, ch)
<1>1. Shared(p, d, c) /\ p.replies = 0
  BY SharedIs, AskedReferences DEF CtlStates
<1>2. Stage(p, c)
  BY DEF Fits
<1>3. QED
  BY <1>1, <1>2, SwapIs, Counts, OnlyThese, NothingHalfway, KindsAre
     DEF Pending, Asked, Connection, Unconnected, OneOf, Rest, One, Nobody, Shared, Alike, AlikeButFailed,
         AlikeButBegun, Stage, Finishing

\* The transfer was finished or aborted meanwhile; the connection may be lost.
LEMMA PendingConnectsLate ==
  ASSUME NEW p \in Operations, NEW q \in Operations, NEW d \in [Kinds -> Nat], NEW e,
         NEW c \in {"busy", "aborted"}, Fits(p, Tally(d), c), NEW h, NEW ch,
         Pending(p, d, h, ch), NEW cl, cl \in {ch, "none"}, ch # "closing" \/ cl = ch,
         Swap(d, e, "begin_cb", "begin_cb2"),
         d["begin_cb"] > 0, Only(d, Kinds \ Rest), p.state # "CONNECTING",
         q.state = p.state, Alike(p, q)
  PROVE  Pending(q, e, h, cl)
<1>1. Shared(p, d, c) /\ p.replies = 0
  BY SharedIs, AskedReferences DEF CtlStates
<1>2. Stage(p, c)
  BY DEF Fits
<1>3. QED
  BY <1>1, <1>2, SwapIs, Counts, OnlyThese, NothingHalfway, KindsAre
     DEF Pending, Asked, Connection, Unconnected, OneOf, Rest, One, Nobody, Shared, Alike, AlikeButFailed,
         AlikeButBegun, Stage, Finishing

\* The storage module has been told.
LEMMA PendingConnected ==
  ASSUME NEW p \in Operations, NEW q \in Operations, NEW d \in [Kinds -> Nat], NEW e,
         NEW c \in {"busy", "aborted"}, Fits(p, Tally(d), c), NEW h, NEW ch,
         Pending(p, d, h, ch), Swap(d, e, "begin_cb2", Nobody), d["begin_cb2"] > 0, ~p.delayed,
         q.state = IF p.state = "CONNECT_CB" THEN "CONNECTED" ELSE p.state, Alike(p, q)
  PROVE  Pending(q, e, h, ch)
<1>1. Shared(p, d, c) /\ p.replies = 0
  BY SharedIs, AskedReferences DEF CtlStates
<1>2. Stage(p, c)
  BY DEF Fits
<1>3. QED
  BY <1>1, <1>2, SwapIs, Counts, OnlyThese, NothingHalfway, KindsAre
     DEF Pending, Asked, Connection, Unconnected, OneOf, Rest, One, Nobody, Shared, Alike, AlikeButFailed,
         AlikeButBegun, Stage, Finishing

\* And the transfer was finished meanwhile.
LEMMA PendingConnectedLate ==
  ASSUME NEW p \in Operations, NEW q \in Operations, NEW d \in [Kinds -> Nat], NEW e,
         NEW c \in {"busy", "aborted"}, Fits(p, Tally(d), c), NEW h, NEW ch,
         Pending(p, d, h, ch), NEW j, j \in {"end_read", "write_eof", "end"}, Swap(d, e, "begin_cb2", j),
         d["begin_cb2"] > 0,
         p.delayed, q.state = p.state, Alike(p, q)
  PROVE  Pending(q, e, h, ch)
<1>1. Shared(p, d, c) /\ p.replies = 0
  BY SharedIs, AskedReferences DEF CtlStates
<1>2. Stage(p, c)
  BY DEF Fits
<1>3. QED
  BY <1>1, <1>2, SwapIs, Counts, OnlyThese, NothingHalfway, KindsAre
     DEF Pending, Asked, Connection, Unconnected, OneOf, Rest, One, Nobody, Shared, Alike, AlikeButFailed,
         AlikeButBegun, Stage, Finishing

\* The last block is written: the end of it is sent.
LEMMA PendingSendEof ==
  ASSUME NEW p \in Operations, NEW q \in Operations, NEW d \in [Kinds -> Nat], NEW e,
         NEW c \in {"busy", "aborted"}, Fits(p, Tally(d), c), NEW h, NEW ch,
         Pending(p, d, h, ch), Swap(d, e, "write_eof", "send_eof"), d["write_eof"] > 0,
         q.state = p.state, Alike(p, q)
  PROVE  Pending(q, e, h, ch)
<1>1. Shared(p, d, c) /\ p.replies = 0
  BY SharedIs, AskedReferences DEF CtlStates
<1>2. Stage(p, c)
  BY DEF Fits
<1>3. QED
  BY <1>1, <1>2, SwapIs, Counts, OnlyThese, NothingHalfway, KindsAre
     DEF Pending, Asked, Connection, Unconnected, OneOf, Rest, One, Nobody, Shared, Alike, AlikeButFailed,
         AlikeButBegun, Stage, Finishing

\* Or the channel is closed by the library.
LEMMA PendingCloses ==
  ASSUME NEW p \in Operations, NEW q \in Operations, NEW d \in [Kinds -> Nat], NEW e,
         NEW c \in {"busy", "aborted"}, Fits(p, Tally(d), c), NEW h, NEW ch,
         Pending(p, d, h, ch), NEW i \in {"write_eof", "end_read"}, Swap(d, e, i, "finish_fc"), d[i] > 0,
         ch = "open",
         q.state = p.state, Alike(p, q)
  PROVE  Pending(q, e, "CLOSING", "closing")
<1>1. Shared(p, d, c) /\ p.replies = 0
  BY SharedIs, AskedReferences DEF CtlStates
<1>2. Stage(p, c)
  BY DEF Fits
<1>3. QED
  BY <1>1, <1>2, SwapIs, Counts, OnlyThese, NothingHalfway, KindsAre
     DEF Pending, Asked, Connection, Unconnected, OneOf, Rest, One, Nobody, Shared, Alike, AlikeButFailed,
         AlikeButBegun, Stage, Finishing

\* Or the transfer has ended, and the channel is kept or gone.
LEMMA PendingOver ==
  ASSUME NEW p \in Operations, NEW d \in [Kinds -> Nat], NEW e,
         NEW c \in {"busy", "aborted"}, Fits(p, Tally(d), c), NEW h, NEW ch,
         Pending(p, d, h, ch), NEW i \in {"write_eof", "send_eof", "end_read"}, Swap(d, e, i, "end_now"),
         d[i] > 0, d["trev"] = 0, Only(d, Kinds \ Rest), NEW g \in {"INUSE", "TE_PRE_CLOSED"}
  PROVE  Pending(p, e, g, ch) /\ Pending(p, e, g, "none")
<1>1. Shared(p, d, c) /\ p.replies = 0
  BY SharedIs, AskedReferences DEF CtlStates
<1>2. Stage(p, c)
  BY DEF Fits
<1>3. ASSUME NEW cl, cl \in {ch, "none"}
      PROVE  Pending(p, e, g, cl)
  BY <1>1, <1>2, <1>3, SwapIs, Counts, OnlyThese, NothingHalfway, KindsAre
     DEF Pending, Asked, Connection, Unconnected, OneOf, Rest, One, Nobody, Shared, Stage, Finishing
<1>4. QED
  BY <1>3

\* The channel is closed.
LEMMA PendingFinishClosed ==
  ASSUME NEW p \in Operations, NEW q \in Operations, NEW d \in [Kinds -> Nat], NEW e,
         NEW c \in {"busy", "aborted"}, Fits(p, Tally(d), c), NEW h, NEW ch,
         Pending(p, d, h, ch), Swap(d, e, "finish_fc", "end_now"), d["finish_fc"] > 0,
         d["trev"] = 0, Only(d, Kinds \ Rest), q.state = p.state, Alike(p, q)
  PROVE  Pending(q, e, "TE_PRE_CLOSED", "none")
<1>1. Shared(p, d, c) /\ p.replies = 0
  BY SharedIs, AskedReferences DEF CtlStates
<1>2. Stage(p, c)
  BY DEF Fits
<1>3. QED
  BY <1>1, <1>2, SwapIs, Counts, OnlyThese, NothingHalfway, KindsAre
     DEF Pending, Asked, Connection, Unconnected, OneOf, Rest, One, Nobody, Shared, Alike, AlikeButFailed,
         AlikeButBegun, Stage, Finishing

\* It was closed by an abort.
LEMMA PendingAbortClosed ==
  ASSUME NEW p \in Operations, NEW q \in Operations, NEW d \in [Kinds -> Nat], NEW e,
         NEW c \in {"busy", "aborted"}, Fits(p, Tally(d), c), NEW h, NEW ch,
         Pending(p, d, h, ch), Swap(d, e, "abort_fc", "abort_now"), d["abort_fc"] > 0, d["begin_cb"] = 0,
         d["trev"] = 0, Only(d, Kinds \ Rest), q.state = p.state, Alike(p, q)
  PROVE  Pending(q, e, "TE_PRE_CLOSED", "none")
<1>1. Shared(p, d, c) /\ p.replies = 0
  BY SharedIs, AskedReferences DEF CtlStates
<1>2. Stage(p, c)
  BY DEF Fits
<1>3. QED
  BY <1>1, <1>2, SwapIs, Counts, OnlyThese, NothingHalfway, KindsAre
     DEF Pending, Asked, Connection, Unconnected, OneOf, Rest, One, Nobody, Shared, Alike, AlikeButFailed,
         AlikeButBegun, Stage, Finishing

\* The abort is through, and the transfer is not finished.
LEMMA PendingAborted ==
  ASSUME NEW p \in Operations, NEW q \in Operations, NEW d \in [Kinds -> Nat], NEW e,
         NEW c \in {"busy", "aborted"}, Fits(p, Tally(d), c), NEW h, NEW ch,
         Pending(p, d, h, ch), NEW i \in {"abort", "abort_now"}, Swap(d, e, i, Nobody), d[i] > 0,
         p.state = "ABORT_CLOSING", q.state = "ABORTING", Alike(p, q)
  PROVE  Pending(q, e, h, ch)
<1>1. Shared(p, d, c) /\ p.replies = 0
  BY SharedIs, AskedReferences DEF CtlStates
<1>2. Stage(p, c)
  BY DEF Fits
<1>3. CASE i = "abort"
  BY <1>1, <1>2, <1>3, SwapIs, Counts, OnlyThese, NothingHalfway, KindsAre
     DEF Pending, Asked, Connection, Unconnected, OneOf, Rest, One, Nobody, Shared, Alike, AlikeButFailed,
         AlikeButBegun, Stage, Finishing
<1>4. CASE i = "abort_now"
  BY <1>1, <1>2, <1>4, SwapIs, Counts, OnlyThese, NothingHalfway, KindsAre
     DEF Pending, Asked, Connection, Unconnected, OneOf, Rest, One, Nobody, Shared, Alike, AlikeButFailed,
         AlikeButBegun, Stage, Finishing
<1>5. QED
  BY <1>3, <1>4

\* Or it is, and ends now.
LEMMA PendingAbortedFinished ==
  ASSUME NEW p \in Operations, NEW q \in Operations, NEW d \in [Kinds -> Nat], NEW e,
         NEW c \in {"busy", "aborted"}, Fits(p, Tally(d), c), NEW h, NEW ch,
         Pending(p, d, h, ch), NEW i \in {"abort", "abort_now"}, Swap(d, e, i, "end_now"), d[i] > 0,
         d["trev"] = 0, i = "abort" => Only(d, Kinds \ Rest),
         p.state = "FINISH", q.state = "FINISH", Alike(p, q)
  PROVE  Pending(q, e, h, ch)
<1>1. Shared(p, d, c) /\ p.replies = 0
  BY SharedIs, AskedReferences DEF CtlStates
<1>2. Stage(p, c)
  BY DEF Fits
<1>3. QED
  BY <1>1, <1>2, SwapIs, Counts, OnlyThese, NothingHalfway, KindsAre
     DEF Pending, Asked, Connection, Unconnected, OneOf, Rest, One, Nobody, Shared, Alike, AlikeButFailed,
         AlikeButBegun, Stage, Finishing

\* An abort before the connection is asked for.
LEMMA PendingAbortsEarly ==
  ASSUME NEW p \in Operations, NEW q \in Operations, NEW d \in [Kinds -> Nat], NEW e,
         NEW c \in {"busy", "aborted"}, Fits(p, Tally(d), c), NEW h, NEW ch,
         Pending(p, d, h, ch), Swap(d, e, Nobody, Nobody), p.begun,
         p.state = "REQUESTING", q.state = "ABORTING", Alike(p, q)
  PROVE  Pending(q, e, h, ch)
<1>1. Shared(p, d, c) /\ p.replies = 0
  BY SharedIs, AskedReferences DEF CtlStates
<1>2. Stage(p, c)
  BY DEF Fits
<1>3. QED
  BY <1>1, <1>2, SwapIs, Counts, OnlyThese, NothingHalfway, KindsAre
     DEF Pending, Asked, Connection, Unconnected, OneOf, Rest, One, Nobody, Shared, Alike, AlikeButFailed,
         AlikeButBegun, Stage, Finishing

\* An abort closes the channel.
LEMMA PendingAborts ==
  ASSUME NEW p \in Operations, NEW q \in Operations, NEW d \in [Kinds -> Nat], NEW e,
         NEW c \in {"busy", "aborted"}, Fits(p, Tally(d), c), NEW h, NEW ch \in {"open", "closing", "none"},
         Pending(p, d, h, ch), Only(d, Kinds \ Rest), Swap(d, e, Nobody, "abort_fc"), ch = "open",
         p.state \in {"CONNECTING", "CONNECTED"}, q.state = "ABORT_CLOSING", Alike(p, q)
  PROVE  Pending(q, e, "CLOSING", "closing")
<1>1. Shared(p, d, c) /\ p.replies = 0
  BY SharedIs, AskedReferences DEF CtlStates
<1>2. Stage(p, c)
  BY DEF Fits
<1>3. CASE p.state = "CONNECTED"
  BY <1>1, <1>2, <1>3, SwapIs, Counts, OnlyThese, NothingHalfway, KindsAre
     DEF Pending, Asked, Connection, Unconnected, OneOf, Rest, One, Nobody, Shared, Alike, AlikeButFailed,
         AlikeButBegun, Stage, Finishing
<1>4. CASE p.state = "CONNECTING"
  BY <1>1, <1>2, <1>4, SwapIs, Counts, OnlyThese, NothingHalfway, KindsAre
     DEF Pending, Asked, Connection, Unconnected, OneOf, Rest, One, Nobody, Shared, Alike, AlikeButFailed,
         AlikeButBegun, Stage, Finishing
<1>5. QED
  BY <1>3, <1>4

\* An abort finds the channel gone.
LEMMA PendingAbortsGone ==
  ASSUME NEW p \in Operations, NEW q \in Operations, NEW d \in [Kinds -> Nat], NEW e,
         NEW c \in {"busy", "aborted"}, Fits(p, Tally(d), c), NEW h, NEW ch \in {"open", "closing", "none"},
         Pending(p, d, h, ch), Only(d, Kinds \ Rest), Swap(d, e, Nobody, "abort"), ch = "none",
         p.state \in {"CONNECTING", "CONNECTED"}, q.state = "ABORT_CLOSING", Alike(p, q)
  PROVE  Pending(q, e, "CLOSING", "none")
<1>1. Shared(p, d, c) /\ p.replies = 0
  BY SharedIs, AskedReferences DEF CtlStates
<1>2. Stage(p, c)
  BY DEF Fits
<1>3. CASE p.state = "CONNECTED"
  BY <1>1, <1>2, <1>3, SwapIs, Counts, OnlyThese, NothingHalfway, KindsAre
     DEF Pending, Asked, Connection, Unconnected, OneOf, Rest, One, Nobody, Shared, Alike, AlikeButFailed,
         AlikeButBegun, Stage, Finishing
<1>4. CASE p.state = "CONNECTING"
  BY <1>1, <1>2, <1>4, SwapIs, Counts, OnlyThese, NothingHalfway, KindsAre
     DEF Pending, Asked, Connection, Unconnected, OneOf, Rest, One, Nobody, Shared, Alike, AlikeButFailed,
         AlikeButBegun, Stage, Finishing
<1>5. QED
  BY <1>3, <1>4

-----------------------------------------------------------------------------
(* The steps of an operation that is not answered keep its course.          *)

\* A callback has run, and another one is registered.
Ran(d, i) == [d EXCEPT ![i] = @ - 1]
Due(d, j) == [d EXCEPT ![j] = @ + 1]

\* What is on its way after that.
LEMMA RunsHas ==
  ASSUME IInv, NEW o \in Ops, NEW i \in Kinds, due[o][i] > 0
  PROVE  /\ Has(Taken(i, o), o, op[o], Ran(due[o], i), handle, session, channel, broken)
         /\ Swap(due[o], Ran(due[o], i), i, Nobody)
         /\ \A j \in Kinds :
              /\ Has(Later(Taken(i, o), o, j), o, op[o], Due(Ran(due[o], i), j), handle, session, channel, broken)
              /\ Swap(due[o], Due(Ran(due[o], i), j), i, j)
<1>1. Typed /\ due[o] \in [Kinds -> Nat]
  BY Fitting DEF IInv
<1>2. Has(Taken(i, o), o, op[o], Ran(due[o], i), handle, session, channel, broken)
  BY <1>1, TakenHas DEF Ran
<1>3. \A j \in Kinds : Has(Later(Taken(i, o), o, j), o, op[o], Due(Ran(due[o], i), j), handle, session, channel, broken)
  BY <1>2, LaterHas DEF Due
<1>4. Swap(due[o], Ran(due[o], i), i, Nobody) /\ \A j \in Kinds : Swap(due[o], Due(Ran(due[o], i), j), i, j)
  BY <1>1, Swaps DEF Ran, Due
<1>5. QED
  BY <1>2, <1>3, <1>4

\* In the event loop nothing else is halfway, and a marker comes before the end.
LEMMA NobodyHalfway ==
  ASSUME OneLoop, NEW o \in Ops, Turn
  PROVE  Only(due[o], Kinds \ Rest) /\ (TurnOf(o) => due[o]["trev"] = 0)
BY DEF OneLoop, Turn, TurnOf, Only

\* The reference of a callback of an operation that is not answered is not the last.
LEMMA NotLast ==
  ASSUME IInv, NEW o \in Ops, ctl[o] \in {"busy", "aborted"}
  PROVE  /\ op[o].ref \in Int /\ op[o].ref > 0 /\ (op[o].begun => op[o].ref > 1)
         /\ \A k \in Beginning \cup Connecting \cup Aborting \cup Marking : due[o][k] > 0 => op[o].ref > 1
BY Fitting, AskedReferences

\* An operation with one reference less.
LEMMA LessIsAlike ==
  ASSUME NEW p \in Operations
  PROVE  /\ Less(p) \in Operations /\ Less(p).state = p.state /\ Less(p).live = p.live
         /\ Less(p).ref = p.ref - 1 /\ Less(p).delayed = p.delayed
         /\ Alike(p, Less(p)) /\ Alike(p, p)
BY DEF Operations, Less, Alike, AlikeButFailed

\* TrevKickout keeps the course.
LEMMA TrevKickoutOnCourse ==
  ASSUME IInv, IInv', OnCourse, OneLoop, NEW o \in Ops, TrevKickout(o)
  PROVE  OnCourse'
<1> DEFINE e == Due(Ran(due[o], "trev"), "trev2")
           c == op[o].state \in {"CONNECTING", "CONNECTED", "ABORTING", "ABORT_CLOSING",
                                 "FINISH", "FINISH_WITH_ERROR"}
           s == Later(Taken("trev", o), o, "trev2")
<1>1. due[o]["trev"] > 0 /\ Turn /\ Becomes(Must(s, c)) /\ UNCHANGED half
  BY DEF TrevKickout
<1>2. PendingAt(o)
  BY <1>1, FindsPending, KindsAre
<1>3. Has(s, o, op[o], e, handle, session, channel, broken) /\ Swap(due[o], e, "trev", "trev2")
  BY <1>1, RunsHas, KindsAre
<1>4. op[o] \in Operations /\ due[o] \in [Kinds -> Nat] /\ Fits(op[o], Tally(due[o]), ctl[o])
  BY Fitting
<1>5. Pending(op[o], e, handle.state, channel)
  <2>1. Only(due[o], Kinds \ Rest) /\ Alike(op[o], op[o])
    BY <1>1, <1>4, NobodyHalfway, LessIsAlike
  <2> HIDE DEF e
  <2>2. QED
    BY <1>1, <1>2, <1>3, <1>4, <2>1, PendingTrev DEF PendingAt
<1>6. c
  BY <1>1, <1>2, <1>4 DEF PendingAt, Pending, Asked, Unconnected, Operations, OpStates, Fits, Stage
<1>7. Has(Must(s, c), o, op[o], e, handle, session, channel, broken)
  <2> HIDE DEF s, c, e
  <2> QED
    BY <1>3, <1>6, MustHas
<1>8. QED
  BY <1>1, <1>2, <1>5, <1>7, OnPending

\* TrevKickoutEnds keeps it.
LEMMA TrevKickoutEndsOnCourse ==
  ASSUME IInv, IInv', OnCourse, OneLoop, NEW o \in Ops, TrevKickoutEnds(o)
  PROVE  OnCourse'
<1> DEFINE e == Ran(due[o], "trev2")
           s == Taken("trev2", o)
<1>1. due[o]["trev2"] > 0 /\ Becomes(Release(s, o)) /\ UNCHANGED half
  BY DEF TrevKickoutEnds
<1>2. PendingAt(o)
  BY <1>1, FindsPending, KindsAre
<1>3. Has(s, o, op[o], e, handle, session, channel, broken) /\ Swap(due[o], e, "trev2", Nobody)
  BY <1>1, RunsHas, KindsAre
<1>4. op[o] \in Operations /\ due[o] \in [Kinds -> Nat] /\ Fits(op[o], Tally(due[o]), ctl[o])
  BY Fitting
<1>5. Pending(Less(op[o]), e, handle.state, channel)
  BY <1>1, <1>2, <1>3, <1>4, LessIsAlike, PendingTrev2 DEF PendingAt
<1>6. op[o].ref # 0 /\ op[o].ref # 1
  BY <1>1, <1>2, NotLast DEF PendingAt, Marking
<1>7. Has(Release(s, o), o, Less(op[o]), e, handle, session, channel, broken)
  <2> HIDE DEF s, e
  <2> QED
    BY <1>3, <1>6, ReleaseHas
<1>8. Less(op[o]).live = op[o].live
  BY <1>4, LessIsAlike
<1>9. QED
  BY <1>1, <1>2, <1>5, <1>7, <1>8, OnPending

\* BeginAborted keeps it.
LEMMA BeginAbortedOnCourse ==
  ASSUME IInv, IInv', OnCourse, OneLoop, NEW o \in Ops, BeginAborted(o)
  PROVE  OnCourse'
<1> DEFINE e == Ran(due[o], "begin_abort")
           s == Taken("begin_abort", o)
           t == Release(s, o)
<1>1. /\ due[o]["begin_abort"] > 0 /\ UNCHANGED half
      /\ Becomes(IF Last(t, o) THEN [t EXCEPT !.handle.outstanding = None] ELSE t)
  BY DEF BeginAborted
<1>2. PendingAt(o)
  BY <1>1, FindsPending, KindsAre
<1>3. Has(s, o, op[o], e, handle, session, channel, broken) /\ Swap(due[o], e, "begin_abort", Nobody)
  BY <1>1, RunsHas, KindsAre
<1>4. op[o] \in Operations /\ due[o] \in [Kinds -> Nat] /\ Fits(op[o], Tally(due[o]), ctl[o])
  BY Fitting
<1>5. Pending(Less(op[o]), e, handle.state, channel)
  BY <1>1, <1>2, <1>3, <1>4, LessIsAlike, PendingBegunAborted DEF PendingAt
<1>6. op[o].ref \in Int /\ op[o].ref > 1
  BY <1>1, <1>2, NotLast DEF PendingAt, Beginning
<1>7. Has(t, o, Less(op[o]), e, handle, session, channel, broken)
  <2> HIDE DEF s, e
  <2> QED
    BY <1>3, <1>6, ReleaseHas
<1>8. Less(op[o]).live = op[o].live /\ Less(op[o]).ref = op[o].ref - 1
  BY <1>4, LessIsAlike
<1> HIDE DEF t, e
<1>9. Becomes(t)
  BY <1>1, <1>6, <1>7, <1>8 DEF Has, Last
<1>10. QED
  BY <1>1, <1>2, <1>5, <1>7, <1>8, <1>9, OnPending

\* Marker keeps it.
LEMMA MarkerOnCourse ==
  ASSUME IInv, IInv', OnCourse, OneLoop, NEW o \in Ops, Marker(o)
  PROVE  OnCourse'
<1> DEFINE e == Due(due[o], "trev")
           s == Later(Data, o, "trev")
           q1 == [op[o] EXCEPT !.ref = @ + 1]
           q == [q1 EXCEPT !.markers = @ + 1]
           t == [Kept(s, o) EXCEPT !.op[o].markers = @ + 1]
<1>1. /\ ctl[o] \in {"busy", "aborted"} /\ op[o].state = "CONNECTED"
      /\ Becomes(t) /\ UNCHANGED half
  BY DEF Marker
<1>2. PendingAt(o)
  BY <1>1, IsPending
<1>3. op[o] \in Operations /\ due[o] \in [Kinds -> Nat] /\ Fits(op[o], Tally(due[o]), ctl[o]) /\ Typed
  BY Fitting DEF IInv
<1>4. Has(s, o, op[o], e, handle, session, channel, broken) /\ Swap(due[o], e, Nobody, "trev")
  BY <1>3, DataHas, LaterHas, Swaps, KindsAre, ZenonT(30) DEF Due
<1>5. Has(Kept(s, o), o, q1, e, handle, session, channel, broken)
  <2> HIDE DEF s, e
  <2> QED
    BY <1>4, KeptHas
<1>6. q1 \in Operations /\ Alike(op[o], q1) /\ q1.state = op[o].state /\ q1.live = op[o].live
  BY <1>3 DEF Operations, Alike, AlikeButFailed
<1>7. q \in Operations /\ Alike(q1, q) /\ q.state = q1.state /\ q.live = q1.live
  <2> HIDE DEF q1
  <2> QED
    BY <1>6 DEF Operations, Alike, AlikeButFailed
<1>8. Alike(op[o], q) /\ q.state = "CONNECTED" /\ q.live = op[o].live
  BY <1>1, <1>6, <1>7 DEF Alike, AlikeButFailed
<1>9. Has(t, o, q, e, handle, session, channel, broken)
  <2> DEFINE k == Kept(s, o)
  <2>1. Has(k, o, q1, e, handle, session, channel, broken)
    BY <1>5
  <2> HIDE DEF k, q1, e
  <2>2. k.op[o] = q1
    BY <2>1 DEF Has
  <2>3. [k EXCEPT !.op[o].markers = @ + 1] = [k EXCEPT !.op[o] = q]
    BY <2>2
  <2>4. Has([k EXCEPT !.op[o] = q], o, q, e, handle, session, channel, broken)
    <3> HIDE DEF q
    <3> QED
      BY <1>7, <2>1, PutOp
  <2>5. QED
    BY <2>3, <2>4 DEF k
<1>10. Pending(q, e, handle.state, channel)
  <2> HIDE DEF q, e
  <2> QED
    BY <1>1, <1>2, <1>3, <1>4, <1>7, <1>8, PendingMarker DEF PendingAt
<1> HIDE DEF q, e, t
<1>11. QED
  BY <1>1, <1>2, <1>8, <1>9, <1>10, OnPending

\* The handle's state is all that changes of it.
LEMMA HandleIs ==
  ASSUME NEW h \in Handles, NEW v \in HandleStates
  PROVE  LET g == [h EXCEPT !.state = v]
         IN g \in Handles /\ g.state = v /\ g.outstanding = h.outstanding /\ g.freed = h.freed
BY DEF Handles

\* What is known of an operation that is not answered, for the lemmas above.
LEMMA PendingFacts ==
  ASSUME IInv, NEW o \in Ops, PendingAt(o)
  PROVE  /\ op[o] \in Operations /\ due[o] \in [Kinds -> Nat] /\ ctl[o] \in {"busy", "aborted"}
         /\ Fits(op[o], Tally(due[o]), ctl[o]) /\ Alike(op[o], op[o])
         /\ Pending(op[o], due[o], handle.state, channel) /\ Stage(op[o], ctl[o])
         /\ handle \in Handles /\ handle.outstanding = o /\ channel \in {"open", "closing", "none"}
<1>1. op[o] \in Operations /\ due[o] \in [Kinds -> Nat] /\ Fits(op[o], Tally(due[o]), ctl[o])
  BY Fitting
<1>2. Alike(op[o], op[o]) /\ Stage(op[o], ctl[o])
  BY <1>1, LessIsAlike DEF Fits
<1>3. handle \in Handles /\ channel \in {"open", "closing", "none"}
  <2>1. Data \in Blocks /\ Data.channel = channel
    BY DataIs
  <2>2. Data.channel \in {"open", "closing", "none"}
    BY <2>1 DEF Blocks
  <2>3. QED
    BY <2>1, <2>2, DataIs
<1>4. QED
  BY <1>1, <1>2, <1>3 DEF PendingAt, Named

\* A failed write finds the handle in use.
LEMMA ErrorHas ==
  ASSUME NEW s, NEW o \in Ops, NEW p, NEW d, NEW h, NEW x, NEW ch, NEW b,
         Has(s, o, p, d, h, x, ch, b), h.outstanding = o, h.state = "INUSE"
  PROVE  Has(CallbackError(s), o, p, d, [h EXCEPT !.state = "TE_PRE_CLOSED"], x, ch, b)
<1>1. s.handle = h /\ o # None /\ "TE_PRE_CLOSED" \in HandleStates
  BY DEF Has, HandleStates
<1>2. CallbackError(s) = [s EXCEPT !.handle.state = "TE_PRE_CLOSED"]
  BY <1>1 DEF CallbackError
<1>3. QED
  BY <1>1, <1>2, HandleHas

\* The end of a transfer that leaves the channel, or finds it gone.
LEMMA OverFacts ==
  ASSUME IInv, NEW o \in Ops, PendingAt(o), NEW e, NEW k \in {"write_eof", "send_eof", "end_read"},
         due[o][k] > 0,
         Swap(due[o], e, k, "end_now"), due[o]["trev"] = 0, Only(due[o], Kinds \ Rest),
         NEW g \in {"INUSE", "TE_PRE_CLOSED"}
  PROVE  Pending(op[o], e, g, channel) /\ Pending(op[o], e, g, "none")
<1> DEFINE p == op[o]
           d == due[o]
           c == ctl[o]
           h == handle.state
<1>1. /\ p \in Operations /\ d \in [Kinds -> Nat] /\ c \in {"busy", "aborted"}
      /\ Fits(p, Tally(d), c) /\ Pending(p, d, h, channel)
      /\ Swap(d, e, k, "end_now") /\ d[k] > 0 /\ d["trev"] = 0 /\ Only(d, Kinds \ Rest)
  BY PendingFacts
<1> HIDE DEF p, d, c, h
<1>2. Pending(p, e, g, channel) /\ Pending(p, e, g, "none")
  BY <1>1, PendingOver
<1>3. QED
  BY <1>2 DEF p

\* SendEofCb keeps the course.
LEMMA SendEofCbOnCourse ==
  ASSUME IInv, IInv', OnCourse, OneLoop, NEW o \in Ops, SendEofCb(o)
  PROVE  OnCourse'
<1> DEFINE e == Due(Ran(due[o], "send_eof"), "end_now")
           s == Taken("send_eof", o)
           t == IF channel = "open" THEN s ELSE CallbackError(s)
           v == IF channel = "open" THEN "INUSE" ELSE "TE_PRE_CLOSED"
           g == [handle EXCEPT !.state = v]
<1>1. TurnOf(o) /\ due[o]["send_eof"] > 0 /\ Becomes(Later(t, o, "end_now")) /\ UNCHANGED half
  BY DEF SendEofCb
<1>2. PendingAt(o)
  BY <1>1, FindsPending, KindsAre
<1>3. /\ Has(s, o, op[o], Ran(due[o], "send_eof"), handle, session, channel, broken)
      /\ Swap(due[o], e, "send_eof", "end_now")
  BY <1>1, RunsHas, KindsAre
<1>4. handle.state = "INUSE" /\ v \in {"INUSE", "TE_PRE_CLOSED"} /\ v \in HandleStates
  BY <1>1, <1>2, PendingFacts DEF Pending, Asked, HandleStates
<1>5. g \in Handles /\ g.state = v /\ g.outstanding = handle.outstanding /\ g.freed = handle.freed
  BY <1>2, <1>4, PendingFacts, HandleIs
<1>6. Has(t, o, op[o], Ran(due[o], "send_eof"), g, session, channel, broken)
  <2>1. CASE channel = "open"
    <3>1. g = handle
      BY <1>2, <1>4, <2>1, PendingFacts DEF Handles
    <3>2. QED
      BY <1>3, <2>1, <3>1
  <2>2. CASE channel # "open"
    <3> HIDE DEF s
    <3> QED
      BY <1>2, <1>3, <1>4, <2>2, PendingFacts, ErrorHas
  <2>3. QED
    BY <2>1, <2>2
<1>7. Has(Later(t, o, "end_now"), o, op[o], e, g, session, channel, broken)
  <2> HIDE DEF t, g
  <2> QED
    BY <1>6, LaterHas, KindsAre DEF Due
<1>8. Pending(op[o], e, g.state, channel)
  <2>1. Only(due[o], Kinds \ Rest) /\ due[o]["trev"] = 0
    BY <1>1, NobodyHalfway DEF TurnOf
  <2> HIDE DEF e, g, v
  <2>2. QED
    BY <1>1, <1>2, <1>3, <1>4, <1>5, <2>1, OverFacts
<1> HIDE DEF t, e, g
<1>9. QED
  BY <1>1, <1>2, <1>5, <1>7, <1>8, OnPending

\* A close of the channel returns: from nothing else to the kind that goes on.
LEMMA ClosedOnCourse ==
  ASSUME IInv, IInv', OnCourse, OneLoop, NEW o \in Ops, Quiet,
         NEW k, NEW j, (k = "finish_fc" /\ j = "end_now") \/ (k = "abort_fc" /\ j = "abort_now"),
         due[o][k] > 0, Becomes(Later(ForceCloseReturns(Closed(k, o), o), o, j)), UNCHANGED half
  PROVE  OnCourse'
<1> DEFINE e == Due(Ran(due[o], k), j)
           s == Taken(k, o)
           t == [s EXCEPT !.channel = "none"]
           u == ForceCloseReturns(t, o)
           g == [handle EXCEPT !.state = "TE_PRE_CLOSED"]
<1>1. /\ TurnOf(o) /\ due[o]["begin_cb"] = 0 /\ Closed(k, o) = t /\ k \in Kinds /\ j \in Kinds
      /\ k \notin {"end2", "post", "complete_fc"}
  BY KindsAre DEF Quiet, Library, Closed
<1>2. PendingAt(o)
  BY <1>1, FindsPending
<1>3. /\ Has(s, o, op[o], Ran(due[o], k), handle, session, channel, broken)
      /\ Swap(due[o], e, k, j)
  BY <1>1, RunsHas
<1>4. handle.state = "CLOSING"
  BY <1>2, PendingFacts DEF Pending, Asked
<1>5. g \in Handles /\ g.state = "TE_PRE_CLOSED" /\ g.outstanding = handle.outstanding /\ g.freed = handle.freed
  BY <1>2, PendingFacts, HandleIs DEF HandleStates
<1>6. Has(t, o, op[o], Ran(due[o], k), handle, session, "none", broken)
  <2> HIDE DEF s
  <2> QED
    BY <1>3, PutChannel
<1>7. Has(u, o, op[o], Ran(due[o], k), g, session, "none", broken)
  <2> HIDE DEF t
  <2> QED
    BY <1>4, <1>6, ReturnsHas
<1>8. Has(Later(u, o, j), o, op[o], e, g, session, "none", broken)
  <2> HIDE DEF u, g
  <2> QED
    BY <1>1, <1>7, LaterHas DEF Due
<1>12. /\ op[o] \in Operations /\ due[o] \in [Kinds -> Nat] /\ ctl[o] \in {"busy", "aborted"}
       /\ Fits(op[o], Tally(due[o]), ctl[o]) /\ Alike(op[o], op[o])
       /\ Pending(op[o], due[o], handle.state, channel) /\ op[o].state = op[o].state
  BY <1>2, PendingFacts
<1>9. Pending(op[o], e, g.state, "none")
  <2>1. Only(due[o], Kinds \ Rest) /\ due[o]["trev"] = 0
    BY <1>1, NobodyHalfway DEF TurnOf
  <2> HIDE DEF e, g
  <2>2. CASE k = "finish_fc" /\ j = "end_now"
    <3>1. Swap(due[o], e, "finish_fc", "end_now") /\ due[o]["finish_fc"] > 0
      BY <1>3, <2>2
    <3>2. Pending(op[o], e, "TE_PRE_CLOSED", "none")
      BY <2>1, <3>1, <1>12, PendingFinishClosed
    <3>3. QED
      BY <1>5, <3>2
  <2>3. CASE k = "abort_fc" /\ j = "abort_now"
    <3>1. Swap(due[o], e, "abort_fc", "abort_now") /\ due[o]["abort_fc"] > 0
      BY <1>3, <2>3
    <3>2. Pending(op[o], e, "TE_PRE_CLOSED", "none")
      BY <1>1, <2>1, <3>1, <1>12, PendingAbortClosed
    <3>3. QED
      BY <1>5, <3>2
  <2>4. QED
    BY <2>2, <2>3
<1>10. Becomes(Later(u, o, j))
  BY <1>1
<1> HIDE DEF u, e, g
<1>11. QED
  BY <1>2, <1>5, <1>8, <1>9, <1>10, OnPending

\* A transfer that ends closes the channel unless it is gone.
LEMMA ClosesOnCourse ==
  ASSUME IInv, IInv', OnCourse, OneLoop, NEW o \in Ops, TurnOf(o),
         NEW k \in {"write_eof", "end_read"}, due[o][k] > 0, handle.state = "INUSE", UNCHANGED half,
         Becomes(Close([Taken(k, o) EXCEPT !.handle.state = "CLOSING"], o, "finish_fc",
                       [Later(Taken(k, o), o, "end_now") EXCEPT !.handle.state = "TE_PRE_CLOSED"]))
  PROVE  OnCourse'
<1> DEFINE s == Taken(k, o)
           r == Ran(due[o], k)
           e == Due(r, "finish_fc")
           f == Due(r, "end_now")
           g == [handle EXCEPT !.state = "CLOSING"]
           h == [handle EXCEPT !.state = "TE_PRE_CLOSED"]
           a == [s EXCEPT !.handle.state = "CLOSING"]
           l == Later(s, o, "end_now")
           b == [l EXCEPT !.handle.state = "TE_PRE_CLOSED"]
           t == Close(a, o, "finish_fc", b)
<1>1. k \in Kinds /\ k \notin {"end2", "post", "complete_fc"} /\ Becomes(t)
  BY KindsAre
<1>2. PendingAt(o)
  BY <1>1, FindsPending
<1>3. /\ Has(s, o, op[o], r, handle, session, channel, broken)
      /\ Has(l, o, op[o], f, handle, session, channel, broken)
      /\ Swap(due[o], e, k, "finish_fc") /\ Swap(due[o], f, k, "end_now")
  BY <1>1, RunsHas, KindsAre
<1>4. /\ g \in Handles /\ g.state = "CLOSING" /\ g.outstanding = handle.outstanding /\ g.freed = handle.freed
      /\ h \in Handles /\ h.state = "TE_PRE_CLOSED" /\ h.outstanding = handle.outstanding
      /\ h.freed = handle.freed
  BY <1>2, PendingFacts, HandleIs, ZenonT(30) DEF HandleStates
<1>5. /\ Has(a, o, op[o], r, g, session, channel, broken)
      /\ Has(b, o, op[o], f, h, session, channel, broken)
  <2> HIDE DEF s, l, r, f
  <2> QED
    BY <1>3, HandleHas DEF HandleStates
<1>6. Only(due[o], Kinds \ Rest) /\ due[o]["trev"] = 0
  BY NobodyHalfway DEF TurnOf
<1>7. CASE channel = "open"
  <2>1. Has(t, o, op[o], e, g, session, "closing", broken)
    <3> HIDE DEF a, b, r, g
    <3>1. "finish_fc" \in Kinds /\ Has(a, o, op[o], r, g, session, channel, broken)
      BY <1>5, KindsAre
    <3>2. Has(t, o, op[o], [r EXCEPT !["finish_fc"] = @ + 1], g, session, "closing", broken)
      BY <1>7, <3>1, CloseHas
    <3>3. QED
      BY <3>2 DEF Due
  <2>2. Pending(op[o], e, g.state, "closing")
    <3> HIDE DEF e, g
    <3> QED
      BY <1>2, <1>3, <1>4, <1>7, PendingFacts, PendingCloses
  <2> HIDE DEF t, e, g
  <2>3. QED
    BY <1>1, <1>2, <1>4, <2>1, <2>2, OnPending
<1>8. CASE channel # "open"
  <2>1. Has(t, o, op[o], f, h, session, channel, broken)
    <3> HIDE DEF a, b, r, g, f, h
    <3>1. "finish_fc" \in Kinds /\ Has(a, o, op[o], r, g, session, channel, broken)
      BY <1>5, KindsAre
    <3>2. t = b
      BY <1>8, <3>1 DEF Close, Has
    <3>3. QED
      BY <1>5, <3>2
  <2>2. Pending(op[o], f, h.state, channel)
    <3> HIDE DEF f, h
    <3> QED
      BY <1>2, <1>3, <1>4, <1>6, OverFacts
  <2> HIDE DEF t, f, h
  <2>3. QED
    BY <1>1, <1>2, <1>4, <2>1, <2>2, OnPending
<1>9. QED
  BY <1>7, <1>8

\* EndReadKickout keeps it.
LEMMA EndReadKickoutOnCourse ==
  ASSUME IInv, IInv', OnCourse, OneLoop, NEW o \in Ops, EndReadKickout(o)
  PROVE  OnCourse'
<1> DEFINE e == Due(Ran(due[o], "end_read"), "end_now")
           s == Taken("end_read", o)
<1>1. TurnOf(o) /\ due[o]["end_read"] > 0 /\ UNCHANGED half
  BY DEF EndReadKickout
<1>2. PendingAt(o)
  BY <1>1, FindsPending, KindsAre
<1>3. handle.state = "INUSE"
  BY <1>1, <1>2, PendingFacts DEF Pending, Asked
<1>4. CASE extended
  <2>1. Becomes(Later(s, o, "end_now"))
    BY <1>3, <1>4 DEF EndReadKickout
  <2>2. /\ Has(Later(s, o, "end_now"), o, op[o], e, handle, session, channel, broken)
        /\ Swap(due[o], e, "end_read", "end_now")
    BY <1>1, RunsHas, KindsAre
  <2>3. Only(due[o], Kinds \ Rest) /\ due[o]["trev"] = 0
    BY <1>1, NobodyHalfway DEF TurnOf
  <2>4. Pending(op[o], e, handle.state, channel)
    <3> HIDE DEF e
    <3> QED
      BY <1>1, <1>2, <1>3, <2>2, <2>3, OverFacts
  <2> HIDE DEF s, e
  <2>5. QED
    BY <1>1, <1>2, <2>1, <2>2, <2>4, OnPending
<1>5. CASE ~extended
  <2>1. Becomes(Close([s EXCEPT !.handle.state = "CLOSING"], o, "finish_fc",
                      [Later(s, o, "end_now") EXCEPT !.handle.state = "TE_PRE_CLOSED"]))
    BY <1>3, <1>5 DEF EndReadKickout
  <2>2. QED
    BY <1>1, <1>3, <2>1, ClosesOnCourse
<1>6. QED
  BY <1>4, <1>5

\* WriteEofCb keeps it.
LEMMA WriteEofCbOnCourse ==
  ASSUME IInv, IInv', OnCourse, OneLoop, NEW o \in Ops, WriteEofCb(o)
  PROVE  OnCourse'
<1> DEFINE s == Taken("write_eof", o)
           r == Ran(due[o], "write_eof")
           e == Due(r, "end_now")
           f == Due(r, "send_eof")
           h == [handle EXCEPT !.state = "TE_PRE_CLOSED"]
           l == Later(s, o, "end_now")
           b == [l EXCEPT !.handle.state = "TE_PRE_CLOSED"]
           t == [b EXCEPT !.channel = "none"]
           u == CallbackError(s)
<1>1. TurnOf(o) /\ due[o]["write_eof"] > 0 /\ UNCHANGED half
  BY DEF WriteEofCb
<1>2. PendingAt(o)
  BY <1>1, FindsPending, KindsAre
<1>3. handle.state = "INUSE"
  BY <1>1, <1>2, PendingFacts DEF Pending, Asked
<1>4. \/ channel # "open" /\ Becomes(Later(u, o, "end_now"))
      \/ Becomes(Later(s, o, "send_eof"))
      \/ Becomes(Close([s EXCEPT !.handle.state = "CLOSING"], o, "finish_fc", b))
      \/ Becomes(t)
  BY <1>3 DEF WriteEofCb
<1>5. /\ Has(s, o, op[o], r, handle, session, channel, broken)
      /\ Has(l, o, op[o], e, handle, session, channel, broken)
      /\ Has(Later(s, o, "send_eof"), o, op[o], f, handle, session, channel, broken)
      /\ Swap(due[o], e, "write_eof", "end_now") /\ Swap(due[o], f, "write_eof", "send_eof")
  BY <1>1, RunsHas, KindsAre
<1>6. /\ h \in Handles /\ h.state = "TE_PRE_CLOSED" /\ h.outstanding = handle.outstanding
      /\ h.freed = handle.freed
  BY <1>2, PendingFacts, HandleIs DEF HandleStates
<1>7. Only(due[o], Kinds \ Rest) /\ due[o]["trev"] = 0
  BY <1>1, NobodyHalfway DEF TurnOf
<1>8. Pending(op[o], e, h.state, channel) /\ Pending(op[o], e, h.state, "none")
  <2> HIDE DEF e, h
  <2> QED
    BY <1>1, <1>2, <1>5, <1>6, <1>7, OverFacts
<1>9. CASE Becomes(Later(u, o, "end_now"))
  <2>1. Has(u, o, op[o], r, h, session, channel, broken)
    <3> HIDE DEF s, r
    <3> QED
      BY <1>2, <1>3, <1>5, PendingFacts, ErrorHas
  <2>2. Has(Later(u, o, "end_now"), o, op[o], e, h, session, channel, broken)
    <3> HIDE DEF u, r, h
    <3> QED
      BY <2>1, LaterHas, KindsAre DEF Due
  <2> HIDE DEF u, e, h
  <2>3. QED
    BY <1>1, <1>2, <1>6, <1>8, <1>9, <2>2, OnPending
<1>10. CASE Becomes(Later(s, o, "send_eof"))
  <2>1. Pending(op[o], f, handle.state, channel)
    <3> HIDE DEF f
    <3> QED
      BY <1>1, <1>2, <1>5, PendingFacts, PendingSendEof
  <2> HIDE DEF s, f
  <2>2. QED
    BY <1>1, <1>2, <1>5, <1>10, <2>1, OnPending
<1>11. CASE Becomes(Close([s EXCEPT !.handle.state = "CLOSING"], o, "finish_fc", b))
  BY <1>1, <1>3, <1>11, ClosesOnCourse
<1>12. CASE Becomes(t)
  <2>1. Has(b, o, op[o], e, h, session, channel, broken)
    <3> HIDE DEF l, e
    <3> QED
      BY <1>5, HandleHas DEF HandleStates
  <2>2. Has(t, o, op[o], e, h, session, "none", broken)
    <3> HIDE DEF b, e, h
    <3> QED
      BY <2>1, PutChannel
  <2> HIDE DEF t, e, h
  <2>3. QED
    BY <1>1, <1>2, <1>6, <1>8, <1>12, <2>2, OnPending
<1>13. QED
  BY <1>4, <1>9, <1>10, <1>11, <1>12

\* FinishFcCb keeps the course.
LEMMA FinishFcCbOnCourse ==
  ASSUME IInv, IInv', OnCourse, OneLoop, NEW o \in Ops, FinishFcCb(o)
  PROVE  OnCourse'
<1>1. /\ Quiet /\ due[o]["finish_fc"] > 0 /\ UNCHANGED half
      /\ Becomes(Later(ForceCloseReturns(Closed("finish_fc", o), o), o, "end_now"))
  BY DEF FinishFcCb
<1>2. QED
  BY <1>1, ClosedOnCourse

\* AbortFcCb keeps it.
LEMMA AbortFcCbOnCourse ==
  ASSUME IInv, IInv', OnCourse, OneLoop, NEW o \in Ops, AbortFcCb(o)
  PROVE  OnCourse'
<1>1. /\ Quiet /\ due[o]["abort_fc"] > 0 /\ UNCHANGED half
      /\ Becomes(Later(ForceCloseReturns(Closed("abort_fc", o), o), o, "abort_now"))
  BY DEF AbortFcCb
<1>2. QED
  BY <1>1, ClosedOnCourse

\* LinkDown keeps it.
LEMMA LinkDownOnCourse ==
  ASSUME IInv, IInv', OnCourse, OneLoop, LinkDown
  PROVE  OnCourse'
<1> DEFINE s == [Data EXCEPT !.channel = "none"]
<1>1. /\ channel' = "none" /\ op' = op /\ handle' = handle /\ session' = session
      /\ due' = due /\ broken' = broken /\ UNCHANGED half
  BY DEF LinkDown
<1>2. PICK o \in Ops : op[o].state = "CONNECTED"
  BY DEF LinkDown
<1>3. PendingAt(o)
  BY <1>2, NamedIs, IsPending
<1>4. Has(s, o, op[o], due[o], handle, session, "none", broken)
  BY DataHas, PutChannel DEF IInv
<1>5. Becomes(s)
  BY <1>1 DEF Becomes, Data
<1>6. Swap(due[o], due[o], Nobody, Nobody)
  BY <1>3, PendingFacts, Swaps
<1>7. Pending(op[o], due[o], handle.state, "none")
  BY <1>2, <1>3, <1>6, PendingFacts, PendingLinkDown
<1> HIDE DEF s
<1>8. QED
  BY <1>1, <1>3, <1>4, <1>5, <1>7, OnPending

\* The operation's block with one reference more, or in another state.
More(p) == [p EXCEPT !.ref = @ + 1]
Enters(p, v) == [p EXCEPT !.state = v]

\* Nothing else of it changes.
LEMMA MoreIsAlike ==
  ASSUME NEW p \in Operations
  PROVE  /\ More(p) \in Operations /\ More(p).state = p.state /\ More(p).live = p.live
         /\ More(p).ref = p.ref + 1 /\ More(p).delayed = p.delayed /\ Alike(p, More(p))
         /\ More(p).finished = p.finished /\ More(p).replies = p.replies
BY DEF Operations, More, Alike, AlikeButFailed

\* Nor here.
LEMMA EntersIsAlike ==
  ASSUME NEW p \in Operations, NEW v \in OpStates
  PROVE  /\ Enters(p, v) \in Operations /\ Enters(p, v).state = v /\ Enters(p, v).live = p.live
         /\ Enters(p, v).ref = p.ref /\ Enters(p, v).delayed = p.delayed /\ Alike(p, Enters(p, v))
         /\ Enters(p, v).writing = p.writing
BY DEF Operations, Enters, Alike, AlikeButFailed

\* One after the other.
LEMMA AlikeIs ==
  ASSUME NEW p, NEW q, NEW r
  PROVE  /\ Alike(p, q) /\ Alike(q, r) => Alike(p, r)
         /\ AlikeButFailed(p, q) /\ Alike(q, r) => AlikeButFailed(p, r)
BY DEF Alike, AlikeButFailed

\* The assertion after a reference is given back is for the last one.
LEMMA DropHas ==
  ASSUME NEW s, NEW o \in Ops, NEW p, NEW d, NEW h, NEW x, NEW ch, NEW b,
         Has(s, o, p, d, h, x, ch, b), p.ref # 1, p.ref # 0, NEW t, Becomes(t),
         t = LET u == Decrement(s, o) IN Must(u, Last(u, o) => u.op[o].state = "COMPLETING")
  PROVE  Has(t, o, Less(p), d, h, x, ch, b)
<1> DEFINE u == Decrement(s, o)
           c == Last(u, o) => u.op[o].state = "COMPLETING"
<1>1. Has(u, o, Less(p), d, h, x, ch, b) /\ ~Last(u, o)
  BY DecrementHas, ReleaseHas
<1>2. c /\ t = Must(u, c)
  BY <1>1
<1> HIDE DEF u, c
<1>3. QED
  BY <1>1, <1>2, MustHas

\* Begin keeps the course.
LEMMA BeginOnCourse ==
  ASSUME IInv, IInv', OnCourse, OneLoop, NEW o \in Ops, Begin(o)
  PROVE  OnCourse'
<1> DEFINE e == Due(due[o], "begin")
           s == Later(Data, o, "begin")
           q1 == [op[o] EXCEPT !.begun = TRUE]
           q == [q1 EXCEPT !.ref = @ + 2]
           a == [s EXCEPT !.op[o].begun = TRUE]
           t == [a EXCEPT !.op[o].ref = @ + 2]
<1>1. /\ Turn /\ op[o].live /\ ~op[o].begun /\ ~op[o].finished /\ Becomes(t) /\ UNCHANGED half
  BY DEF Begin
<1>2. PendingAt(o)
  BY <1>1, NamedIs, IsPending
<1>3. op[o] \in Operations /\ Typed
  BY Fitting DEF IInv
<1>4. Has(s, o, op[o], e, handle, session, channel, broken) /\ Swap(due[o], e, Nobody, "begin")
  BY <1>2, <1>3, PendingFacts, DataHas, LaterHas, Swaps, KindsAre, ZenonT(30) DEF Due
<1>5. q1 \in Operations /\ AlikeButBegun(op[o], q1) /\ q1.begun /\ q1.state = op[o].state /\ q1.live = op[o].live
  BY <1>3 DEF Operations, AlikeButBegun
<1>6. q \in Operations /\ AlikeButBegun(op[o], q) /\ q.begun /\ q.state = op[o].state /\ q.live = op[o].live
  <2> HIDE DEF q1
  <2> QED
    BY <1>5 DEF Operations, AlikeButBegun
<1>7. Has(a, o, q1, e, handle, session, channel, broken)
  <2> HIDE DEF s, e
  <2>1. a = [s EXCEPT !.op[o] = q1]
    BY <1>4 DEF Has
  <2> HIDE DEF q1, a
  <2>2. QED
    BY <1>4, <1>5, <2>1, PutOp
<1>8. Has(t, o, q, e, handle, session, channel, broken)
  <2> HIDE DEF a, q1, e
  <2>1. t = [a EXCEPT !.op[o] = q]
    BY <1>7 DEF Has
  <2> HIDE DEF q, t
  <2>2. QED
    BY <1>6, <1>7, <2>1, PutOp
<1>9. Pending(q, e, handle.state, channel)
  <2>1. Only(due[o], Kinds \ Rest)
    BY <1>1, NobodyHalfway
  <2>2. /\ due[o] \in [Kinds -> Nat] /\ ctl[o] \in {"busy", "aborted"}
        /\ Fits(op[o], Tally(due[o]), ctl[o]) /\ Pending(op[o], due[o], handle.state, channel)
    BY <1>2, PendingFacts
  <2> HIDE DEF q, e
  <2>3. QED
    BY <1>1, <1>3, <1>4, <1>6, <2>1, <2>2, PendingBegin
<1> HIDE DEF q, e, t
<1>10. QED
  BY <1>1, <1>2, <1>6, <1>8, <1>9, OnPending

\* BeginLocked keeps it.
LEMMA BeginLockedOnCourse ==
  ASSUME IInv, IInv', OnCourse, OneLoop, NEW o \in Ops, BeginLocked(o)
  PROVE  OnCourse'
<1> DEFINE p == op[o]
           s == Taken("begin", o)
           e == Due(Ran(due[o], "begin"), "begin_cb")
           f == Due(Ran(due[o], "begin"), "begin_abort")
           l == Later(s, o, "begin_cb")
           m == Later(s, o, "begin_abort")
           connect == [Kept(l, o) EXCEPT !.op[o].state = "CONNECTING"]
           abort == Kept(m, o)
           abortNow == [abort EXCEPT !.op[o].state = "ABORTING"]
           Drop(t) == LET u == Decrement(t, o) IN Must(u, Last(u, o) => u.op[o].state = "COMPLETING")
           q == Enters(More(p), "CONNECTING")
           r == Enters(More(p), "ABORTING")
<1>1. due[o]["begin"] > 0 /\ UNCHANGED half
  BY DEF BeginLocked
<1>2. PendingAt(o)
  BY <1>1, FindsPending, KindsAre
<1>3. p.state \in {"REQUESTING", "ABORTING"}
  BY <1>1, <1>2 DEF PendingAt, Pending, Asked, Connection
<1>4. \/ p.state = "REQUESTING" /\ channel = "open" /\ Becomes(Drop(connect))
      \/ p.state = "REQUESTING" /\ Becomes(Drop(abortNow))
      \/ p.state = "ABORTING" /\ Becomes(Drop(abort))
  BY <1>3 DEF BeginLocked
<1>5. /\ Has(l, o, p, e, handle, session, channel, broken) /\ Swap(due[o], e, "begin", "begin_cb")
      /\ Has(m, o, p, f, handle, session, channel, broken) /\ Swap(due[o], f, "begin", "begin_abort")
  BY <1>1, RunsHas, KindsAre
<1>6. p \in Operations /\ More(p) \in Operations /\ "CONNECTING" \in OpStates /\ "ABORTING" \in OpStates
  BY <1>2, PendingFacts, MoreIsAlike DEF OpStates
<1>7. p.ref \in Int /\ p.ref > 1 /\ More(p).ref = p.ref + 1
  BY <1>1, <1>2, <1>6, NotLast, MoreIsAlike DEF PendingAt, Beginning
<1>8. /\ Has(Kept(l, o), o, More(p), e, handle, session, channel, broken)
      /\ Has(abort, o, More(p), f, handle, session, channel, broken)
  <2> HIDE DEF l, m, e, f, p
  <2> QED
    BY <1>5, KeptHas DEF More
<1>9. Has(connect, o, q, e, handle, session, channel, broken)
  <2> DEFINE k == Kept(l, o)
  <2> HIDE DEF k, e, p
  <2>1. Has(k, o, More(p), e, handle, session, channel, broken)
    BY <1>8 DEF k
  <2>2. Has([k EXCEPT !.op[o].state = "CONNECTING"], o, q, e, handle, session, channel, broken)
    BY <1>6, <2>1, StateHas DEF Enters
  <2>3. QED
    BY <2>2 DEF k
<1>10. Has(abortNow, o, r, f, handle, session, channel, broken)
  <2> HIDE DEF abort, f, p
  <2> QED
    BY <1>6, <1>8, StateHas DEF Enters
<1>11. /\ q \in Operations /\ q.state = "CONNECTING" /\ q.live = p.live /\ Alike(p, q) /\ q.ref = p.ref + 1
       /\ r \in Operations /\ r.state = "ABORTING" /\ r.live = p.live /\ Alike(p, r) /\ r.ref = p.ref + 1
       /\ More(p).state = p.state /\ More(p).live = p.live /\ Alike(p, More(p))
  <2>1. /\ More(p) \in Operations /\ Alike(p, More(p)) /\ More(p).live = p.live /\ More(p).state = p.state
    BY <1>6, MoreIsAlike
  <2> HIDE DEF p
  <2>2. /\ q \in Operations /\ q.state = "CONNECTING" /\ q.live = p.live /\ q.ref = p.ref + 1
        /\ r \in Operations /\ r.state = "ABORTING" /\ r.live = p.live /\ r.ref = p.ref + 1
        /\ Alike(More(p), q) /\ Alike(More(p), r)
    BY <1>6, <1>7, <2>1, EntersIsAlike
  <2> HIDE DEF q, r
  <2>3. QED
    BY <2>1, <2>2, AlikeIs
<1>12. \A z \in Operations : /\ Less(z) \in Operations /\ Less(z).state = z.state /\ Less(z).live = z.live
                             /\ (Alike(p, z) => Alike(p, Less(z)))
  BY LessIsAlike, AlikeIs
<1> DEFINE g == handle.state
<1>13. /\ p \in Operations /\ due[o] \in [Kinds -> Nat] /\ ctl[o] \in {"busy", "aborted"}
       /\ Fits(p, Tally(due[o]), ctl[o]) /\ Pending(p, due[o], g, channel)
  BY <1>2, PendingFacts
<1>14. ASSUME NEW t, Becomes(Drop(t)), NEW z \in Operations, z.ref = p.ref + 1, z.live = p.live, NEW y,
              Has(t, o, z, y, handle, session, channel, broken), Pending(Less(z), y, g, channel)
       PROVE  OnCourse'
  <2>1. Has(Drop(t), o, Less(z), y, handle, session, channel, broken)
    <3>1. z.ref # 1 /\ z.ref # 0
      BY <1>7, <1>14
    <3> HIDE DEF p
    <3>2. QED
      BY <1>14, <3>1, DropHas
  <2>2. Less(z).live = op[o].live
    BY <1>12, <1>14
  <2> HIDE DEF Drop, p
  <2>3. QED
    BY <1>1, <1>2, <1>14, <2>1, <2>2, OnPending
<1> HIDE DEF connect, abort, abortNow, e, f, q, r, g, p, Drop
<1>15. CASE p.state = "REQUESTING" /\ channel = "open" /\ Becomes(Drop(connect))
  <2>1. Pending(Less(q), e, g, channel)
    BY <1>1, <1>5, <1>11, <1>12, <1>13, <1>15, PendingConnect
  <2>2. QED
    BY <1>9, <1>11, <1>14, <1>15, <2>1
<1>16. CASE p.state = "REQUESTING" /\ Becomes(Drop(abortNow))
  <2>1. Pending(Less(r), f, g, channel)
    BY <1>1, <1>5, <1>11, <1>12, <1>13, <1>16, PendingBegunAbort
  <2>2. QED
    BY <1>10, <1>11, <1>14, <1>16, <2>1
<1>17. CASE p.state = "ABORTING" /\ Becomes(Drop(abort))
  <2>1. Pending(Less(More(p)), f, g, channel)
    BY <1>1, <1>5, <1>6, <1>11, <1>12, <1>13, <1>17, PendingBegunAbort
  <2>2. QED
    BY <1>6, <1>7, <1>8, <1>11, <1>14, <1>17, <2>1
<1>18. QED
  BY <1>4, <1>15, <1>16, <1>17

\* globus_l_gfs_data_start_abort: nothing, or an abort that is noted, or one
\* that closes the channel, unless that is gone.
LEMMA StartAbortHas ==
  ASSUME NEW s, NEW o \in Ops, NEW p, NEW d, NEW h, NEW x, NEW ch, NEW b,
         Has(s, o, p, d, h, x, ch, b)
  PROVE  /\ p.state = "REQUESTING" => Has(StartAbort(s, o), o, Enters(p, "ABORTING"), d, h, x, ch, b)
         /\ p.state \in {"CONNECTING", "CONNECTED"} /\ h.state = "INUSE" =>
              IF ch = "open" /\ ~p.connectFailed
                THEN Has(StartAbort(s, o), o, Enters(More(p), "ABORT_CLOSING"), Due(d, "abort_fc"),
                         [h EXCEPT !.state = "CLOSING"], x, "closing", b)
                ELSE Has(StartAbort(s, o), o, Enters(More(p), "ABORT_CLOSING"), Due(d, "abort"),
                         [h EXCEPT !.state = "CLOSING"], x, ch, b)
         /\ p.state \notin {"REQUESTING", "CONNECTING", "CONNECTED"} => StartAbort(s, o) = s
<1> DEFINE k == Kept(Must(s, s.handle.state = "INUSE"), o)
           c1 == [k EXCEPT !.handle.state = "CLOSING"]
           c == [c1 EXCEPT !.op[o].state = "ABORT_CLOSING"]
           q == Enters(More(p), "ABORT_CLOSING")
           g == [h EXCEPT !.state = "CLOSING"]
           l == Later(c, o, "abort")
           v == Close(c, o, "abort_fc", l)
<1>1. /\ s.op[o] = p /\ s.handle = h /\ p \in Operations
      /\ "ABORTING" \in OpStates /\ "ABORT_CLOSING" \in OpStates /\ "CLOSING" \in HandleStates
      /\ "abort" \in Kinds /\ "abort_fc" \in Kinds
  BY HasTypes, KindsAre DEF Has, OpStates, HandleStates
<1>2. ASSUME p.state = "REQUESTING"
      PROVE  Has(StartAbort(s, o), o, Enters(p, "ABORTING"), d, h, x, ch, b)
  <2>1. StartAbort(s, o) = [s EXCEPT !.op[o].state = "ABORTING"]
    BY <1>1, <1>2 DEF StartAbort
  <2>2. QED
    BY <1>1, <2>1, StateHas DEF Enters
<1>3. ASSUME p.state \in {"CONNECTING", "CONNECTED"}, h.state = "INUSE"
      PROVE  IF ch = "open" /\ ~p.connectFailed
               THEN Has(StartAbort(s, o), o, q, Due(d, "abort_fc"), g, x, "closing", b)
               ELSE Has(StartAbort(s, o), o, q, Due(d, "abort"), g, x, ch, b)
  <2>1. StartAbort(s, o) = IF p.connectFailed THEN l ELSE v
    BY <1>1, <1>3 DEF StartAbort
  <2>2. Has(k, o, More(p), d, h, x, ch, b)
    <3> DEFINE w == s.handle.state = "INUSE"
    <3>1. w
      BY <1>1, <1>3
    <3> HIDE DEF w
    <3>2. Has(Must(s, w), o, p, d, h, x, ch, b)
      BY <3>1, MustHas
    <3>3. QED
      BY <3>2, KeptHas DEF More, w
  <2>3. Has(c1, o, More(p), d, g, x, ch, b)
    <3> HIDE DEF k
    <3> QED
      BY <1>1, <2>2, HandleHas
  <2>4. Has(c, o, q, d, g, x, ch, b)
    <3> HIDE DEF c1, g
    <3> QED
      BY <1>1, <2>3, StateHas DEF Enters
  <2>5. Has(l, o, q, Due(d, "abort"), g, x, ch, b)
    <3> HIDE DEF c, g, q
    <3> QED
      BY <1>1, <2>4, LaterHas DEF Due
  <2>6. ch = "open" => Has(v, o, q, Due(d, "abort_fc"), g, x, "closing", b)
    <3> HIDE DEF c, l, g, q
    <3> QED
      BY <1>1, <2>4, CloseHas DEF Due
  <2>7. ch # "open" => v = l
    <3> HIDE DEF c, l, g, q
    <3> QED
      BY <1>1, <2>4 DEF Close, Has
  <2> HIDE DEF v, l, q, g
  <2>8. QED
    BY <2>1, <2>5, <2>6, <2>7
<1>4. ASSUME p.state \notin {"REQUESTING", "CONNECTING", "CONNECTED"}
      PROVE  StartAbort(s, o) = s
  BY <1>1, <1>4 DEF StartAbort
<1>5. QED
  BY <1>2, <1>3, <1>4

\* It is still not answered, and the control half may have asked for its abort.
LEMMA OnPendingAborted ==
  ASSUME IInv', OnCourse, NEW o \in Ops, PendingAt(o), ctl' = [ctl EXCEPT ![o] = "aborted"],
         ctl \in [Ops -> CtlStates],
         UNCHANGED object, NEW s, Becomes(s),
         NEW p, NEW d, NEW h, NEW x, NEW ch, Has(s, o, p, d, h, x, ch, broken),
         h.outstanding = handle.outstanding, h.freed = handle.freed, p.live = op[o].live,
         x.destroyCb = session.destroyCb, x.freed = session.freed,
         Pending(p, d, h.state, ch)
  PROVE  OnCourse'
<1>1. ctl'[o] = "aborted" /\ object' = "inuse" /\ \A q \in Ops \ {o} : ctl'[q] = ctl[q]
  BY DEF PendingAt
<1>2. op'[o] = p /\ due'[o] = d
  BY DEF Becomes, Has
<1>3. /\ op'[o] \in Operations /\ due'[o] \in [Kinds -> Nat] /\ ctl'[o] \in CtlStates
      /\ Fits(op'[o], Tally(due'[o]), ctl'[o])
  <2>1. (op \in [Ops -> Operations] /\ due \in [Ops -> [Kinds -> Nat]])'
    BY DataIs, PTL
  <2>2. (\A q \in Ops : Sound(op[q], due[q], ctl[q]))'
    BY DEF IInv
  <2>3. (ctl \in [Ops -> CtlStates])'
    BY DEF IInv, Typed
  <2>4. QED
    BY <2>1, <2>2, <2>3 DEF Sound
<1>4. h \in Handles /\ x \in Sessions
  BY HasTypes
<1>5. Course(p, d, ctl'[o], h, x, ch, "inuse", Lost')
  BY <1>1, <1>2, <1>3, <1>4, PendingCourse DEF PendingAt
<1>6. Others(o) /\ InOrder'
  <2>1. InOrder /\ Others(o) /\ ctl[o] \notin {"idle", "ended"}
    BY DEF PendingAt, OnCourse
  <2>2. QED
    BY <1>1, <2>1, StaysInOrder
<1>7. h.outstanding = o
  BY DEF PendingAt, Named
<1>8. QED
  BY <1>1, <1>5, <1>6, <1>7, Onward

\* Abort keeps the course.
LEMMA AbortOnCourse ==
  ASSUME IInv, IInv', OnCourse, OneLoop, NEW o \in Ops, Abort(o)
  PROVE  OnCourse'
<1> DEFINE p == op[o]
           d == due[o]
           g == [handle EXCEPT !.state = "CLOSING"]
           q == Enters(More(p), "ABORT_CLOSING")
           r == Enters(p, "ABORTING")
           s == StartAbort(Data, o)
<1>1. /\ Turn \/ d["begin"] > 0
      /\ ctl[o] = "busy" /\ p.begun /\ Becomes(s) /\ ctl' = [ctl EXCEPT ![o] = "aborted"] /\ UNCHANGED object
  BY DEF Abort
<1>2. PendingAt(o)
  BY <1>1, IsPending
<1>3. /\ p \in Operations /\ d \in [Kinds -> Nat] /\ ctl[o] \in {"busy", "aborted"}
      /\ Fits(p, Tally(d), ctl[o]) /\ Alike(p, p)
      /\ Pending(p, d, handle.state, channel)
      /\ handle \in Handles /\ handle.outstanding = o /\ channel \in {"open", "closing", "none"}
  BY <1>2, PendingFacts
<1>4. Has(Data, o, p, d, handle, session, channel, broken)
  BY DataHas DEF IInv
<1>5. /\ Swap(d, d, Nobody, Nobody)
      /\ Swap(d, Due(d, "abort_fc"), Nobody, "abort_fc") /\ Swap(d, Due(d, "abort"), Nobody, "abort")
  BY <1>3, Swaps, KindsAre, ZenonT(30) DEF Due
<1>6. /\ g \in Handles /\ g.state = "CLOSING" /\ g.outstanding = handle.outstanding /\ g.freed = handle.freed
  BY <1>3, HandleIs DEF HandleStates
<1>7. /\ r \in Operations /\ r.state = "ABORTING" /\ r.live = p.live /\ Alike(p, r)
      /\ q \in Operations /\ q.state = "ABORT_CLOSING" /\ q.live = p.live /\ Alike(p, q)
  <2>1. More(p) \in Operations /\ Alike(p, More(p)) /\ More(p).live = p.live
    BY <1>3, MoreIsAlike
  <2>2. "ABORTING" \in OpStates /\ "ABORT_CLOSING" \in OpStates
    BY DEF OpStates
  <2> HIDE DEF p
  <2>3. /\ r \in Operations /\ r.state = "ABORTING" /\ r.live = p.live /\ Alike(p, r)
        /\ q \in Operations /\ q.state = "ABORT_CLOSING" /\ q.live = p.live /\ Alike(More(p), q)
    BY <1>3, <2>1, <2>2, EntersIsAlike
  <2> HIDE DEF r, q
  <2>4. QED
    BY <2>1, <2>3, AlikeIs
<1>8. ctl \in [Ops -> CtlStates]
  BY DataIs
<1>9. CASE p.state = "REQUESTING"
  <2>1. Has(s, o, r, d, handle, session, channel, broken)
    <3> HIDE DEF p, d
    <3> QED
      BY <1>4, <1>9, StartAbortHas
  <2>2. Pending(r, d, handle.state, channel)
    <3> HIDE DEF r, p, d
    <3> QED
      BY <1>1, <1>3, <1>5, <1>7, <1>9, PendingAbortsEarly
  <2> HIDE DEF s, r, d
  <2>3. QED
    BY <1>1, <1>2, <1>7, <1>8, <2>1, <2>2, OnPendingAborted
<1>10. CASE p.state \in {"CONNECTING", "CONNECTED"}
  <2>1. handle.state = "INUSE" /\ ~p.connectFailed /\ d["begin"] = 0
    BY <1>3, <1>10, Counts DEF Pending, Asked, Connection, Unconnected
  <2>2. Only(d, Kinds \ Rest)
    <3>1. Turn
      BY <1>1, <2>1
    <3>2. QED
      BY <3>1, NobodyHalfway
  <2>3. CASE channel = "open"
    <3>1. Has(s, o, q, Due(d, "abort_fc"), g, session, "closing", broken)
      <4> HIDE DEF p, d
      <4> QED
        BY <1>4, <1>10, <2>1, <2>3, StartAbortHas
    <3>2. Pending(q, Due(d, "abort_fc"), g.state, "closing")
      <4> HIDE DEF q, p, d, g
      <4>1. Pending(q, Due(d, "abort_fc"), "CLOSING", "closing")
        BY <1>3, <1>5, <1>7, <1>10, <2>2, <2>3, PendingAborts
      <4>2. QED
        BY <1>6, <4>1
    <3> HIDE DEF s, q, d, g
    <3>3. QED
      BY <1>1, <1>2, <1>6, <1>7, <1>8, <3>1, <3>2, OnPendingAborted
  <2>4. CASE channel # "open"
    <3>1. Has(s, o, q, Due(d, "abort"), g, session, channel, broken)
      <4> HIDE DEF p, d
      <4> QED
        BY <1>4, <1>10, <2>1, <2>4, StartAbortHas
    <3>2. Pending(q, Due(d, "abort"), g.state, channel)
      <4> HIDE DEF q, p, d, g
      <4>0. /\ p \in Operations /\ d \in [Kinds -> Nat] /\ Fits(p, Tally(d), ctl[o])
            /\ ctl[o] \in {"busy", "aborted"} /\ Pending(p, d, handle.state, channel)
            /\ q \in Operations /\ q.state = "ABORT_CLOSING" /\ Alike(p, q)
            /\ Swap(d, Due(d, "abort"), Nobody, "abort") /\ channel = "none"
        BY <1>3, <1>5, <1>7, <2>1, <2>4 DEF Pending, Asked
      <4>1. Pending(q, Due(d, "abort"), "CLOSING", "none")
        BY <1>10, <2>2, <4>0, PendingAbortsGone
      <4>2. QED
        BY <1>6, <4>0, <4>1
    <3> HIDE DEF s, q, d, g
    <3>3. QED
      BY <1>1, <1>2, <1>6, <1>7, <1>8, <3>1, <3>2, OnPendingAborted
  <2>5. QED
    BY <2>3, <2>4
<1>11. CASE p.state \notin {"REQUESTING", "CONNECTING", "CONNECTED"}
  <2>1. s = Data
    BY <1>4, <1>11, StartAbortHas
  <2> HIDE DEF p, d
  <2>2. p = op[o] /\ Has(s, o, p, d, handle, session, channel, broken)
    BY <1>4, <2>1 DEF p
  <2> HIDE DEF s
  <2>3. QED
    BY <1>1, <1>2, <1>3, <1>8, <2>2, OnPendingAborted
<1>12. QED
  BY <1>9, <1>10, <1>11

\* AbortKickout keeps it.
LEMMA AbortKickoutOnCourse ==
  ASSUME IInv, IInv', OnCourse, OneLoop, NEW o \in Ops, NEW k \in {"abort", "abort_now"}, AbortKickout(o, k)
  PROVE  OnCourse'
<1> DEFINE p == op[o]
           d == due[o]
           r == Ran(d, k)
           e == Due(r, "end_now")
           a == Taken(k, o)
           v == IF p.state = "ABORT_CLOSING" THEN "ABORTING" ELSE p.state
           q == Enters(p, v)
           s == [a EXCEPT !.op[o].state = v]
           c == p.state \in {"FINISH", "ABORT_CLOSING"}
           m == Must(s, c)
           t == Decrement(m, o)
           w == ~Last(t, o)
           u == Must(t, w)
<1>1. (k = "abort" => TurnOf(o)) /\ d[k] > 0 /\ UNCHANGED half /\ k \in Kinds \ {"end2", "post", "complete_fc"}
  BY KindsAre DEF AbortKickout
<1>2. PendingAt(o)
  BY <1>1, FindsPending
<1>3. /\ p \in Operations /\ d \in [Kinds -> Nat] /\ ctl[o] \in {"busy", "aborted"}
      /\ Fits(p, Tally(d), ctl[o]) /\ Alike(p, p)
      /\ Pending(p, d, handle.state, channel)
  BY <1>2, PendingFacts
<1>4. c
  <2>1. Shared(p, d, ctl[o])
    BY <1>3, SharedIs
  <2>2. QED
    BY <1>1, <2>1 DEF Shared
<1>5. v \in OpStates /\ v \in {"FINISH", "ABORTING"} /\ (v = "FINISH" <=> p.state = "FINISH")
  BY <1>4 DEF OpStates
<1>6. q \in Operations /\ q.state = v /\ q.live = p.live /\ Alike(p, q) /\ q.ref = p.ref
  <2> HIDE DEF p, v
  <2> QED
    BY <1>3, <1>5, EntersIsAlike
<1>7. p.ref \in Int /\ p.ref > 1
  BY <1>1, <1>2, NotLast DEF PendingAt, Aborting
<1>8. Less(q) \in Operations /\ Less(q).state = v /\ Less(q).live = p.live /\ Alike(p, Less(q))
  <2> HIDE DEF q, p
  <2> QED
    BY <1>6, LessIsAlike, AlikeIs
<1>9. Has(a, o, p, r, handle, session, channel, broken) /\ Swap(d, r, k, Nobody) /\ Swap(d, e, k, "end_now")
  BY <1>1, RunsHas, KindsAre
<1>10. Has(s, o, q, r, handle, session, channel, broken)
  <2> HIDE DEF a, r, p, v
  <2> QED
    BY <1>5, <1>9, StateHas DEF Enters
<1>11. Has(m, o, q, r, handle, session, channel, broken)
  <2> HIDE DEF s, c, q, r
  <2> QED
    BY <1>4, <1>10, MustHas
<1>12. Has(t, o, Less(q), r, handle, session, channel, broken) /\ w
  <2>1. q.ref # 1 /\ q.ref # 0
    BY <1>6, <1>7
  <2> HIDE DEF m, q, r
  <2>2. QED
    BY <1>11, <2>1, DecrementHas, ReleaseHas
<1>13. Has(u, o, Less(q), r, handle, session, channel, broken)
  <2> HIDE DEF t, w, q, r
  <2> QED
    BY <1>12, MustHas
<1>14. Has(Later(u, o, "end_now"), o, Less(q), e, handle, session, channel, broken)
  <2> HIDE DEF u, q, r
  <2> QED
    BY <1>13, LaterHas, KindsAre DEF Due
<1>15. Becomes(IF p.state = "FINISH" THEN Later(u, o, "end_now") ELSE u)
  <2>1. s = [a EXCEPT !.op[o].state = IF @ = "ABORT_CLOSING" THEN "ABORTING" ELSE @]
    BY <1>9 DEF Has
  <2> HIDE DEF s
  <2>2. QED
    BY <2>1 DEF AbortKickout, FinishedMeanwhile
<1>16. /\ d["trev"] = 0 /\ (k = "abort" => Only(d, Kinds \ Rest))
  <2>1. CASE k = "abort"
    BY <1>1, <2>1, NobodyHalfway DEF TurnOf
  <2>2. CASE k = "abort_now"
    BY <1>1, <1>3, <2>2, Counts DEF Pending, Asked
  <2>3. QED
    BY <2>1, <2>2
<1> HIDE DEF u, q, r, e
<1>17. CASE p.state = "FINISH"
  <2>1. Pending(Less(q), e, handle.state, channel)
    <3> HIDE DEF p, d
    <3> QED
      BY <1>1, <1>3, <1>5, <1>8, <1>9, <1>16, <1>17, PendingAbortedFinished
  <2>2. QED
    BY <1>1, <1>2, <1>8, <1>14, <1>15, <1>17, <2>1, OnPending
<1>18. CASE p.state # "FINISH"
  <2>1. Pending(Less(q), r, handle.state, channel)
    <3>1. p.state = "ABORT_CLOSING" /\ Less(q).state = "ABORTING"
      BY <1>4, <1>8, <1>18
    <3> HIDE DEF p, d
    <3>2. QED
      BY <1>1, <1>3, <1>8, <1>9, <3>1, PendingAborted
  <2>2. QED
    BY <1>1, <1>2, <1>8, <1>13, <1>15, <1>18, <2>1, OnPending
<1>19. QED
  BY <1>17, <1>18

\* BeginCb keeps it.
LEMMA BeginCbOnCourse ==
  ASSUME IInv, IInv', OnCourse, OneLoop, NEW o \in Ops, BeginCb(o)
  PROVE  OnCourse'
<1> DEFINE p == op[o]
           d == due[o]
           r == Ran(d, "begin_cb")
           e == Due(r, "begin_cb2")
           f == Due(r, "abort")
           a == Taken("begin_cb", o)
           g == [handle EXCEPT !.state = "CLOSING"]
<1>1. Turn /\ d["begin_cb"] > 0 /\ UNCHANGED half
  BY DEF BeginCb
<1>2. PendingAt(o)
  BY <1>1, FindsPending, KindsAre
<1>3. /\ p \in Operations /\ d \in [Kinds -> Nat] /\ ctl[o] \in {"busy", "aborted"}
      /\ Fits(p, Tally(d), ctl[o]) /\ Alike(p, p) /\ Stage(p, ctl[o])
      /\ Pending(p, d, handle.state, channel)
      /\ handle \in Handles /\ handle.outstanding = o /\ channel \in {"open", "closing", "none"}
  BY <1>2, PendingFacts
<1>4. /\ Has(a, o, p, r, handle, session, channel, broken)
      /\ Swap(d, e, "begin_cb", "begin_cb2") /\ Swap(d, f, "begin_cb", "abort")
  BY <1>1, RunsHas, KindsAre
<1>5. p.ref \in Int /\ p.ref > 1
  BY <1>1, <1>2, NotLast DEF PendingAt, Connecting
<1>6. Only(d, Kinds \ Rest)
  BY <1>1, NobodyHalfway
<1>7. /\ g \in Handles /\ g.state = "CLOSING" /\ g.outstanding = handle.outstanding /\ g.freed = handle.freed
  BY <1>3, HandleIs DEF HandleStates
<1>8. PICK error \in BOOLEAN :
        /\ channel # "open" => error
        /\ LET s == [a EXCEPT !.channel = IF error /\ @ = "open" THEN "none" ELSE @]
               on == Later(s, o, "begin_cb2")
           IN Becomes(
               CASE op[o].state = "CONNECTING" /\ error ->
                      StartAbort([s EXCEPT !.op[o].connectFailed = TRUE], o)
                 [] op[o].state = "CONNECTING" /\ ~error -> [on EXCEPT !.op[o].state = "CONNECT_CB"]
                 [] op[o].state \in {"FINISH_WITH_ERROR", "FINISH", "ABORTING", "ABORT_CLOSING"} ->
                      Must(on, op[o].ref > 1)
                 [] op[o].state = "COMPLETING" ->
                      IF op[o].ref = 1 THEN [on EXCEPT !.op[o].state = "COMPLETE"] ELSE on
                 [] OTHER -> Must(on, FALSE))
  BY DEF BeginCb
<1> DEFINE cl == IF error /\ channel = "open" THEN "none" ELSE channel
           s == [a EXCEPT !.channel = cl]
           on == Later(s, o, "begin_cb2")
<1>9. s = [a EXCEPT !.channel = IF error /\ @ = "open" THEN "none" ELSE @]
  <2>1. a.channel = channel
    BY <1>4 DEF Has
  <2> HIDE DEF a
  <2>2. QED
    BY <2>1
<1>10. Has(s, o, p, r, handle, session, cl, broken)
  <2>1. cl \in {"open", "closing", "none"}
    BY <1>3
  <2> HIDE DEF a, p, r, cl
  <2>2. ASSUME NEW z \in {"open", "closing", "none"}
        PROVE  Has([a EXCEPT !.channel = z], o, p, r, handle, session, z, broken)
    <3>1. Has(a, o, p, r, handle, session, channel, broken)
      BY <1>4
    <3>2. QED
      BY <3>1, HasTypes DEF Has, Blocks
  <2>3. QED
    BY <2>1, <2>2
<1>11. Has(on, o, p, e, handle, session, cl, broken)
  <2> HIDE DEF s, p, r, cl
  <2> QED
    BY <1>10, LaterHas, KindsAre DEF Due
<1>12. p.state \in {"CONNECTING", "FINISH_WITH_ERROR", "FINISH", "ABORT_CLOSING"}
  <2>1. d["begin_cb2"] = 0
    BY <1>6, NothingHalfway
  <2>2. p.state \in OpStates
    BY <1>3 DEF Operations
  <2> HIDE DEF p, d
  <2>3. p.state \notin {"REQUESTING", "CONNECT_CB", "CONNECTED", "ABORTING"}
    BY <1>1, <1>3, <2>1, Counts DEF Pending, Asked, Connection
  <2>4. p.state \notin {"COMPLETING", "COMPLETE"}
    BY <1>3 DEF Stage
  <2>5. QED
    BY <2>2, <2>3, <2>4 DEF OpStates
<1>13. CASE p.state = "CONNECTING" /\ error
  <2> DEFINE w == [p EXCEPT !.connectFailed = TRUE]
             b == [s EXCEPT !.op[o].connectFailed = TRUE]
             q == Enters(More(w), "ABORT_CLOSING")
  <2>1. Becomes(StartAbort(b, o))
    BY <1>8, <1>9, <1>13
  <2>2. /\ w \in Operations /\ w.connectFailed /\ w.state = "CONNECTING" /\ w.live = p.live
        /\ w.begun = p.begun /\ w.hasHandle = p.hasHandle /\ w.freeHandle = p.freeHandle
        /\ w.delayed = p.delayed
    BY <1>3, <1>13 DEF Operations
  <2>3. More(w) \in Operations /\ Alike(w, More(w)) /\ More(w).live = w.live
    <3> HIDE DEF w
    <3> QED
      BY <2>2, MoreIsAlike
  <2>4. q \in Operations /\ q.state = "ABORT_CLOSING" /\ q.live = w.live /\ Alike(More(w), q)
    <3> HIDE DEF w
    <3> QED
      BY <2>3, EntersIsAlike DEF OpStates
  <2>5. /\ q.connectFailed /\ q.begun = p.begun /\ q.hasHandle = p.hasHandle
        /\ q.freeHandle = p.freeHandle /\ q.delayed = p.delayed
    <3> HIDE DEF w, q
    <3> QED
      BY <2>2, <2>3, <2>4 DEF Alike, AlikeButFailed
  <2>6. Has(b, o, w, r, handle, session, cl, broken)
    <3> HIDE DEF s, r, cl
    <3>1. b = [s EXCEPT !.op[o] = w]
      BY <1>10 DEF Has
    <3> HIDE DEF b, w, p
    <3>2. QED
      BY <1>10, <2>2, <3>1, PutOp
  <2>7. handle.state = "INUSE" /\ cl = "none"
    BY <1>1, <1>3, <1>13 DEF Pending, Asked, Connection, Unconnected
  <2>8. Has(StartAbort(b, o), o, q, f, g, session, "none", broken)
    <3> HIDE DEF b, w, r, cl
    <3> QED
      BY <2>2, <2>6, <2>7, StartAbortHas
  <2>9. Pending(q, f, g.state, "none")
    <3> HIDE DEF q, p, d, f, g, w
    <3>1. Pending(q, f, "CLOSING", "none")
      BY <1>1, <1>3, <1>4, <1>13, <2>4, <2>5, PendingConnectFails
    <3>2. QED
      BY <1>7, <3>1
  <2> HIDE DEF b, q, f, g
  <2>10. QED
    BY <1>1, <1>2, <1>7, <2>1, <2>2, <2>4, <2>8, <2>9, OnPending
<1>14. CASE p.state = "CONNECTING" /\ ~error
  <2> DEFINE q == Enters(p, "CONNECT_CB")
             t == [on EXCEPT !.op[o].state = "CONNECT_CB"]
  <2>1. Becomes(t) /\ cl = channel
    BY <1>8, <1>9, <1>14
  <2>2. q \in Operations /\ q.state = "CONNECT_CB" /\ q.live = p.live /\ Alike(p, q)
    <3> HIDE DEF p
    <3> QED
      BY <1>3, EntersIsAlike DEF OpStates
  <2>3. Has(t, o, q, e, handle, session, channel, broken)
    <3> HIDE DEF on, p, e, cl
    <3> QED
      BY <1>11, <2>1, StateHas DEF Enters, OpStates
  <2>4. Pending(q, e, handle.state, channel)
    <3> HIDE DEF q, p, d, e
    <3> QED
      BY <1>1, <1>3, <1>4, <1>6, <1>14, <2>2, PendingConnects
  <2> HIDE DEF t, q, e
  <2>5. QED
    BY <1>1, <1>2, <2>1, <2>2, <2>3, <2>4, OnPending
<1>15. CASE p.state \in {"FINISH_WITH_ERROR", "FINISH", "ABORT_CLOSING"}
  <2> DEFINE c == op[o].ref > 1
  <2>1. Becomes(Must(on, c)) /\ c
    BY <1>5, <1>8, <1>9, <1>15
  <2>2. Has(Must(on, c), o, p, e, handle, session, cl, broken)
    <3> HIDE DEF on, p, e, cl, c
    <3> QED
      BY <1>11, <2>1, MustHas
  <2>3. Pending(p, e, handle.state, cl)
    <3>1. p.state # "CONNECTING" /\ cl \in {channel, "none"} /\ (channel # "closing" \/ cl = channel)
      BY <1>15
    <3> HIDE DEF p, d, e, cl
    <3>2. QED
      BY <1>1, <1>3, <1>4, <1>6, <3>1, PendingConnectsLate
  <2> HIDE DEF on, c, e, cl
  <2>4. QED
    BY <1>1, <1>2, <2>1, <2>2, <2>3, OnPending
<1>16. QED
  BY <1>12, <1>13, <1>14, <1>15

\* globus_l_gfs_data_finish_connected registers one callback.
LEMMA FinishConnectedHas ==
  ASSUME NEW s, NEW o \in Ops, NEW p, NEW d, NEW h, NEW x, NEW ch, NEW b,
         Has(s, o, p, d, h, x, ch, b)
  PROVE  \E j \in {"end_read", "write_eof", "end"} :
           Has(FinishConnected(s, o), o, p, Due(d, j), h, x, ch, b)
<1>1. \A j \in {"end_read", "write_eof", "end"} : Has(Later(s, o, j), o, p, Due(d, j), h, x, ch, b)
  BY LaterHas, KindsAre DEF Due
<1>2. FinishConnected(s, o) \in {Later(s, o, "end_read"), Later(s, o, "write_eof"), Later(s, o, "end")}
  BY DEF FinishConnected
<1>3. QED
  BY <1>1, <1>2

\* BeginCbEnds keeps the course.
LEMMA BeginCbEndsOnCourse ==
  ASSUME IInv, IInv', OnCourse, OneLoop, NEW o \in Ops, BeginCbEnds(o)
  PROVE  OnCourse'
<1> DEFINE p == op[o]
           d == due[o]
           r == Ran(d, "begin_cb2")
           a == Taken("begin_cb2", o)
           v == IF p.state = "CONNECT_CB" THEN "CONNECTED" ELSE p.state
           q == Enters(p, v)
           s == [a EXCEPT !.op[o].state = v]
           t == Decrement(s, o)
<1>1. d["begin_cb2"] > 0 /\ UNCHANGED half
  BY DEF BeginCbEnds
<1>2. PendingAt(o)
  BY <1>1, FindsPending, KindsAre
<1>3. /\ p \in Operations /\ d \in [Kinds -> Nat] /\ ctl[o] \in {"busy", "aborted"}
      /\ Fits(p, Tally(d), ctl[o]) /\ Alike(p, p) /\ Stage(p, ctl[o])
      /\ Pending(p, d, handle.state, channel)
  BY <1>2, PendingFacts
<1>4. /\ Has(a, o, p, r, handle, session, channel, broken)
      /\ Swap(d, r, "begin_cb2", Nobody) /\ \A j \in Kinds : Swap(d, Due(r, j), "begin_cb2", j)
  BY <1>1, RunsHas, KindsAre
<1>5. p.ref \in Int /\ p.ref > 1
  BY <1>1, <1>2, NotLast DEF PendingAt, Connecting
<1>6. v \in OpStates
  BY <1>3 DEF OpStates, Operations
<1>7. q \in Operations /\ q.state = v /\ q.live = p.live /\ Alike(p, q) /\ q.ref = p.ref /\ q.delayed = p.delayed
  <2> HIDE DEF p, v
  <2> QED
    BY <1>3, <1>6, EntersIsAlike
<1>8. Less(q) \in Operations /\ Less(q).state = v /\ Less(q).live = p.live /\ Alike(p, Less(q))
  <2> HIDE DEF q, p
  <2> QED
    BY <1>7, LessIsAlike, AlikeIs
<1>9. Has(s, o, q, r, handle, session, channel, broken)
  <2> HIDE DEF a, r, p, v
  <2> QED
    BY <1>4, <1>6, StateHas DEF Enters
<1>10. Has(t, o, Less(q), r, handle, session, channel, broken) /\ ~Last(t, o)
  <2>1. q.ref # 1 /\ q.ref # 0
    BY <1>5, <1>7
  <2> HIDE DEF s, q, r
  <2>2. QED
    BY <1>9, <2>1, DecrementHas, ReleaseHas
<1>11. Becomes(IF p.delayed THEN FinishConnected(t, o) ELSE t)
  <2>1. s = [a EXCEPT !.op[o].state = IF @ = "CONNECT_CB" THEN "CONNECTED" ELSE @]
    BY <1>4 DEF Has
  <2>2. s.op[o].delayed = p.delayed
    <3> HIDE DEF s, p, q, r
    <3> QED
      BY <1>7, <1>9 DEF Has
  <2> HIDE DEF s
  <2>3. QED
    BY <1>10, <2>1, <2>2 DEF BeginCbEnds
<1>12. CASE ~p.delayed
  <2>1. Pending(Less(q), r, handle.state, channel)
    <3>1. Less(q).state = IF p.state = "CONNECT_CB" THEN "CONNECTED" ELSE p.state
      BY <1>8
    <3> HIDE DEF q, p, d, r, v
    <3>2. QED
      BY <1>1, <1>3, <1>4, <1>8, <1>12, <3>1, PendingConnected
  <2> HIDE DEF t, q, r
  <2>2. QED
    BY <1>1, <1>2, <1>8, <1>10, <1>11, <1>12, <2>1, OnPending
<1>13. CASE p.delayed
  <2>1. PICK j \in {"end_read", "write_eof", "end"} :
          Has(FinishConnected(t, o), o, Less(q), Due(r, j), handle, session, channel, broken)
    <3> HIDE DEF t, q, r
    <3> QED
      BY <1>10, FinishConnectedHas
  <2>2. v = p.state
    <3>1. Shared(p, d, ctl[o])
      BY <1>3, SharedIs
    <3> HIDE DEF p, d
    <3>2. p.finished
      BY <1>13, <3>1 DEF Shared
    <3>3. p.state # "CONNECT_CB"
      BY <1>3, <3>2 DEF Stage, Finishing
    <3>4. QED
      BY <3>3
  <2>3. Pending(Less(q), Due(r, j), handle.state, channel)
    <3>1. Swap(d, Due(r, j), "begin_cb2", j)
      BY <1>4, KindsAre
    <3> HIDE DEF q, p, d, r, v
    <3>2. QED
      BY <1>1, <1>3, <1>8, <1>13, <2>2, <3>1, PendingConnectedLate
  <2> HIDE DEF t, q, r
  <2>4. QED
    BY <1>1, <1>2, <1>8, <1>11, <1>13, <2>1, <2>3, OnPending
<1>14. QED
  BY <1>12, <1>13

\* The operation's block once the storage module's end is noted.
Noted(p, good) ==
  LET v == IF good \/ p.state \in {"REQUESTING", "ABORTING", "ABORT_CLOSING"} THEN "FINISH" ELSE "FINISH_WITH_ERROR"
  IN [[[p EXCEPT !.finished = TRUE] EXCEPT !.failed = ~good] EXCEPT !.state = v]

\* What else of it changes.
LEMMA NotedIs ==
  ASSUME NEW p \in Operations, NEW good \in BOOLEAN
  PROVE  /\ Noted(p, good) \in Operations /\ AlikeButFailed(p, Noted(p, good))
         /\ Noted(p, good).live = p.live /\ Noted(p, good).failed = ~good
         /\ Noted(p, good).state = IF good \/ p.state \in {"REQUESTING", "ABORTING", "ABORT_CLOSING"}
                                   THEN "FINISH" ELSE "FINISH_WITH_ERROR"
<1> DEFINE v == IF good \/ p.state \in {"REQUESTING", "ABORTING", "ABORT_CLOSING"} THEN "FINISH" ELSE "FINISH_WITH_ERROR"
           r1 == [p EXCEPT !.finished = TRUE]
           r2 == [r1 EXCEPT !.failed = ~good]
           r == [r2 EXCEPT !.state = v]
<1>1. v \in OpStates
  BY DEF OpStates
<1>2. r1 \in Operations /\ AlikeButFailed(p, r1) /\ r1.live = p.live
  BY DEF Operations, AlikeButFailed
<1>3. r2 \in Operations /\ AlikeButFailed(p, r2) /\ r2.live = p.live /\ r2.failed = ~good
  <2> HIDE DEF r1
  <2> QED
    BY <1>2 DEF Operations, AlikeButFailed
<1>4. r \in Operations /\ AlikeButFailed(p, r) /\ r.live = p.live /\ r.failed = ~good /\ r.state = v
  <2> HIDE DEF r2, v
  <2> QED
    BY <1>1, <1>3 DEF Operations, AlikeButFailed
<1>5. r = Noted(p, good)
  BY DEF Noted
<1>6. QED
  <2> HIDE DEF r
  <2> QED
    BY <1>4, <1>5

\* Finish notes the end, and then it goes on.
LEMMA FinishIs ==
  ASSUME IInv, NEW o \in Ops, NEW good \in BOOLEAN, Finish(o, good)
  PROVE  Becomes(Finished([Data EXCEPT !.op[o] = Noted(op[o], good)], o, good))
<1> DEFINE s == [Data EXCEPT !.op[o] = Noted(op[o], good)]
<1>1. Data.op = op
  BY DataIs
<1>2. s = [Data EXCEPT !.op[o].finished = TRUE, !.op[o].failed = ~good,
                       !.op[o].state = IF good \/ @ \in {"REQUESTING", "ABORTING", "ABORT_CLOSING"}
                                       THEN "FINISH" ELSE "FINISH_WITH_ERROR"]
  <2> DEFINE r1 == [op[o] EXCEPT !.finished = TRUE]
             r2 == [r1 EXCEPT !.failed = ~good]
             v == IF good \/ op[o].state \in {"REQUESTING", "ABORTING", "ABORT_CLOSING"}
                  THEN "FINISH" ELSE "FINISH_WITH_ERROR"
             r == [r2 EXCEPT !.state = v]
  <2>1. [Data EXCEPT !.op[o] = r]
          = [Data EXCEPT !.op[o].finished = TRUE, !.op[o].failed = ~good,
                         !.op[o].state = IF good \/ @ \in {"REQUESTING", "ABORTING", "ABORT_CLOSING"}
                                         THEN "FINISH" ELSE "FINISH_WITH_ERROR"]
    BY <1>1, ZenonT(60)
  <2>2. r = Noted(op[o], good)
    BY DEF Noted
  <2>3. QED
    BY <2>1, <2>2
<1> HIDE DEF s
<1>3. Becomes(Finished([Data EXCEPT !.op[o].finished = TRUE, !.op[o].failed = ~good,
                                    !.op[o].state = IF good \/ @ \in {"REQUESTING", "ABORTING", "ABORT_CLOSING"}
                                                    THEN "FINISH" ELSE "FINISH_WITH_ERROR"], o, good))
  BY DEF Finish, Finished
<1>4. QED
  BY <1>2, <1>3 DEF s

\* Finish keeps the course.
LEMMA FinishOnCourse ==
  ASSUME IInv, IInv', OnCourse, OneLoop, NEW o \in Ops, NEW good \in BOOLEAN, Finish(o, good)
  PROVE  OnCourse'
<1> DEFINE p == op[o]
           d == due[o]
           q == Noted(p, good)
           s == [Data EXCEPT !.op[o] = q]
           l == Later(s, o, "end")
           f == Due(d, "end")
           v == IF good \/ p.state \in {"REQUESTING", "ABORTING", "ABORT_CLOSING"}
                THEN "FINISH" ELSE "FINISH_WITH_ERROR"
<1>1. /\ p.live /\ ~p.finished /\ d["begin"] = 0 /\ UNCHANGED half
  BY ZenonT(30) DEF Finish
<1>2. PendingAt(o)
  BY <1>1, NamedIs, IsPending
<1>3. /\ p \in Operations /\ d \in [Kinds -> Nat] /\ ctl[o] \in {"busy", "aborted"}
      /\ Fits(p, Tally(d), ctl[o]) /\ Pending(p, d, handle.state, channel)
      /\ handle \in Handles /\ handle.outstanding = o
  BY <1>2, PendingFacts
<1>4. q \in Operations /\ AlikeButFailed(p, q) /\ q.live = p.live /\ q.failed = ~good /\ q.state = v
  <2> HIDE DEF p
  <2> QED
    BY <1>3, NotedIs
<1>5. Has(s, o, q, d, handle, session, channel, broken)
  <2> HIDE DEF q
  <2> QED
    BY <1>4, DataHas, PutOp DEF IInv
<1>6. Becomes(Finished(s, o, good))
  BY FinishIs
<1>7. Has(l, o, q, f, handle, session, channel, broken) /\ Swap(d, f, Nobody, "end")
  <2> HIDE DEF s, q, d
  <2> QED
    BY <1>3, <1>5, LaterHas, Swaps, KindsAre, ZenonT(30) DEF Due
<1>8. p.state \in {"REQUESTING", "CONNECTING", "CONNECT_CB", "CONNECTED", "ABORTING", "ABORT_CLOSING"}
  BY <1>1, UnfinishedState
<1>9. Swap(d, d, Nobody, Nobody) /\ \A j \in Kinds : Swap(d, Due(d, j), Nobody, j)
  BY <1>3, Swaps DEF Due
<1>10. CASE p.state = "CONNECTED" /\ good
  <2>1. Becomes(FinishConnected(s, o))
    BY <1>6, <1>10 DEF Finished
  <2>2. PICK j \in {"end_read", "write_eof", "end"} :
          Has(FinishConnected(s, o), o, q, Due(d, j), handle, session, channel, broken)
    <3> HIDE DEF s, q, d
    <3> QED
      BY <1>5, FinishConnectedHas
  <2>3. Pending(q, Due(d, j), handle.state, channel)
    <3>1. Swap(d, Due(d, j), Nobody, j) /\ q.state = "FINISH"
      BY <1>4, <1>9, <1>10, KindsAre
    <3> HIDE DEF q, p, d, s, v
    <3>2. QED
      BY <1>1, <1>3, <1>4, <1>10, <3>1, PendingFinished
  <2> HIDE DEF s, q, d
  <2>4. QED
    BY <1>1, <1>2, <1>4, <2>1, <2>2, <2>3, OnPending
<1>11. CASE p.state = "CONNECTED" /\ ~good
  <2> DEFINE g == [handle EXCEPT !.state = "CLOSING"]
             t == [l EXCEPT !.handle.state = "CLOSING"]
  <2>1. handle.state = "INUSE"
    BY <1>3, <1>11 DEF Pending, Asked, Connection
  <2>2. Becomes(t)
    BY <1>6, <1>11, <2>1 DEF Finished
  <2>3. g \in Handles /\ g.state = "CLOSING" /\ g.outstanding = handle.outstanding /\ g.freed = handle.freed
    BY <1>3, HandleIs DEF HandleStates
  <2>4. Has(t, o, q, f, g, session, channel, broken)
    <3> HIDE DEF l, q, f
    <3> QED
      BY <1>7, HandleHas DEF HandleStates
  <2>5. Pending(q, f, g.state, channel)
    <3>1. /\ p \in Operations /\ d \in [Kinds -> Nat] /\ ctl[o] \in {"busy", "aborted"}
          /\ Fits(p, Tally(d), ctl[o]) /\ Pending(p, d, "INUSE", channel)
          /\ Swap(d, f, Nobody, "end") /\ q \in Operations /\ AlikeButFailed(p, q)
          /\ ~p.finished /\ p.state = "CONNECTED" /\ q.state = "FINISH_WITH_ERROR" /\ q.failed
      BY <1>1, <1>3, <1>4, <1>7, <1>11, <2>1
    <3> HIDE DEF q, p, d, f, v, g
    <3>2. Pending(q, f, "CLOSING", channel)
      BY <3>1, PendingFinishedFailed
    <3>3. QED
      BY <2>3, <3>2
  <2> HIDE DEF t, q, f, g
  <2>6. QED
    BY <1>1, <1>2, <1>4, <2>2, <2>3, <2>4, <2>5, OnPending
<1>12. CASE p.state \in {"CONNECT_CB", "CONNECTING"}
  <2> DEFINE r == [q EXCEPT !.delayed = TRUE]
             t == [s EXCEPT !.op[o].delayed = TRUE]
  <2>1. Becomes(t)
    BY <1>6, <1>12 DEF Finished
  <2>2. /\ r \in Operations /\ r.delayed /\ r.live = p.live /\ r.state = q.state /\ r.failed = q.failed
        /\ r.begun = p.begun /\ r.connectFailed = p.connectFailed
        /\ r.hasHandle = p.hasHandle /\ r.freeHandle = p.freeHandle
    <3> HIDE DEF q
    <3> QED
      BY <1>4 DEF Operations, AlikeButFailed
  <2>3. Has(t, o, r, d, handle, session, channel, broken)
    <3> HIDE DEF s, q, d
    <3>1. t = [s EXCEPT !.op[o] = r]
      BY <1>5 DEF Has
    <3> HIDE DEF r, t
    <3>2. QED
      BY <1>5, <2>2, <3>1, PutOp
  <2>4. Pending(r, d, handle.state, channel)
    <3>1. r.state \in {"FINISH", "FINISH_WITH_ERROR"} /\ (r.state = "FINISH_WITH_ERROR" => r.failed)
      BY <1>4, <1>12, <2>2
    <3> HIDE DEF r, q, p, d, v
    <3>2. QED
      BY <1>1, <1>3, <1>9, <1>12, <2>2, <3>1, PendingDelayed
  <2> HIDE DEF t, r, d
  <2>5. QED
    BY <1>1, <1>2, <2>1, <2>2, <2>3, <2>4, OnPending
<1>13. CASE p.state \in {"ABORTING", "REQUESTING"}
  <2> DEFINE w == IF handle.state = "VALID" THEN "TE_VALID" ELSE handle.state
             g == [handle EXCEPT !.state = w]
             t == [l EXCEPT !.handle.state = w]
  <2>1. w = handle.state /\ w \in HandleStates
    BY <1>3 DEF Pending, Asked, HandleStates
  <2>2. Becomes(t)
    <3>1. l.handle = handle
      BY <1>7 DEF Has
    <3> HIDE DEF l
    <3>2. t = [l EXCEPT !.handle.state = IF @ = "VALID" THEN "TE_VALID" ELSE @]
      BY <3>1
    <3>3. QED
      BY <1>6, <1>13, <3>2 DEF Finished, l
  <2>3. g \in Handles /\ g.state = handle.state /\ g.outstanding = handle.outstanding /\ g.freed = handle.freed
    <3> HIDE DEF w
    <3> QED
      BY <1>3, <2>1, HandleIs
  <2>4. Has(t, o, q, f, g, session, channel, broken)
    <3> HIDE DEF l, q, f, w
    <3> QED
      BY <1>7, <2>1, HandleHas
  <2>5. Pending(q, f, g.state, channel)
    <3>1. q.state = "FINISH"
      BY <1>4, <1>13
    <3> HIDE DEF q, p, d, f, v, g
    <3>2. Pending(q, f, handle.state, channel)
      BY <1>1, <1>3, <1>4, <1>7, <1>13, <3>1, PendingFinishedEarly
    <3>3. QED
      BY <2>3, <3>2
  <2> HIDE DEF t, q, f, g
  <2>6. QED
    BY <1>1, <1>2, <1>4, <2>2, <2>3, <2>4, <2>5, OnPending
<1>14. CASE p.state = "ABORT_CLOSING"
  <2>1. Becomes(s)
    BY <1>6, <1>14 DEF Finished
  <2>2. Pending(q, d, handle.state, channel)
    <3>1. q.state = "FINISH"
      BY <1>4, <1>14
    <3> HIDE DEF q, p, d, v
    <3>2. QED
      BY <1>1, <1>3, <1>4, <1>9, <1>14, <3>1, PendingFinishedAbort
  <2> HIDE DEF s, q, d
  <2>3. QED
    BY <1>1, <1>2, <1>4, <1>5, <2>1, <2>2, OnPending
<1>15. QED
  BY <1>8, <1>10, <1>11, <1>12, <1>13, <1>14

\* What the end of an operation changes of what is on its way.
LEMMA EndSwaps ==
  ASSUME NEW d \in [Kinds -> Nat], NEW e, NEW k \in {"end", "end_now"}, Swap(d, e, k, "end2")
  PROVE  /\ e \in [Kinds -> Nat]
         /\ e["begin"] = d["begin"] /\ e["begin_abort"] = d["begin_abort"] /\ e["begin_cb"] = d["begin_cb"]
         /\ e["begin_cb2"] = d["begin_cb2"] /\ e["abort"] = d["abort"] /\ e["abort_fc"] = d["abort_fc"]
         /\ e["abort_now"] = d["abort_now"] /\ e["end_read"] = d["end_read"]
         /\ e["write_eof"] = d["write_eof"] /\ e["send_eof"] = d["send_eof"]
         /\ e["finish_fc"] = d["finish_fc"] /\ e["complete_fc"] = d["complete_fc"]
         /\ e["trev"] = d["trev"] /\ e["trev2"] = d["trev2"] /\ e["post"] = d["post"]
         /\ e["end"] = d["end"] - One(k = "end") /\ e["end_now"] = d["end_now"] - One(k = "end_now")
         /\ e["end2"] = d["end2"] + 1
BY SwapIs, Counts DEF One

\* The end of an operation that is not answered is all there is on its way.
LEMMA OnlyTheEnd ==
  ASSUME NEW p \in Operations, NEW d \in [Kinds -> Nat], NEW e, NEW k \in {"end", "end_now"}, d[k] > 0,
         NEW c \in {"busy", "aborted"}, Fits(p, Tally(d), c), NEW h, NEW ch, Pending(p, d, h, ch),
         k = "end" => d["trev"] = 0 /\ Only(d, Kinds \ Rest), Swap(d, e, k, "end2")
  PROVE  /\ Only(e, {"end2"}) /\ e["end2"] = 1 /\ e \in [Kinds -> Nat] /\ ch # "closing"
         /\ p.state \in {"FINISH", "FINISH_WITH_ERROR"}
<1>1. Shared(p, d, c) /\ p.replies = 0 /\ Stage(p, c)
  BY SharedIs, AskedReferences DEF CtlStates, Fits
<1>2. p.finished /\ p.state \in {"FINISH", "FINISH_WITH_ERROR"}
  BY <1>1 DEF Shared, Stage, Finishing
<1>3. /\ d["end_read"] = 0 /\ d["write_eof"] = 0 /\ d["send_eof"] = 0 /\ d["finish_fc"] = 0
      /\ d[k] = 1 /\ \A l \in {"end", "end_now"} \ {k} : d[l] = 0
  BY <1>1 DEF Shared, OneOf
<1>4. d["abort"] = 0 /\ d["abort_fc"] = 0 /\ d["abort_now"] = 0
  BY <1>1, <1>2, Counts DEF Shared, OneOf
<1>5. /\ d["begin"] = 0 /\ d["begin_abort"] = 0 /\ d["begin_cb2"] = 0 /\ d["trev2"] = 0 /\ d["trev"] = 0
      /\ d["post"] = 0 /\ d["end2"] = 0 /\ d["complete_fc"] = 0
  <2>1. CASE k = "end"
    BY <2>1, NothingHalfway DEF Pending
  <2>2. CASE k = "end_now"
    BY <2>2, Counts DEF Pending, Asked, OneOf, Rest
  <2>3. QED
    BY <2>1, <2>2
<1>6. d["begin_cb"] = 0
  BY <1>1, <1>2, <1>4, Counts DEF Pending, Asked, Connection, Shared, OneOf
<1>7. /\ d["begin"] = 0 /\ d["begin_abort"] = 0 /\ d["begin_cb"] = 0 /\ d["begin_cb2"] = 0
      /\ d["abort"] = 0 /\ d["abort_fc"] = 0 /\ d["abort_now"] = 0 /\ d["end_read"] = 0
      /\ d["write_eof"] = 0 /\ d["send_eof"] = 0 /\ d["finish_fc"] = 0 /\ d["trev"] = 0
      /\ d["trev2"] = 0 /\ d["post"] = 0 /\ d["end2"] = 0 /\ d["complete_fc"] = 0
  BY <1>3, <1>4, <1>5, <1>6
<1>8. /\ e["begin"] = 0 /\ e["begin_abort"] = 0 /\ e["begin_cb"] = 0 /\ e["begin_cb2"] = 0
      /\ e["abort"] = 0 /\ e["abort_fc"] = 0 /\ e["abort_now"] = 0 /\ e["end_read"] = 0
      /\ e["write_eof"] = 0 /\ e["send_eof"] = 0 /\ e["finish_fc"] = 0 /\ e["end"] = 0
      /\ e["end_now"] = 0 /\ e["complete_fc"] = 0 /\ e["trev"] = 0 /\ e["trev2"] = 0
      /\ e["post"] = 0 /\ e["end2"] = 1
  <2>1. d["end"] = One(k = "end") /\ d["end_now"] = One(k = "end_now")
    BY <1>3 DEF One
  <2>2. d["end"] \in Nat /\ d["end_now"] \in Nat
    BY Counts
  <2>3. QED
    BY <1>7, <2>1, <2>2, EndSwaps
<1>9. ch # "closing" /\ e \in [Kinds -> Nat]
  BY <1>3, <1>4 DEF Pending, Swap
<1>10. QED
  BY <1>2, <1>8, <1>9, OnlyThese

\* Kinds that are not among those there may be.
LEMMA OnlyMeans ==
  ASSUME NEW d \in [Kinds -> Nat]
  PROVE  /\ Only(d, {"end2"}) => OneOf(d, Rest) <=> d["end2"] <= 1
         /\ Only(d, {}) => d = Nothing
         /\ Only(Nothing, {}) /\ Nothing \in [Kinds -> Nat]
<1>1. ASSUME Only(d, {"end2"})
      PROVE  OneOf(d, Rest) <=> d["end2"] <= 1
  BY <1>1, OnlyThese, Counts DEF OneOf, Rest
<1>2. ASSUME Only(d, {})
      PROVE  d = Nothing
  BY <1>2 DEF Only, Nothing
<1>3. Only(Nothing, {}) /\ Nothing \in [Kinds -> Nat]
  BY DEF Only, Nothing
<1>4. QED
  BY <1>1, <1>2, <1>3

\* The course of an operation whose answer is on its way.
LEMMA ReplyCourse ==
  ASSUME NEW p \in Operations, NEW q \in Operations, NEW d \in [Kinds -> Nat], NEW e, NEW h, NEW ch,
         Pending(p, d, h, ch), AlikeButFailed(p, q), q.state = p.state, q.failed = p.failed, q.live,
         p.state \in {"FINISH", "FINISH_WITH_ERROR"},
         e \in [Kinds -> Nat], Only(e, {"end2"}), e["end2"] = 1, ch # "closing",
         NEW g, g.state = (IF h = "INUSE" THEN "TE_VALID" ELSE h), ~g.freed,
         NEW x, ~x.destroyCb, ~x.freed, NEW lost,
         NEW ob, ob = (IF h = "INUSE" THEN "ready" ELSE "destroy_wait")
  PROVE  Course(q, e, IF p.begun THEN "replied" ELSE "ended", g, x, ch, ob, lost)
<1>1. /\ p.hasHandle /\ ~p.freeHandle /\ h \in {"INUSE", "CLOSING", "TE_PRE_CLOSED"}
      /\ (p.state = "FINISH_WITH_ERROR" => p.failed /\ (h = "INUSE" => p.delayed)) /\ (~p.begun => h = "INUSE")
  BY DEF Pending, Asked, Connection
<1>2. p.connectFailed => h = "CLOSING" /\ p.state \in {"ABORT_CLOSING", "ABORTING", "FINISH"}
  BY DEF Pending, Asked, Connection
<1>3. OneOf(e, Rest) /\ e["post"] = 0 /\ e["finish_fc"] = 0 /\ e["abort_fc"] = 0 /\ e["complete_fc"] = 0
  BY OnlyMeans, OnlyThese
<1>4. Released(e, g, x, ch, ob)
  BY <1>3 DEF Released
<1>5. /\ q.hasHandle /\ ~q.freeHandle /\ q.begun = p.begun /\ q.connectFailed = p.connectFailed
      /\ q.delayed = p.delayed
  BY <1>1 DEF AlikeButFailed
<1>6. CASE p.begun
  <2>1. Answered(q, e, g.state, ob)
    BY <1>1, <1>2, <1>5 DEF Answered
  <2>2. QED
    BY <1>3, <1>4, <1>6, <2>1 DEF Course
<1>7. CASE ~p.begun
  <2>1. g.state = "TE_VALID" /\ ob = "ready"
    BY <1>1, <1>7
  <2>2. Only(e, {"end2", "post", "complete_fc"}) /\ OneOf(e, {"end2", "post", "complete_fc"}) /\ ~Only(e, {})
    BY <1>3, OnlyThese DEF OneOf
  <2>3. Ended(q, e, g.state, ob)
    BY <1>3, <1>5, <1>7, <2>1, <2>2 DEF Ended
  <2>4. QED
    BY <1>3, <1>4, <1>7, <2>2, <2>3 DEF Course
<1>8. QED
  BY <1>6, <1>7

\* EndTransfer keeps the course.
LEMMA EndTransferOnCourse ==
  ASSUME IInv, IInv', OnCourse, OneLoop, NEW o \in Ops, NEW k \in {"end", "end_now"}, EndTransfer(o, k)
  PROVE  OnCourse'
<1> DEFINE p == op[o]
           e == Due(Ran(due[o], k), "end2")
           r == Later(Taken(k, o), o, "end2")
           q == [p EXCEPT !.replies = @ + 1]
           a == [r EXCEPT !.op[o].replies = @ + 1]
           v == IF handle.state = "INUSE" THEN "TE_VALID" ELSE handle.state
           g == [handle EXCEPT !.state = v]
           s == [a EXCEPT !.handle.state = v]
           lost == handle.state \in {"TE_PRE_CLOSED", "TE_PRE_AND_DESTROYED", "CLOSING"}
           c == /\ p.hasHandle /\ object \in {"inuse", "destroy_wait"}
                /\ lost \/ handle.state \in {"TE_VALID", "INUSE"}
           z == IF p.begun THEN "replied" ELSE "ended"
<1>1. /\ k = "end" => TurnOf(o)
      /\ due[o][k] > 0 /\ k \in Kinds /\ "end2" \in Kinds /\ k \notin {"end2", "post", "complete_fc"}
      /\ ctl' = [ctl EXCEPT ![o] = z] /\ object' = ObjectAfter(lost)
  BY KindsAre DEF EndTransfer
<1>2. PendingAt(o)
  BY <1>1, FindsPending
<1>3. /\ p \in Operations /\ due[o] \in [Kinds -> Nat] /\ ctl[o] \in {"busy", "aborted"}
      /\ Fits(p, Tally(due[o]), ctl[o]) /\ Pending(p, due[o], handle.state, channel)
      /\ handle \in Handles /\ handle.outstanding = o
  BY <1>2, PendingFacts
<1>4. Has(r, o, p, e, handle, session, channel, broken) /\ Swap(due[o], e, k, "end2")
  BY <1>1, RunsHas
<1>5. r.handle = handle
  BY <1>4 DEF Has
<1>6. Becomes(Must(s, c))
  <2>1. s = [Later(Taken(k, o), o, "end2") EXCEPT
                 !.op[o].replies = @ + 1,
                 !.handle.state = IF @ = "INUSE" THEN "TE_VALID" ELSE @]
    BY <1>5
  <2> HIDE DEF s
  <2>2. QED
    BY <2>1 DEF EndTransfer
<1>7. handle.state \in {"INUSE", "CLOSING", "TE_PRE_CLOSED"} /\ p.hasHandle /\ object = "inuse"
  BY <1>2, <1>3 DEF Pending, Asked, PendingAt
<1>8. c /\ v \in HandleStates /\ object' = IF handle.state = "INUSE" THEN "ready" ELSE "destroy_wait"
  BY <1>1, <1>7 DEF HandleStates, ObjectAfter
<1>9. g \in Handles /\ g.state = v /\ g.outstanding = o /\ g.freed = handle.freed
  <2> HIDE DEF v
  <2> QED
    BY <1>3, <1>8, HandleIs
<1>10. /\ q \in Operations /\ AlikeButFailed(p, q) /\ q.state = p.state /\ q.failed = p.failed
       /\ q.live = p.live
  <2> HIDE DEF p
  <2> QED
    BY <1>3 DEF Operations, AlikeButFailed
<1>11. Has(Must(s, c), o, q, e, g, session, channel, broken)
  <2>1. Has(a, o, q, e, handle, session, channel, broken)
    <3>1. r.op[o] = p
      BY <1>4 DEF Has
    <3> HIDE DEF r, p, e
    <3>2. a = [r EXCEPT !.op[o] = q]
      BY <3>1
    <3> HIDE DEF q, a
    <3>3. QED
      BY <1>4, <1>10, <3>2, PutOp
  <2>2. Has(s, o, q, e, g, session, channel, broken)
    <3> HIDE DEF a, q, e, v
    <3> QED
      BY <1>8, <2>1, HandleHas
  <2> HIDE DEF s, q, e, g, c
  <2>3. QED
    BY <1>8, <2>2, MustHas
<1>12. /\ Only(e, {"end2"}) /\ e["end2"] = 1 /\ e \in [Kinds -> Nat] /\ channel # "closing"
       /\ p.state \in {"FINISH", "FINISH_WITH_ERROR"}
  <2>1. k = "end" => due[o]["trev"] = 0 /\ Only(due[o], Kinds \ Rest)
    BY <1>1, NobodyHalfway DEF TurnOf
  <2> HIDE DEF e, p
  <2>2. QED
    BY <1>1, <1>3, <1>4, <2>1, OnlyTheEnd
<1>13. Course(q, e, z, g, session, channel, object', Lost')
  <2>1. q.live /\ ~g.freed /\ ~session.destroyCb /\ ~session.freed
    BY <1>2, <1>9, <1>10 DEF PendingAt
  <2> HIDE DEF p, q, e, g
  <2>2. QED
    BY <1>3, <1>8, <1>9, <1>10, <1>12, <2>1, ReplyCourse
<1>14. /\ ctl'[o] = z /\ \A x \in Ops \ {o} : ctl'[x] = ctl[x]
  BY <1>1, DataIs
<1>15. Others(o) /\ InOrder'
  <2>1. InOrder /\ Others(o)
    BY <1>2 DEF PendingAt, OnCourse
  <2>2. InOrder'
    BY <1>3, <1>14, <2>1, StaysInOrder
  <2>3. QED
    BY <2>1, <2>2
<1> HIDE DEF s, q, e, g, c
<1>16. QED
  BY <1>6, <1>9, <1>11, <1>13, <1>14, <1>15, Onward

\* An operation that is answered, and what is known of it.
LEMMA FindsAnswered ==
  ASSUME IInv, OnCourse, NEW o \in Ops,
         ctl[o] = "replied" \/ \E k \in {"end2", "post", "complete_fc"} : due[o][k] > 0
  PROVE  /\ ctl[o] \in {"replied", "ended"} /\ handle.outstanding = o
         /\ op[o] \in Operations /\ due[o] \in [Kinds -> Nat] /\ handle \in Handles /\ session \in Sessions
         /\ Course(op[o], due[o], ctl[o], handle, session, channel, object, Lost)
         /\ Only(due[o], {"end2", "post", "complete_fc"})
         /\ op[o].ref = One(due[o]["end2"] > 0) + One(ctl[o] = "replied" \/ due[o]["complete_fc"] > 0)
                          + One(op[o].connectFailed)
         /\ due[o]["end2"] <= 1 /\ due[o]["complete_fc"] <= 1
         /\ op[o].ref > 0 => op[o].live /\ ~session.freed
         /\ op[o].connectFailed => op[o].begun
         /\ Stage(op[o], ctl[o])
<1>1. /\ op[o] \in Operations /\ due[o] \in [Kinds -> Nat] /\ ctl[o] \in CtlStates
      /\ Fits(op[o], Tally(due[o]), ctl[o]) /\ (ctl[o] = "idle" => due[o] = Nothing)
  BY Fitting
<1>2. Named = o
  BY NamedIs, KindsAre
<1>3. Course(op[o], due[o], ctl[o], handle, session, channel, object, Lost)
  BY <1>2 DEF OnCourse
<1>4. ctl[o] \in {"replied", "ended"}
  <2>1. ctl[o] # "idle"
    BY <1>1, KindsAre DEF Nothing
  <2>2. ASSUME ctl[o] \in {"busy", "aborted"}
        PROVE  FALSE
    <3>1. op[o].ref > 0 /\ due[o]["end2"] = 0 /\ due[o]["complete_fc"] = 0
      BY <1>1, <2>2, AskedReferences
    <3>2. due[o]["post"] = 0
      BY <1>3, <3>1 DEF Course
    <3>3. QED
      BY <2>2, <3>1, <3>2
  <2>3. QED
    BY <1>1, <2>1, <2>2 DEF CtlStates
<1>5. Only(due[o], {"end2", "post", "complete_fc"})
  BY <1>3, <1>4, OnlyThese DEF Course, Answered, Ended
<1>6. /\ op[o].ref = One(due[o]["end2"] > 0) + One(ctl[o] = "replied" \/ due[o]["complete_fc"] > 0)
                       + One(op[o].connectFailed)
      /\ due[o]["end2"] <= 1 /\ due[o]["complete_fc"] <= 1
  <2>1. /\ op[o].ref = One(due[o]["end2"] > 0) + One(ctl[o] = "replied" \/ due[o]["complete_fc"] > 0)
                         + One(op[o].connectFailed)
        /\ due[o]["end2"] <= 1 /\ due[o]["complete_fc"] <= One(op[o].begun /\ ctl[o] = "ended")
    BY <1>1, <1>4, <1>5, RepliedReferences
  <2>2. One(op[o].begun /\ ctl[o] = "ended") \in 0..1 /\ due[o]["complete_fc"] \in Nat
    BY <1>1, Counts DEF One
  <2>3. QED
    BY <2>1, <2>2
<1>7. handle \in Handles /\ session \in Sessions
  BY DataIs
<1>8. op[o].ref > 0 => op[o].live /\ ~session.freed
  BY <1>3, SessionHeld DEF Course, Released
<1>9. (op[o].connectFailed => op[o].begun) /\ Stage(op[o], ctl[o])
  BY <1>1 DEF Fits, Begins
<1>10. QED
  BY <1>1, <1>2, <1>3, <1>4, <1>5, <1>6, <1>7, <1>8, <1>9 DEF Named

\* One that has given back its last reference; its session has lost one.
LEMMA OverIs ==
  ASSUME NEW p \in Operations, NEW x \in Sessions
  PROVE  /\ Over1(p, x).ref = 0 /\ Over1(p, x).freeSession = (x.ref - 1 = 0)
         /\ Over1(p, x).live = p.live /\ Over1(p, x).hasHandle = p.hasHandle
         /\ Over1(p, x).freeHandle = p.freeHandle /\ Over1(p, x).failed = p.failed /\ Over1(p, x).delayed = p.delayed
         /\ Lesser(x) \in Sessions /\ Lesser(x).ref = x.ref - 1
         /\ Lesser(x).freed = x.freed /\ Lesser(x).destroyCb = x.destroyCb
<1> DEFINE q1 == [p EXCEPT !.ref = 0]
           q2 == [q1 EXCEPT !.freeSession = (x.ref - 1 = 0)]
           q3 == [q2 EXCEPT !.completes = @ + One(p.begun)]
<1>1. /\ q1 \in Operations /\ q1.ref = 0 /\ q1.live = p.live /\ q1.hasHandle = p.hasHandle
      /\ q1.freeHandle = p.freeHandle /\ q1.failed = p.failed /\ q1.delayed = p.delayed
  BY DEF Operations
<1>2. /\ q2 \in Operations /\ q2.ref = 0 /\ q2.live = p.live /\ q2.hasHandle = p.hasHandle
      /\ q2.freeHandle = p.freeHandle /\ q2.failed = p.failed /\ q2.delayed = p.delayed /\ q2.freeSession = (x.ref - 1 = 0)
  <2> DEFINE v == x.ref - 1 = 0
  <2>1. v \in BOOLEAN
    OBVIOUS
  <2> HIDE DEF q1, v
  <2>2. /\ [q1 EXCEPT !.freeSession = v] \in Operations
        /\ [q1 EXCEPT !.freeSession = v].freeSession = v
    BY <1>1, <2>1, ZenonT(60) DEF Operations
  <2>3. LET r == [q1 EXCEPT !.freeSession = v]
        IN r.ref = 0 /\ r.live = p.live /\ r.hasHandle = p.hasHandle
           /\ r.freeHandle = p.freeHandle /\ r.failed = p.failed /\ r.delayed = p.delayed
    BY <1>1 DEF Operations
  <2>4. QED
    BY <2>2, <2>3 DEF v
<1>3. /\ q3.ref = 0 /\ q3.live = p.live /\ q3.hasHandle = p.hasHandle
      /\ q3.freeHandle = p.freeHandle /\ q3.failed = p.failed /\ q3.delayed = p.delayed /\ q3.freeSession = (x.ref - 1 = 0)
  <2> HIDE DEF q2
  <2> QED
    BY <1>2 DEF Operations
<1>4. Over1(p, x) = q3
  BY DEF Over1
<1>5. /\ Lesser(x) \in Sessions /\ Lesser(x).ref = x.ref - 1
      /\ Lesser(x).freed = x.freed /\ Lesser(x).destroyCb = x.destroyCb
  BY DEF Lesser, Sessions
<1>6. QED
  <2> HIDE DEF q3
  <2> QED
    BY <1>3, <1>4, <1>5

\* Then its end is all there is on its way.
LEMMA OnlyPost ==
  ASSUME NEW d \in [Kinds -> Nat], NEW e, NEW i, Swap(d, e, i, "post"),
         \/ i = Nobody /\ Only(d, {})
         \/ i \in {"end2", "complete_fc"} /\ d[i] = 1 /\ Only(d, {i})
  PROVE  Only(e, {"post"}) /\ e["post"] = 1 /\ e \in [Kinds -> Nat]
<1>1. CASE i = Nobody /\ Only(d, {})
  <2>1. Nobody \notin Kinds /\ "post" \in Kinds
    BY KindsAre DEF Nobody
  <2>2. \A k \in Kinds : d[k] = 0 /\ e[k] = One(k = "post")
    BY <1>1, <2>1 DEF Only, Swap, One
  <2>3. QED
    BY <2>1, <2>2 DEF Only, One, Swap
<1>2. CASE i \in {"end2", "complete_fc"} /\ d[i] = 1 /\ Only(d, {i})
  BY <1>2, KindsAre DEF Only, Swap, One
<1>3. QED
  BY <1>1, <1>2

\* And this is its course.
LEMMA PostCourse ==
  ASSUME NEW q, q.live, ~q.freeHandle, q.ref = 0, NEW x \in Sessions, ~x.freed,
         q.freeSession => x.ref - 1 = 0,
         NEW e \in [Kinds -> Nat], Only(e, {"post"}), e["post"] = 1, NEW g, NEW ch, NEW ob, NEW lost,
         ch = "closing" <=> x.destroyCb, g.freed \/ x.destroyCb => ~q.hasHandle, g.freed => ch = "none",
         IF q.hasHandle
           THEN \/ g.state = "TE_VALID" /\ ob = "ready"
                \/ g.state = "TE_PRE_CLOSED" /\ (ob = "destroying" \/ (ob = "ready" /\ q.failed /\ q.delayed))
                \/ g.state = "CLOSING" /\ ob = "destroying"
           ELSE g.state = "CLOSING_AND_DESTROYED" /\ ob \in {"gone", "stopped"}
  PROVE  Course(q, e, "ended", g, Lesser(x), ch, ob, lost)
<1>1. /\ e["begin"] = 0 /\ e["begin_abort"] = 0 /\ e["begin_cb"] = 0 /\ e["begin_cb2"] = 0
      /\ e["abort"] = 0 /\ e["abort_fc"] = 0 /\ e["abort_now"] = 0 /\ e["end_read"] = 0
      /\ e["write_eof"] = 0 /\ e["send_eof"] = 0 /\ e["finish_fc"] = 0 /\ e["end"] = 0
      /\ e["end_now"] = 0 /\ e["trev"] = 0 /\ e["trev2"] = 0 /\ e["end2"] = 0 /\ e["complete_fc"] = 0
  BY KindsAre DEF Only
<1>2. /\ OneOf(e, Rest) /\ Only(e, {"end2", "post", "complete_fc"}) /\ ~Only(e, {})
      /\ OneOf(e, {"end2", "post", "complete_fc"})
  BY <1>1, OnlyThese DEF OneOf, Rest
<1>3. Lesser(x).ref = x.ref - 1 /\ ~Lesser(x).freed /\ Lesser(x).destroyCb = x.destroyCb
  BY DEF Lesser, Sessions
<1>4. Released(e, g, Lesser(x), ch, ob)
  BY <1>1, <1>3 DEF Released
<1>5. Ended(q, e, g.state, ob)
  BY <1>1, <1>2 DEF Ended
<1>6. QED
  BY <1>2, <1>3, <1>4, <1>5 DEF Course

\* The second region of a reply that the control half has not got yet.
LEMMA AnsweredCourse ==
  ASSUME NEW p \in Operations, NEW q, NEW d \in [Kinds -> Nat], NEW e, NEW h \in Handles, NEW g, NEW x,
         NEW ch,
         NEW ob, NEW lost, NEW lost2, Course(p, d, "replied", h, x, ch, ob, lost), p.live,
         Swap(d, e, "end2", Nobody), d["end2"] = 1,
         g.state = (IF h.state = "TE_PRE_CLOSED" THEN "CLOSING" ELSE h.state), g.freed = h.freed,
         q.live, q.hasHandle = p.hasHandle, q.freeHandle = p.freeHandle, q.failed = p.failed /\ q.delayed = p.delayed,
         q.state = p.state, q.connectFailed = p.connectFailed
  PROVE  Course(q, e, "replied", g, x, ch, ob, lost2)
<1>1. Answered(p, d, h.state, ob) /\ Released(d, h, x, ch, ob)
  BY DEF Course
<1>2. Only(e, {}) /\ e \in [Kinds -> Nat]
  <2>1. Nobody \notin Kinds /\ "end2" \in Kinds
    BY KindsAre DEF Nobody
  <2>2. \A k \in Kinds : e[k] = d[k] - One(k = "end2")
    BY <2>1 DEF Swap, One
  <2>3. \A k \in Kinds \ {"end2"} : d[k] = 0
    BY <1>1 DEF Answered, Only
  <2>4. QED
    BY <2>1, <2>2, <2>3 DEF Only, One, Swap
<1>3. /\ e["post"] = 0 /\ e["finish_fc"] = 0 /\ e["abort_fc"] = 0 /\ e["complete_fc"] = 0
      /\ Only(e, {"end2"}) /\ OneOf(e, Rest)
  BY <1>2, OnlyThese, OnlyMeans
<1>4. /\ d["finish_fc"] = 0 /\ d["abort_fc"] = 0 /\ d["complete_fc"] = 0
  BY <1>1, OnlyThese DEF Answered
<1>5. Released(e, g, x, ch, ob)
  BY <1>1, <1>3, <1>4 DEF Released, Answered
<1>6. Answered(q, e, g.state, ob)
  BY <1>1, <1>3 DEF Answered
<1>7. QED
  BY <1>3, <1>5, <1>6 DEF Course

\* The operation goes on after its answer.
LEMMA OnAnswered ==
  ASSUME IInv, OnCourse, NEW o \in Ops, handle.outstanding = o, ctl[o] \in {"replied", "ended"},
         NEW s, Becomes(s),
         NEW p, NEW d, NEW h, NEW x, NEW ch, Has(s, o, p, d, h, x, ch, broken),
         h.outstanding = o, ctl' \in [Ops -> CtlStates], \A q \in Ops \ {o} : ctl'[q] = ctl[q],
         ctl[o] = "ended" => ctl'[o] = "ended",
         Course(p, d, ctl'[o], h, x, ch, object', Lost')
  PROVE  OnCourse'
<1>1. InOrder /\ Others(o)
  BY DEF OnCourse, Named
<1>2. InOrder'
  BY <1>1, StaysInOrder
<1>3. QED
  BY <1>1, <1>2, Onward

\* EndTransferEnds keeps the course.
LEMMA EndTransferEndsOnCourse ==
  ASSUME IInv, IInv', OnCourse, OneLoop, NEW o \in Ops, EndTransferEnds(o)
  PROVE  OnCourse'
<1> DEFINE p == op[o]
           d == due[o]
           e == Ran(d, "end2")
           f == Due(e, "post")
           r == Taken("end2", o)
           v == IF handle.state = "TE_PRE_CLOSED" THEN "CLOSING" ELSE handle.state
           g == [handle EXCEPT !.state = v]
           s == [r EXCEPT !.handle.state = v]
           t == Decrement(s, o)
<1>1. d["end2"] > 0 /\ UNCHANGED half /\ "end2" \in Kinds /\ "post" \in Kinds
  BY KindsAre DEF EndTransferEnds
<1>2. /\ ctl[o] \in {"replied", "ended"} /\ handle.outstanding = o
      /\ p \in Operations /\ d \in [Kinds -> Nat] /\ handle \in Handles /\ session \in Sessions
      /\ Course(p, d, ctl[o], handle, session, channel, object, Lost)
      /\ Only(d, {"end2", "post", "complete_fc"})
      /\ p.ref = One(d["end2"] > 0) + One(ctl[o] = "replied" \/ d["complete_fc"] > 0)
                   + One(p.connectFailed)
      /\ d["end2"] <= 1
      /\ p.ref > 0 => p.live /\ ~session.freed
      /\ p.connectFailed => p.begun
  BY <1>1, FindsAnswered
<1>3. d["end2"] = 1 /\ p.live /\ ~session.freed
  BY <1>1, <1>2, Counts DEF One
<1>4. Has(r, o, p, e, handle, session, channel, broken) /\ Swap(d, e, "end2", Nobody) /\ Swap(d, f, "end2", "post")
  BY <1>1, RunsHas
<1>5. handle.state \in {"TE_VALID", "CLOSING", "TE_PRE_CLOSED"}
  BY <1>1, <1>2 DEF Course, Answered, Ended
<1>6. v \in HandleStates
  BY <1>5 DEF HandleStates
<1>7. g \in Handles /\ g.state = v /\ g.outstanding = o /\ g.freed = handle.freed
  <2> HIDE DEF v
  <2> QED
    BY <1>2, <1>6, HandleIs
<1>8. Has(s, o, p, e, g, session, channel, broken)
  <2> HIDE DEF r, p, e, v
  <2> QED
    BY <1>4, <1>6, HandleHas
<1>9. Becomes(IF Last(t, o) THEN Check(t) ELSE t)
  <2> DEFINE h == CASE r.handle.state = "TE_PRE_CLOSED" -> "CLOSING"
                    [] r.handle.state = "TE_PRE_AND_DESTROYED" -> "CLOSING_AND_DESTROYED"
                    [] OTHER -> r.handle.state
             m == [r EXCEPT !.handle.state = h]
             n == Decrement(m, o)
  <2>1. Becomes(IF Last(n, o) THEN Check(n) ELSE n)
    <3>1. Becomes(CASE handle.state # "TE_PRE_AND_DESTROYED" -> IF Last(n, o) THEN Check(n) ELSE n
                    [] handle.state = "TE_PRE_AND_DESTROYED" /\ Last(n, o) ->
                         [Check(n) EXCEPT !.op[o].freeHandle = TRUE]
                    [] OTHER -> FreeHandle(n))
      BY DEF EndTransferEnds
    <3>2. handle.state # "TE_PRE_AND_DESTROYED"
      BY <1>5
    <3> HIDE DEF n
    <3>3. QED
      BY <3>1, <3>2
  <2>2. r.handle = handle
    BY <1>4 DEF Has
  <2>3. h = v
    <3> HIDE DEF r
    <3> QED
      BY <1>5, <2>2
  <2> HIDE DEF h, v, r
  <2>4. QED
    BY <2>1, <2>3
<1>10. CASE ctl[o] = "replied"
  <2>1. p.ref # 1 /\ p.ref - 1 # 0 /\ p.ref \in Int
    BY <1>2, <1>3, <1>10 DEF One
  <2>2. Has(t, o, Less(p), e, g, session, channel, broken)
    <3> HIDE DEF s, p, e, g
    <3> QED
      BY <1>8, <2>1, DecrementHas
  <2>3. /\ Less(p).ref = p.ref - 1 /\ Less(p).live = p.live /\ Less(p).state = p.state
        /\ Less(p).hasHandle = p.hasHandle /\ Less(p).freeHandle = p.freeHandle
        /\ Less(p).failed = p.failed /\ Less(p).delayed = p.delayed /\ Less(p).connectFailed = p.connectFailed
    BY <1>2, LessIsAlike DEF Alike, AlikeButFailed
  <2>4. Becomes(t)
    <3> HIDE DEF t, p
    <3> QED
      BY <1>9, <2>1, <2>2, <2>3 DEF Has, Last
  <2>5. Course(Less(p), e, "replied", g, session, channel, object, Lost')
    <3> HIDE DEF p, d, e, g
    <3>1. Course(p, d, "replied", handle, session, channel, object, Lost)
      BY <1>2, <1>10
    <3>2. Less(p).live
      BY <1>3, <2>3
    <3>3. QED
      BY <1>2, <1>3, <1>4, <1>7, <2>3, <3>1, <3>2, AnsweredCourse
  <2> HIDE DEF t, g, e
  <2>6. QED
    BY <1>1, <1>2, <1>7, <1>10, <2>2, <2>4, <2>5, OnAnswered, DataIs DEF half
<1>11. CASE ctl[o] = "ended"
  <2>1. /\ p.hasHandle /\ ~p.begun /\ handle.state = "TE_VALID" /\ object = "ready" /\ ~p.freeHandle
        /\ d["complete_fc"] = 0 /\ d["post"] = 0 /\ Only(d, {"end2"})
    <3>1. Ended(p, d, handle.state, object)
      BY <1>2, <1>11 DEF Course
    <3>2. d["complete_fc"] = 0 /\ d["post"] = 0
      BY <1>1, <3>1 DEF Ended, OneOf
    <3>3. Only(d, {"end2"})
      BY <1>2, <3>2 DEF Only
    <3>4. QED
      BY <1>1, <3>1, <3>2, <3>3 DEF Ended
  <2>2. p.ref = 1
    BY <1>2, <1>3, <1>11, <2>1 DEF One
  <2>3. Has(t, o, Over1(p, session), f, g, Lesser(session), channel, broken) /\ Last(t, o)
    <3> HIDE DEF s, p, e, g
    <3> QED
      BY <1>8, <2>2, LastHas DEF Due
  <2>4. Becomes(t)
    <3>1. t.handle = g
      BY <2>3 DEF Has
    <3>2. Check(t) = t
      <4> HIDE DEF t, g
      <4> QED
        BY <1>7, <2>1, <3>1 DEF Check
    <3>3. QED
      BY <1>9, <2>3, <3>2
  <2>5. Course(Over1(p, session), f, "ended", g, Lesser(session), channel, object, Lost')
    <3>1. Only(f, {"post"}) /\ f["post"] = 1 /\ f \in [Kinds -> Nat]
      <4> HIDE DEF f, d
      <4> QED
        BY <1>2, <1>3, <1>4, <2>1, OnlyPost
    <3>2. (channel = "closing" <=> session.destroyCb) /\ ~g.freed /\ ~session.destroyCb
      <4>1. Released(d, handle, session, channel, object)
        BY <1>2 DEF Course
      <4>2. QED
        BY <1>7, <2>1, <4>1, OnlyThese DEF Released
    <3> DEFINE q == Over1(p, session)
    <3>3. q.live /\ ~q.freeHandle /\ q.ref = 0 /\ q.hasHandle /\ (q.freeSession => session.ref - 1 = 0)
      BY <1>2, <1>3, <2>1, OverIs
    <3>4. g.state = "TE_VALID"
      BY <1>7, <2>1
    <3> HIDE DEF f, g, q
    <3>5. Course(q, f, "ended", g, Lesser(session), channel, object, Lost')
      BY <1>2, <1>3, <2>1, <3>1, <3>2, <3>3, <3>4, PostCourse
    <3>6. QED
      BY <3>5 DEF q
  <2> HIDE DEF t, g, f
  <2>6. QED
    BY <1>1, <1>2, <1>7, <1>11, <2>3, <2>4, <2>5, OnAnswered, DataIs DEF half
<1>12. QED
  BY <1>2, <1>10, <1>11

\* Nothing is on its way at all.
LEMMA NothingIs == Only(Nothing, {}) /\ Nothing \in [Kinds -> Nat]
BY DEF Only, Nothing

\* An operation that the control half ends; nothing is on its way for it.
LEMMA Completes ==
  ASSUME IInv, OnCourse, OneLoop, NEW o \in Ops, Turn, ctl[o] = "replied"
  PROVE  /\ handle.outstanding = o /\ due[o] = Nothing
         /\ op[o] \in Operations /\ handle \in Handles /\ session \in Sessions
         /\ op[o].ref = 1 + One(op[o].connectFailed) /\ op[o].live /\ ~session.freed
         /\ op[o].hasHandle /\ ~op[o].freeHandle
         /\ handle.state \in {"TE_VALID", "CLOSING"} /\ ~handle.freed
         /\ object = (IF handle.state = "TE_VALID" THEN "ready" ELSE "destroy_wait")
         /\ op[o].state \in {"FINISH", "FINISH_WITH_ERROR"}
         /\ op[o].state = "FINISH_WITH_ERROR" =>
              op[o].failed /\ ~op[o].connectFailed /\ (handle.state = "TE_VALID" => op[o].delayed)
         /\ op[o].connectFailed => handle.state = "CLOSING"
         /\ channel # "closing" /\ ~session.destroyCb
<1> DEFINE p == op[o]
           d == due[o]
<1>1. /\ handle.outstanding = o
      /\ p \in Operations /\ d \in [Kinds -> Nat] /\ handle \in Handles /\ session \in Sessions
      /\ Course(p, d, "replied", handle, session, channel, object, Lost)
      /\ p.ref = One(d["end2"] > 0) + One(ctl[o] = "replied" \/ d["complete_fc"] > 0)
                   + One(p.connectFailed)
      /\ p.ref > 0 => p.live /\ ~session.freed
      /\ Stage(p, ctl[o])
  BY FindsAnswered
<1>2. Answered(p, d, handle.state, object) /\ Released(d, handle, session, channel, object)
  BY <1>1 DEF Course
<1>3. d = Nothing /\ Only(d, {})
  <2>1. d["end2"] = 0
    BY NobodyHalfway, NothingHalfway
  <2>2. Only(d, {})
    BY <1>2, <2>1 DEF Answered, Only
  <2>3. QED
    BY <1>1, <2>2, OnlyMeans
<1>4. /\ d["end2"] = 0 /\ d["complete_fc"] = 0 /\ d["finish_fc"] = 0 /\ d["abort_fc"] = 0
  BY <1>3, OnlyThese
<1>5. p.ref = 1 + One(p.connectFailed)
  <2>1. One(d["end2"] > 0) = 0 /\ One(ctl[o] = "replied" \/ d["complete_fc"] > 0) = 1
    BY <1>4 DEF One
  <2>2. One(p.connectFailed) \in Nat
    BY DEF One
  <2> HIDE DEF p, d
  <2>3. QED
    BY <1>1, <2>1, <2>2
<1>6. p.ref > 0
  BY <1>5 DEF One
<1>7. p.state \in {"FINISH", "FINISH_WITH_ERROR"}
  <2>1. p.finished
    BY <1>1, Fitting DEF Fits, Ends, Stage
  <2>2. QED
    BY <1>1, <2>1 DEF Stage, Finishing
<1>8. ~session.destroyCb /\ ~handle.freed /\ handle.state \in {"TE_VALID", "CLOSING"}
  BY <1>2, <1>4 DEF Released, Answered
<1>9. channel # "closing"
  BY <1>2, <1>4, <1>8 DEF Released
<1>10. QED
  BY <1>1, <1>2, <1>3, <1>5, <1>6, <1>7, <1>8, <1>9 DEF Answered

\* Its course once its last callback is that of the close of its channel, and
\* when the reference of the connection that failed is left for ever.
LEMMA ClosingCourse ==
  ASSUME NEW q, q.live, ~q.freeHandle, q.hasHandle, q.failed, q.state = "COMPLETING", ~q.connectFailed,
         NEW e \in [Kinds -> Nat], Only(e, {"complete_fc"}), e["complete_fc"] = 1,
         NEW g, g.state = "CLOSING", ~g.freed, NEW x, ~x.freed, ~x.destroyCb,
         NEW ob \in {"ready", "destroying"}, ob = "ready" => q.delayed, NEW lost
  PROVE  Course(q, e, "ended", g, x, "closing", ob, lost)
<1>1. /\ e["begin"] = 0 /\ e["begin_abort"] = 0 /\ e["begin_cb"] = 0 /\ e["begin_cb2"] = 0
      /\ e["abort"] = 0 /\ e["abort_fc"] = 0 /\ e["abort_now"] = 0 /\ e["end_read"] = 0
      /\ e["write_eof"] = 0 /\ e["send_eof"] = 0 /\ e["finish_fc"] = 0 /\ e["end"] = 0
      /\ e["end_now"] = 0 /\ e["trev"] = 0 /\ e["trev2"] = 0 /\ e["end2"] = 0 /\ e["post"] = 0
  BY KindsAre DEF Only
<1>2. /\ OneOf(e, Rest) /\ Only(e, {"end2", "post", "complete_fc"}) /\ ~Only(e, {})
      /\ OneOf(e, {"end2", "post", "complete_fc"})
  BY <1>1, OnlyThese DEF OneOf, Rest
<1>3. Released(e, g, x, "closing", ob)
  BY <1>1 DEF Released
<1>4. Ended(q, e, g.state, ob)
  BY <1>1, <1>2 DEF Ended
<1>5. QED
  BY <1>1, <1>2, <1>3, <1>4 DEF Course

\* The second.
LEMMA RestingCourse ==
  ASSUME NEW q, q.live \/ ~(q.ref > 0), ~q.freeHandle, NEW h, NEW x, NEW ch, NEW ob, NEW lost,
         Released(Nothing, h, x, ch, ob), Resting(h.state, ob, lost)
  PROVE  Course(q, Nothing, "ended", h, x, ch, ob, lost)
<1>1. Only(Nothing, {}) /\ Nothing \in [Kinds -> Nat]
  BY NothingIs
<1>2. /\ Nothing["end2"] = 0 /\ Nothing["complete_fc"] = 0 /\ Nothing["post"] = 0
      /\ Only(Nothing, {"end2", "post", "complete_fc"})
  BY <1>1, OnlyThese
<1>3. \A k \in Kinds : Nothing[k] = 0
  BY DEF Nothing
<1>4. OneOf(Nothing, Rest) /\ OneOf(Nothing, {"end2", "post", "complete_fc"})
  BY <1>3, KindsAre DEF OneOf, Rest
<1>5. Ended(q, Nothing, h.state, ob)
  BY <1>2, <1>4 DEF Ended
<1>6. QED
  BY <1>2, <1>4, <1>5 DEF Course

\* What Nothing has.
LEMMA NothingReleased ==
  ASSUME NEW h, NEW x, NEW ch, NEW ob
  PROVE  Released(Nothing, h, x, ch, ob) <=>
           /\ ch = "closing" <=> x.destroyCb
           /\ h.freed \/ x.destroyCb => h.state = "CLOSING_AND_DESTROYED" /\ ob \in {"gone", "stopped"}
           /\ h.freed => ch = "none"
           /\ x.freed => x.ref = 0
<1>1. Nothing["finish_fc"] = 0 /\ Nothing["abort_fc"] = 0 /\ Nothing["complete_fc"] = 0 /\ Nothing["post"] = 0
  BY NothingIs, OnlyThese
<1>2. QED
  BY <1>1 DEF Released

\* Complete keeps the course.
LEMMA CompleteOnCourse ==
  ASSUME IInv, IInv', OnCourse, OneLoop, NEW o \in Ops, Complete(o)
  PROVE  OnCourse'
<1> DEFINE p == op[o]
           d == due[o]
           q == [p EXCEPT !.state = "COMPLETING"]
           over == [Data EXCEPT !.op[o].state = "COMPLETING"]
           closing == [over EXCEPT !.handle.state = "CLOSING"]
           g == [handle EXCEPT !.state = "CLOSING"]
           y == [g EXCEPT !.state = "TE_PRE_CLOSED"]
           e == Due(d, "post")
           f == Due(d, "complete_fc")
           back == ForceCloseReturns(closing, o)
<1>1. /\ Turn /\ ctl[o] = "replied" /\ ctl' = [ctl EXCEPT ![o] = "ended"] /\ object' = ObjectEnds
  BY DEF Complete
<1>2. /\ handle.outstanding = o /\ d = Nothing
      /\ p \in Operations /\ handle \in Handles /\ session \in Sessions
      /\ p.ref = 1 + One(p.connectFailed) /\ p.live /\ ~session.freed
      /\ p.hasHandle /\ ~p.freeHandle
      /\ handle.state \in {"TE_VALID", "CLOSING"} /\ ~handle.freed
      /\ object = (IF handle.state = "TE_VALID" THEN "ready" ELSE "destroy_wait")
      /\ p.state \in {"FINISH", "FINISH_WITH_ERROR"}
      /\ p.state = "FINISH_WITH_ERROR" =>
           p.failed /\ ~p.connectFailed /\ (handle.state = "TE_VALID" => p.delayed)
      /\ p.connectFailed => handle.state = "CLOSING"
      /\ channel # "closing" /\ ~session.destroyCb
  BY <1>1, Completes
<1>3. object' = (IF handle.state = "TE_VALID" THEN "ready" ELSE "destroying")
  BY <1>1, <1>2 DEF ObjectEnds
<1>4. \/ p.state = "FINISH" /\ Becomes(Release(over, o))
      \/ p.state = "FINISH_WITH_ERROR" /\ Becomes(Close(closing, o, "complete_fc", Release(back, o)))
  BY <1>2 DEF Complete
<1>5. /\ q \in Operations /\ q.state = "COMPLETING" /\ q.ref = p.ref /\ q.live = p.live
      /\ q.hasHandle = p.hasHandle /\ q.freeHandle = p.freeHandle /\ q.failed = p.failed /\ q.delayed = p.delayed
      /\ q.connectFailed = p.connectFailed
  <2> HIDE DEF p
  <2> QED
    BY <1>2 DEF Operations, OpStates
<1>6. Has(over, o, q, d, handle, session, channel, broken)
  <2>1. Has(Data, o, p, d, handle, session, channel, broken)
    BY DataHas DEF IInv
  <2> HIDE DEF p, d
  <2>2. QED
    BY <2>1, StateHas DEF OpStates
<1>7. Has(closing, o, q, d, g, session, channel, broken)
  <2> HIDE DEF over, q, d
  <2> QED
    BY <1>6, HandleHas DEF HandleStates
<1>8. g \in Handles /\ g.state = "CLOSING" /\ g.outstanding = o /\ g.freed = handle.freed
  BY <1>2, HandleIs DEF HandleStates
<1>9. y \in Handles /\ y.state = "TE_PRE_CLOSED" /\ y.outstanding = o /\ y.freed = handle.freed
  <2> HIDE DEF g
  <2> QED
    BY <1>8, HandleIs, ZenonT(30) DEF HandleStates
<1>10. d \in [Kinds -> Nat] /\ Only(d, {}) /\ Swap(d, e, Nobody, "post") /\ Swap(d, f, Nobody, "complete_fc")
  <2>1. d \in [Kinds -> Nat] /\ Only(d, {})
    BY <1>2, NothingIs
  <2> HIDE DEF d
  <2>2. QED
    BY <2>1, Swaps, KindsAre, ZenonT(30) DEF Due
<1>11. Only(e, {"post"}) /\ e["post"] = 1 /\ e \in [Kinds -> Nat]
  <2> HIDE DEF d, e
  <2> QED
    BY <1>10, OnlyPost
<1>12. /\ ctl' \in [Ops -> CtlStates] /\ (\A r \in Ops \ {o} : ctl'[r] = ctl[r]) /\ ctl'[o] = "ended"
       /\ ctl[o] \in {"replied", "ended"}
  BY <1>1, DataIs DEF CtlStates
<1> DEFINE z == Over1(q, session)
<1>13. z.live /\ ~z.freeHandle /\ z.ref = 0 /\ z.hasHandle /\ (z.freeSession => session.ref - 1 = 0)
       /\ z.failed = p.failed /\ z.delayed = p.delayed
  <2> HIDE DEF q
  <2> QED
    BY <1>2, <1>5, OverIs, ZenonT(30)
<1>14. CASE p.state = "FINISH" /\ ~p.connectFailed
  <2>1. q.ref = 1
    BY <1>2, <1>5, <1>14 DEF One
  <2>2. Has(Release(over, o), o, z, e, handle, Lesser(session), channel, broken)
    <3> HIDE DEF over, q, d
    <3> QED
      BY <1>2, <1>5, <1>6, <2>1, ReleaseLast DEF Due
  <2>3. Course(z, e, "ended", handle, Lesser(session), channel, object', Lost')
    <3> HIDE DEF z, e, p, d
    <3> QED
      BY <1>2, <1>3, <1>11, <1>13, PostCourse
  <2>4. Becomes(Release(over, o))
    BY <1>4, <1>14
  <2> HIDE DEF over, z, e
  <2>5. QED
    BY <1>2, <1>12, <2>2, <2>3, <2>4, OnAnswered
<1>15. CASE p.state = "FINISH" /\ p.connectFailed
  <2>1. q.ref = 2 /\ handle.state = "CLOSING"
    BY <1>2, <1>5, <1>15 DEF One
  <2>2. Has(Release(over, o), o, Less(q), d, handle, session, channel, broken)
    <3> HIDE DEF over, q, d
    <3> QED
      BY <1>6, <2>1, ReleaseHas
  <2>3. Less(q).live /\ ~Less(q).freeHandle
    <3> HIDE DEF q
    <3> QED
      BY <1>2, <1>5, LessIsAlike DEF Alike, AlikeButFailed
  <2>4. Course(Less(q), d, "ended", handle, session, channel, object', Lost')
    <3>1. Released(Nothing, handle, session, channel, object') /\ Resting(handle.state, object', Lost')
      BY <1>2, <1>3, <2>1, NothingReleased DEF Resting
    <3>2. Course(Less(q), Nothing, "ended", handle, session, channel, object', Lost')
      <4> HIDE DEF q
      <4> QED
        BY <2>3, <3>1, RestingCourse
    <3>3. QED
      BY <1>2, <3>2
  <2>5. Becomes(Release(over, o))
    BY <1>4, <1>15
  <2> HIDE DEF over, q, d
  <2>6. QED
    BY <1>2, <1>12, <2>2, <2>4, <2>5, OnAnswered
<1>16. CASE p.state = "FINISH_WITH_ERROR"
  <2>1. Becomes(Close(closing, o, "complete_fc", Release(back, o))) /\ p.failed /\ ~p.connectFailed
        /\ q.ref = 1 /\ object' \in {"ready", "destroying"} /\ (object' = "ready" => p.delayed)
    BY <1>2, <1>3, <1>4, <1>5, <1>16 DEF One
  <2>2. CASE channel = "open"
    <3> DEFINE t == Close(closing, o, "complete_fc", Release(back, o))
    <3>1. Has(t, o, q, f, g, session, "closing", broken)
      <4> DEFINE u == Release(back, o)
      <4>1. "complete_fc" \in Kinds
        BY KindsAre
      <4> HIDE DEF closing, q, d, g, u
      <4>2. Has(Close(closing, o, "complete_fc", u), o, q, [d EXCEPT !["complete_fc"] = @ + 1], g, session, "closing", broken)
        BY <1>7, <2>2, <4>1, CloseHas
      <4>3. QED
        BY <4>2 DEF Due, u
    <3>2. Only(f, {"complete_fc"}) /\ f["complete_fc"] = 1 /\ f \in [Kinds -> Nat]
      <4>1. "complete_fc" \in Kinds /\ \A k \in Kinds : d[k] = 0
        BY <1>2, KindsAre DEF Nothing
      <4> HIDE DEF d
      <4>2. QED
        BY <1>10, <4>1 DEF Only, Due
    <3>3. Course(q, f, "ended", g, session, "closing", object', Lost')
      <4>1. /\ q.live /\ ~q.freeHandle /\ q.hasHandle /\ q.failed /\ q.state = "COMPLETING"
            /\ ~q.connectFailed /\ g.state = "CLOSING" /\ ~g.freed /\ ~session.freed /\ ~session.destroyCb
            /\ (object' = "ready" => q.delayed)
        BY <1>2, <1>5, <1>8, <2>1
      <4> HIDE DEF q, f, g, p, d
      <4>2. QED
        BY <2>1, <3>2, <4>1, ClosingCourse
    <3>4. Becomes(t)
      BY <2>1
    <3> HIDE DEF t, q, f, g
    <3>5. QED
      BY <1>2, <1>8, <1>12, <3>1, <3>3, <3>4, OnAnswered
  <2>3. CASE channel # "open"
    <3> DEFINE u == Release(back, o)
    <3>1. Becomes(u)
      <4>1. closing.channel = channel
        BY <1>7 DEF Has
      <4> HIDE DEF u, closing
      <4>2. QED
        BY <2>1, <2>3, <4>1 DEF Close, u
    <3>2. Has(back, o, q, d, y, session, channel, broken)
      <4> HIDE DEF closing, q, d, g
      <4> QED
        BY <1>7, <1>8, ReturnsHas
    <3>3. Has(u, o, z, e, y, Lesser(session), channel, broken)
      <4> HIDE DEF back, q, d, y
      <4> QED
        BY <1>5, <1>9, <2>1, <3>2, ReleaseLast DEF Due
    <3>4. Course(z, e, "ended", y, Lesser(session), channel, object', Lost')
      <4> HIDE DEF z, e, p, d, y
      <4> QED
        BY <1>2, <1>9, <1>11, <1>13, <2>1, PostCourse
    <3> HIDE DEF u, z, e, y
    <3>5. QED
      BY <1>2, <1>9, <1>12, <3>1, <3>3, <3>4, OnAnswered
  <2>4. QED
    BY <2>2, <2>3
<1>17. QED
  BY <1>2, <1>14, <1>15, <1>16

\* CompleteFcCb keeps the course.
LEMMA CompleteFcCbOnCourse ==
  ASSUME IInv, IInv', OnCourse, OneLoop, NEW o \in Ops, CompleteFcCb(o)
  PROVE  OnCourse'
<1> DEFINE p == op[o]
           d == due[o]
           e == Ran(d, "complete_fc")
           f == Due(e, "post")
           r == Taken("complete_fc", o)
           s == [r EXCEPT !.channel = "none"]
           back == ForceCloseReturns(s, o)
           t == Release(back, o)
           y == [handle EXCEPT !.state = "TE_PRE_CLOSED"]
           g == [handle EXCEPT !.freed = TRUE]
           q == [p EXCEPT !.hasHandle = FALSE]
<1>1. d["complete_fc"] > 0 /\ UNCHANGED half /\ "complete_fc" \in Kinds /\ "post" \in Kinds /\ Becomes(t)
  BY KindsAre DEF CompleteFcCb, Closed
<1>2. /\ ctl[o] \in {"replied", "ended"} /\ handle.outstanding = o
      /\ p \in Operations /\ d \in [Kinds -> Nat] /\ handle \in Handles /\ session \in Sessions
      /\ Course(p, d, ctl[o], handle, session, channel, object, Lost)
      /\ Only(d, {"end2", "post", "complete_fc"})
      /\ p.ref = One(d["end2"] > 0) + One(ctl[o] = "replied" \/ d["complete_fc"] > 0)
                   + One(p.connectFailed)
      /\ d["complete_fc"] <= 1
      /\ p.ref > 0 => p.live /\ ~session.freed
  BY <1>1, FindsAnswered
<1>3. ctl[o] = "ended" /\ Ended(p, d, handle.state, object) /\ Released(d, handle, session, channel, object)
  BY <1>1, <1>2, OnlyThese DEF Course, Answered
<1>4. /\ d["complete_fc"] = 1 /\ d["end2"] = 0 /\ d["post"] = 0 /\ Only(d, {"complete_fc"})
  <2>1. d["end2"] = 0 /\ d["post"] = 0
    BY <1>1, <1>3 DEF Ended, OneOf
  <2>2. Only(d, {"complete_fc"})
    BY <1>2, <2>1 DEF Only
  <2>3. QED
    BY <1>1, <1>2, <2>1, <2>2, Counts
<1>5. /\ p.hasHandle /\ ~p.freeHandle /\ p.failed /\ p.state = "COMPLETING" /\ ~p.connectFailed
      /\ (object = "ready" => p.delayed)
  BY <1>1, <1>3 DEF Ended
<1>6. p.ref = 1 /\ p.live /\ ~session.freed
  BY <1>2, <1>4, <1>5 DEF One
<1>7. ~handle.freed /\ ~session.destroyCb
  BY <1>1, <1>3 DEF Released
<1>8. Has(r, o, p, e, handle, session, channel, broken) /\ Swap(d, f, "complete_fc", "post")
  BY <1>1, RunsHas
<1>9. Has(s, o, p, e, handle, session, "none", broken)
  <2> HIDE DEF r, p, e
  <2> QED
    BY <1>8, PutChannel
<1>10. Only(f, {"post"}) /\ f["post"] = 1 /\ f \in [Kinds -> Nat]
  <2> HIDE DEF d, f
  <2> QED
    BY <1>2, <1>4, <1>8, OnlyPost
<1>11. ctl' \in [Ops -> CtlStates] /\ ctl' = ctl /\ object' = object
  BY <1>1, DataIs DEF half
<1>12. CASE handle.state = "CLOSING"
  <2> DEFINE z == Over1(p, session)
  <2>1. Has(back, o, p, e, y, session, "none", broken)
    <3> HIDE DEF s, p, e
    <3> QED
      BY <1>9, <1>12, ReturnsHas
  <2>2. y \in Handles /\ y.state = "TE_PRE_CLOSED" /\ y.outstanding = o /\ ~y.freed
    BY <1>2, <1>7, HandleIs DEF HandleStates
  <2>3. Has(t, o, z, f, y, Lesser(session), "none", broken)
    <3> HIDE DEF back, p, e, y
    <3> QED
      BY <1>5, <1>6, <2>1, <2>2, ReleaseLast DEF Due
  <2>4. /\ z.live /\ ~z.freeHandle /\ z.ref = 0 /\ z.hasHandle /\ z.failed
        /\ (z.freeSession => session.ref - 1 = 0) /\ (object = "ready" => z.delayed)
    <3>1. p \in Operations /\ session \in Sessions
      BY <1>2
    <3>2. p.live /\ ~p.freeHandle /\ p.hasHandle /\ p.failed /\ (object = "ready" => p.delayed)
      BY <1>5, <1>6
    <3> HIDE DEF p
    <3>3. /\ z.ref = 0 /\ z.freeSession = (session.ref - 1 = 0) /\ z.live = p.live
          /\ z.hasHandle = p.hasHandle /\ z.freeHandle = p.freeHandle /\ z.failed = p.failed /\ z.delayed = p.delayed
      BY <3>1, OverIs
    <3> HIDE DEF z
    <3>4. QED
      BY <3>2, <3>3
  <2>5. object \in {"ready", "destroying"}
    BY <1>1, <1>3, <1>12 DEF Ended
  <2>6. Course(z, f, "ended", y, Lesser(session), "none", object', Lost')
    <3> HIDE DEF z, f, p, d, y
    <3> QED
      BY <1>2, <1>6, <1>7, <1>10, <1>11, <2>2, <2>4, <2>5, PostCourse
  <2> HIDE DEF t, z, f, y
  <2>7. QED
    BY <1>1, <1>2, <1>3, <1>11, <2>2, <2>3, <2>6, OnAnswered
<1>13. CASE handle.state = "CLOSING_AND_DESTROYED"
  <2> DEFINE z == Over1(q, session)
  <2>1. Has(back, o, q, e, g, session, "none", broken)
    <3> HIDE DEF s, p, e
    <3> QED
      BY <1>7, <1>9, <1>13, ReturnsDestroyed
  <2>2. g \in Handles /\ g.state = "CLOSING_AND_DESTROYED" /\ g.outstanding = o /\ g.freed
    BY <1>2, <1>13 DEF Handles
  <2>3. /\ q \in Operations /\ q.state = "COMPLETING" /\ q.ref = 1 /\ q.live /\ ~q.hasHandle
        /\ ~q.freeHandle
    <3> HIDE DEF p
    <3> QED
      BY <1>2, <1>5, <1>6 DEF Operations
  <2>4. Has(t, o, z, f, g, Lesser(session), "none", broken)
    <3> HIDE DEF back, q, e, g
    <3> QED
      BY <2>1, <2>2, <2>3, ReleaseLast DEF Due
  <2>5. z.live /\ ~z.freeHandle /\ z.ref = 0 /\ ~z.hasHandle /\ (z.freeSession => session.ref - 1 = 0)
    <3>1. q \in Operations /\ session \in Sessions
      BY <1>2, <2>3
    <3>2. q.live /\ ~q.freeHandle /\ ~q.hasHandle
      BY <2>3
    <3> HIDE DEF q
    <3>3. /\ z.ref = 0 /\ z.freeSession = (session.ref - 1 = 0) /\ z.live = q.live
          /\ z.hasHandle = q.hasHandle /\ z.freeHandle = q.freeHandle
      BY <3>1, OverIs
    <3> HIDE DEF z
    <3>4. QED
      BY <3>2, <3>3
  <2>6. object \in {"gone", "stopped"}
    BY <1>1, <1>3, <1>13 DEF Ended
  <2>7. Course(z, f, "ended", g, Lesser(session), "none", object', Lost')
    <3> HIDE DEF z, f, q, d, g
    <3> QED
      BY <1>2, <1>6, <1>7, <1>10, <1>11, <2>2, <2>5, <2>6, PostCourse
  <2> HIDE DEF t, z, f, g
  <2>8. QED
    BY <1>1, <1>2, <1>3, <1>11, <2>2, <2>4, <2>7, OnAnswered
<1>14. QED
  BY <1>1, <1>3, <1>12, <1>13 DEF Ended

\* The handle names nobody any more when its operation is freed.
LEMMA Forgets ==
  ASSUME OnCourse, NEW o \in Ops, handle.outstanding = o, ctl[o] = "ended", ctl' = ctl, object' = object,
         NEW s, Becomes(s),
         NEW p, NEW h, NEW x, NEW ch, Has(s, o, p, Nothing, h, x, ch, broken), h.outstanding = None,
         Released(Nothing, h, x, ch, object), Resting(h.state, object, Lost')
  PROVE  OnCourse'
<1>1. /\ op' = s.op /\ due' = s.due /\ handle' = h /\ session' = x /\ channel' = ch /\ broken' = broken
      /\ due'[o] = Nothing /\ \A q \in Ops \ {o} : due'[q] = due[q]
  BY DEF Becomes, Has
<1>2. InOrder /\ Others(o) /\ ~broken
  BY DEF OnCourse, Named
<1>3. InOrder'
  BY <1>2 DEF InOrder
<1>4. Named' = None /\ ~broken'
  BY <1>1, <1>2 DEF Named
<1>5. \A q \in Ops : ctl'[q] \in {"idle", "ended"} /\ due'[q] = Nothing
  BY <1>1, <1>2 DEF Others
<1>6. Others(Named)'
  BY <1>5 DEF Others, Nothing
<1>7. Nothing' = Nothing
  BY DEF Nothing
<1>8. Released(Nothing, handle, session, channel, object)' /\ Resting(handle.state, object, Lost)'
  BY <1>1, <1>7 DEF Released, Resting
<1>9. Named' \notin Ops
  BY <1>4
<1>10. QED
  BY <1>3, <1>4, <1>6, <1>8, <1>9 DEF OnCourse

\* PostTransferEvent keeps the course.
LEMMA PostTransferEventOnCourse ==
  ASSUME IInv, IInv', OnCourse, OneLoop, NEW o \in Ops, PostTransferEvent(o)
  PROVE  OnCourse'
<1> DEFINE p == op[o]
           d == due[o]
           r == Taken("post", o)
           q == [p EXCEPT !.live = FALSE]
           r1 == [r EXCEPT !.op[o] = q]
           x == [session EXCEPT !.freed = @ \/ p.freeSession]
           s == [r1 EXCEPT !.session = x]
           s1 == [s EXCEPT !.handle.outstanding = None]
           g == [handle EXCEPT !.outstanding = None]
           h == CASE handle.state = "TE_PRE_CLOSED" -> "CLOSED"
                  [] handle.state = "TE_PRE_AND_DESTROYED" -> "CLOSING_AND_DESTROYED"
                  [] handle.state = "TE_VALID" -> "VALID"
                  [] OTHER -> handle.state
           y == [g EXCEPT !.state = h]
           t == [s1 EXCEPT !.handle.state = h]
           c == handle.state \notin {"CLOSED", "CLOSED_AND_DESTROYED"}
           u == Must(t, c)
<1>1. d["post"] > 0 /\ UNCHANGED half /\ "post" \in Kinds
  BY KindsAre DEF PostTransferEvent
<1>2. /\ ctl[o] \in {"replied", "ended"} /\ handle.outstanding = o
      /\ p \in Operations /\ d \in [Kinds -> Nat] /\ handle \in Handles /\ session \in Sessions
      /\ Course(p, d, ctl[o], handle, session, channel, object, Lost)
      /\ Only(d, {"end2", "post", "complete_fc"})
  BY <1>1, FindsAnswered
<1>3. ctl[o] = "ended" /\ Ended(p, d, handle.state, object) /\ Released(d, handle, session, channel, object)
  BY <1>1, <1>2, OnlyThese DEF Course, Answered
<1>4. d["post"] = 1 /\ d["end2"] = 0 /\ d["complete_fc"] = 0 /\ \A k \in Kinds \ {"post"} : d[k] = 0
  <2>1. d["post"] = 1 /\ d["end2"] = 0 /\ d["complete_fc"] = 0
    BY <1>1, <1>3 DEF Ended, OneOf
  <2>2. QED
    BY <1>2, <2>1 DEF Only
<1>5. Ran(d, "post") = Nothing
  <2>1. /\ d \in [Kinds -> Nat] /\ "post" \in Kinds /\ d["post"] - 1 = 0
        /\ \A k \in Kinds \ {"post"} : d[k] = 0
    BY <1>1, <1>2, <1>4
  <2> HIDE DEF d
  <2>2. [d EXCEPT !["post"] = @ - 1] = [k \in Kinds |-> 0]
    BY <2>1
  <2>3. QED
    BY <2>2 DEF Ran, Nothing
<1>6. ~(p.ref > 0) /\ ~p.freeHandle /\ (p.freeSession => session.ref = 0) /\ (session.freed => session.ref = 0)
  BY <1>1, <1>2, <1>3 DEF Course, Ended, Released
<1>7. Has(r, o, p, Nothing, handle, session, channel, broken)
  BY <1>1, <1>5, RunsHas
<1>8. q \in Operations /\ ~q.live /\ q.ref = p.ref /\ q.freeHandle = p.freeHandle /\ q.failed = p.failed /\ q.delayed = p.delayed
  <2> HIDE DEF p
  <2> QED
    BY <1>2 DEF Operations
<1>9. x \in Sessions /\ x.ref = session.ref /\ x.destroyCb = session.destroyCb /\ (x.freed => x.ref = 0)
  <2>1. p.freeSession \in BOOLEAN
    BY <1>2 DEF Operations
  <2> HIDE DEF p
  <2>2. QED
    BY <1>2, <1>6, <2>1 DEF Sessions
<1>10. Has(s, o, q, Nothing, handle, x, channel, broken)
  <2>1. Has(r1, o, q, Nothing, handle, session, channel, broken)
    <3> HIDE DEF r, p, q
    <3> QED
      BY <1>7, <1>8, PutOp
  <2> HIDE DEF r1, q, x
  <2>2. QED
    BY <1>9, <2>1, PutSession
<1>11. CASE ~p.hasHandle
  <2>1. Becomes(s)
    <3>1. s = [Taken("post", o) EXCEPT !.op[o].live = FALSE, !.session.freed = @ \/ op[o].freeSession]
      <4>1. r.op[o] = p /\ r.session = session
        BY <1>7 DEF Has
      <4> HIDE DEF r
      <4>2. s = [r EXCEPT !.op[o].live = FALSE, !.session.freed = @ \/ op[o].freeSession]
        BY <4>1
      <4>3. QED
        BY <4>2 DEF r
    <3> HIDE DEF s
    <3>2. QED
      BY <1>11, <3>1 DEF PostTransferEvent
  <2>2. handle.state = "CLOSING_AND_DESTROYED" /\ object \in {"gone", "stopped"}
    BY <1>1, <1>3, <1>11 DEF Ended
  <2>3. Released(Nothing, handle, x, channel, object) /\ Resting(handle.state, object, Lost')
    <3>1. /\ channel = "closing" <=> session.destroyCb
          /\ handle.freed => channel = "none"
      BY <1>2, <1>3, <1>4, OnlyThese DEF Released
    <3> HIDE DEF x
    <3>2. QED
      BY <1>9, <2>2, <3>1, NothingReleased DEF Resting
  <2>4. Course(q, Nothing, "ended", handle, x, channel, object, Lost')
    <3> HIDE DEF q, x, p
    <3> QED
      BY <1>6, <1>8, <2>3, RestingCourse
  <2>5. ctl' \in [Ops -> CtlStates] /\ ctl' = ctl /\ object' = object
    BY <1>1, DataIs DEF half
  <2> HIDE DEF s, q, x
  <2>6. QED
    BY <1>2, <1>3, <1>10, <2>1, <2>4, <2>5, OnAnswered
<1>12. CASE p.hasHandle
  <2>1. \/ handle.state = "TE_VALID" /\ object = "ready"
        \/ handle.state = "TE_PRE_CLOSED" /\ (object = "destroying" \/ (object = "ready" /\ p.failed /\ p.delayed))
        \/ handle.state = "CLOSING" /\ object = "destroying"
    BY <1>1, <1>3, <1>12 DEF Ended
  <2>2. /\ c /\ h \in {"VALID", "CLOSED", "CLOSING"} /\ h \in HandleStates
        /\ \/ h = "VALID" /\ object = "ready"
           \/ h = "CLOSED" /\ (object = "destroying" \/ (object = "ready" /\ p.failed /\ p.delayed))
           \/ h = "CLOSING" /\ object = "destroying"
    BY <2>1 DEF HandleStates
  <2>3. g \in Handles /\ g.state = handle.state /\ g.outstanding = None /\ g.freed = handle.freed
    BY <1>2 DEF Handles
  <2>4. y \in Handles /\ y.state = h /\ y.outstanding = None /\ y.freed = handle.freed
    <3> HIDE DEF g, h
    <3> QED
      BY <2>2, <2>3, HandleIs
  <2>5. Has(u, o, q, Nothing, y, x, channel, broken)
    <3>1. Has(s1, o, q, Nothing, g, x, channel, broken)
      <4> HIDE DEF s, q, x
      <4> QED
        BY <1>10, ForgetHas
    <3>2. Has(t, o, q, Nothing, y, x, channel, broken)
      <4> HIDE DEF s1, q, x, g, h
      <4> QED
        BY <2>2, <3>1, HandleHas
    <3> HIDE DEF t, q, x, y, c
    <3>3. QED
      BY <2>2, <3>2, MustHas
  <2>6. Becomes(u)
    <3> DEFINE h1 == CASE s1.handle.state = "TE_PRE_CLOSED" -> "CLOSED"
                       [] s1.handle.state = "TE_PRE_AND_DESTROYED" -> "CLOSING_AND_DESTROYED"
                       [] s1.handle.state = "TE_VALID" -> "VALID"
                       [] OTHER -> s1.handle.state
               t1 == [s1 EXCEPT !.handle.state = h1]
               u1 == Must(t1, c)
    <3>1. s = [Taken("post", o) EXCEPT !.op[o].live = FALSE, !.session.freed = @ \/ op[o].freeSession]
      <4>1. r.op[o] = p /\ r.session = session
        BY <1>7 DEF Has
      <4> HIDE DEF r
      <4>2. s = [r EXCEPT !.op[o].live = FALSE, !.session.freed = @ \/ op[o].freeSession]
        BY <4>1
      <4>3. QED
        BY <4>2 DEF r
    <3>2. Becomes(u1)
      <4> HIDE DEF s, r
      <4>1. t1 = [s EXCEPT !.handle.outstanding = None,
                          !.handle.state = CASE @ = "TE_PRE_CLOSED" -> "CLOSED"
                                             [] @ = "TE_PRE_AND_DESTROYED" -> "CLOSING_AND_DESTROYED"
                                             [] @ = "TE_VALID" -> "VALID"
                                             [] OTHER -> @]
        OBVIOUS
      <4> HIDE DEF t1
      <4>2. QED
        BY <1>6, <1>12, <3>1, <4>1 DEF PostTransferEvent
    <3>3. s1.handle.state = handle.state
      <4>1. s.handle = handle /\ s \in Blocks
        BY <1>10 DEF Has
      <4> HIDE DEF s
      <4>2. QED
        BY <4>1, <1>2 DEF Blocks, Handles
    <3>4. h1 = h
      <4> HIDE DEF s1
      <4> QED
        BY <3>3
    <3> HIDE DEF h1, h, s1
    <3>5. QED
      BY <3>2, <3>4
  <2>7. Released(Nothing, y, x, channel, object)
    <3>1. /\ channel = "closing" <=> session.destroyCb
          /\ ~handle.freed /\ ~session.destroyCb
      BY <1>2, <1>3, <1>4, <2>1, OnlyThese DEF Released
    <3> HIDE DEF x, y
    <3>2. QED
      BY <1>9, <2>4, <3>1, NothingReleased
  <2>8. Resting(y.state, object, Lost')
    <3>1. p.failed /\ p.delayed => Lost'
      <4>1. Becomes(u) /\ Has(u, o, q, Nothing, y, x, channel, broken)
        BY <2>5, <2>6
      <4> HIDE DEF u, q, y, x
      <4>2. op'[o] = q /\ ctl'[o] = "ended"
        BY <1>1, <1>3, <4>1 DEF Becomes, Has, half
      <4>3. QED
        BY <1>8, <4>2 DEF Lost, Spoiled
    <3> HIDE DEF y, h, p
    <3>2. QED
      BY <2>2, <2>4, <3>1 DEF Resting
  <2>9. ctl' = ctl /\ object' = object
    BY <1>1 DEF half
  <2> HIDE DEF u, q, y, x
  <2>10. QED
    BY <1>2, <1>3, <2>4, <2>5, <2>6, <2>7, <2>8, <2>9, Forgets
<1>13. QED
  BY <1>11, <1>12

-----------------------------------------------------------------------------
(* The steps of no operation: nothing is on its way but the close of the    *)
(* channel that the end of the last transfer asked for.                     *)

\* What is on its way for the operation the handle names.
WayOf == IF Named = None THEN Nothing ELSE due[Named]

\* The handle, the session and the channel while no operation is running.
Rests(d, h, x, ch, ob, lost) ==
  /\ Released(d, h, x, ch, ob)
  /\ d["complete_fc"] > 0 => \/ ob \in {"ready", "destroying"} /\ h.state = "CLOSING"
                             \/ ob \in {"gone", "stopped"} /\ h.state = "CLOSING_AND_DESTROYED"
  /\ Only(d, {}) => Resting(h.state, ob, lost)

\* So they are when no request is unanswered or has yet to be ended.
AtRest == /\ WayOf \in [Kinds -> Nat] /\ Only(WayOf, {"complete_fc"})
          /\ \A o \in Ops : ctl[o] \in {"idle", "ended"}
          /\ Rests(WayOf, handle, session, channel, object, Lost)

\* A reply that is not ended leaves the data object ready, or to be destroyed.
LEMMA RepliedObject ==
  ASSUME IInv, OnCourse, NEW o \in Ops, ctl[o] = "replied"
  PROVE  object \in {"ready", "destroy_wait"}
<1>1. Course(op[o], due[o], ctl[o], handle, session, channel, object, Lost)
  BY FindsAnswered
<1>2. QED
  BY <1>1 DEF Course, Answered

\* Its course, and that nothing is halfway, say so.
LEMMA IsAtRest ==
  ASSUME IInv, OnCourse, OneLoop, Turn, object # "inuse", \A o \in Ops : ctl[o] # "replied"
  PROVE  AtRest
<1>1. \A o \in Ops : ctl[o] \in {"idle", "ended"}
  BY DataIs DEF IInv, OneAtATime, CtlStates
<1>2. CASE Named = None
  <2>1. WayOf = Nothing
    BY <1>2 DEF WayOf
  <2>2. Nothing["complete_fc"] = 0 /\ Only(Nothing, {"complete_fc"}) /\ Nothing \in [Kinds -> Nat]
    BY KindsAre DEF Nothing, Only
  <2>3. Resting(handle.state, object, Lost) /\ Released(Nothing, handle, session, channel, object)
    BY <1>2 DEF OnCourse
  <2>4. QED
    BY <1>1, <2>1, <2>2, <2>3 DEF AtRest, Rests
<1>3. CASE Named # None
  <2>1. Named \in Ops
    BY <1>3, DataIs DEF Named, Handles
  <2>2. PICK o \in Ops : o = Named
    BY <2>1
  <2> DEFINE d == due[o]
  <2>3. WayOf = d /\ d \in [Kinds -> Nat]
    BY <1>3, <2>2, DataIs DEF WayOf
  <2>4. Course(op[o], d, ctl[o], handle, session, channel, object, Lost)
    BY <2>2 DEF OnCourse
  <2>5. ctl[o] = "ended"
    BY <1>1, <2>4 DEF Course
  <2>6. /\ Ended(op[o], d, handle.state, object) /\ Released(d, handle, session, channel, object)
        /\ Only(d, {}) => Resting(handle.state, object, Lost)
    BY <2>4, <2>5 DEF Course
  <2>7. d["end2"] = 0 /\ d["post"] = 0
    BY NobodyHalfway, NothingHalfway
  <2>8. Only(d, {"complete_fc"})
    BY <2>6, <2>7 DEF Ended, Only
  <2>9. Rests(d, handle, session, channel, object, Lost)
    BY <2>6 DEF Ended, Rests
  <2>10. QED
    BY <1>1, <2>3, <2>8, <2>9 DEF AtRest
<1>4. QED
  BY <1>2, <1>3

\* What that leaves: a channel is being closed for one reason or the other.
LEMMA RestIs ==
  ASSUME AtRest
  PROVE  /\ object \in {"ready", "destroying", "gone", "stopped"}
         /\ WayOf["post"] = 0 /\ WayOf["finish_fc"] = 0 /\ WayOf["abort_fc"] = 0
         /\ WayOf["complete_fc"] \in Nat
         /\ Only(WayOf, {}) <=> ~(WayOf["complete_fc"] > 0)
<1> DEFINE d == WayOf
<1>1. d["complete_fc"] \in Nat /\ \A k \in Kinds \ {"complete_fc"} : d[k] = 0
  BY KindsAre DEF AtRest, Only
<1>2. Only(d, {}) <=> ~(d["complete_fc"] > 0)
  <2> HIDE DEF d
  <2> QED
    BY <1>1, KindsAre DEF Only
<1>3. object \in {"ready", "destroying", "gone", "stopped"}
  BY <1>2 DEF AtRest, Rests, Resting
<1>4. QED
  BY <1>1, <1>2, <1>3, KindsAre

\* A step of no operation leaves their course alone.
LEMMA StaysAtRest ==
  ASSUME IInv, OnCourse, AtRest, NEW s, Becomes(s), ctl' = ctl,
         NEW h, NEW x, NEW ch, Has(s, 1, op[1], due[1], h, x, ch, broken),
         h.outstanding = handle.outstanding, Rests(WayOf, h, x, ch, object', Lost),
         object' = "ready" => object = "ready"
  PROVE  OnCourse'
<1>1. 1 \in Ops
  OBVIOUS
<1>2. op' = op /\ due' = due /\ handle' = h /\ session' = x /\ channel' = ch /\ broken' = broken
  <2>1. /\ op' = s.op /\ due' = s.due /\ handle' = h /\ session' = x /\ channel' = ch /\ broken' = broken
        /\ \A q \in Ops : s.op[q] = op[q] /\ s.due[q] = due[q]
    BY <1>1 DEF Becomes, Has
  <2>2. s.op \in [Ops -> Operations] /\ s.due \in [Ops -> [Kinds -> Nat]]
    BY <1>1, HasTypes
  <2>3. op \in [Ops -> Operations] /\ due \in [Ops -> [Kinds -> Nat]]
    BY DataIs
  <2>4. s.op = op /\ s.due = due
    <3>1. \A q \in Ops : s.op[q] = op[q] /\ s.due[q] = due[q]
      BY <2>1
    <3>2. s.op = op
      BY <2>2, <2>3, <3>1
    <3>3. s.due = due
      BY <2>2, <2>3, <3>1
    <3>4. QED
      BY <3>2, <3>3
  <2>5. QED
    BY <2>1, <2>4
<1>3. Lost' = Lost /\ Named' = Named
  BY <1>2 DEF Lost, Spoiled, Named
<1>4. ~broken' /\ InOrder' /\ Others(Named)'
  BY <1>2, <1>3 DEF OnCourse, InOrder, Others, Nothing
<1>5. ASSUME Named \in Ops
      PROVE  Course(op[Named], due[Named], ctl[Named], h, x, ch, object', Lost)
  <2>1. PICK o \in Ops : o = Named
    BY <1>5
  <2> DEFINE d == due[o]
             p == op[o]
  <2>2. WayOf = d
    BY <2>1 DEF WayOf
  <2>3. Course(p, d, ctl[o], handle, session, channel, object, Lost)
    BY <2>1 DEF OnCourse
  <2>4. ctl[o] = "ended"
    BY <2>3 DEF AtRest, Course
  <2>5. Ended(p, d, handle.state, object) /\ OneOf(d, Rest)
    BY <2>3, <2>4 DEF Course
  <2>6. d["post"] = 0 /\ d["end2"] = 0
    BY <2>2, KindsAre DEF AtRest, Only
  <2>7. /\ Released(d, h, x, ch, object')
        /\ d["complete_fc"] > 0 => \/ object' \in {"ready", "destroying"} /\ h.state = "CLOSING"
                                   \/ object' \in {"gone", "stopped"} /\ h.state = "CLOSING_AND_DESTROYED"
        /\ Only(d, {}) => Resting(h.state, object', Lost)
    BY <2>2 DEF Rests
  <2>8. Ended(p, d, h.state, object')
    <3> HIDE DEF d, p
    <3> QED
      BY <2>5, <2>6, <2>7 DEF Ended
  <2>9. p.ref > 0 => p.live
    BY <2>3 DEF Course
  <2>10. Course(p, d, "ended", h, x, ch, object', Lost)
    <3> HIDE DEF d, p
    <3> QED
      BY <2>5, <2>6, <2>7, <2>8, <2>9 DEF Course
  <2>11. QED
    BY <2>1, <2>4, <2>10
<1>6. ASSUME Named = None
      PROVE  Resting(h.state, object', Lost) /\ Released(Nothing, h, x, ch, object')
  <2>1. WayOf = Nothing
    BY <1>6 DEF WayOf
  <2>2. QED
    BY <2>1, NothingIs DEF Rests
<1>7. Named' \in Ops => Course(op'[Named'], due'[Named'], ctl'[Named'], handle', session', channel', object', Lost')
  BY <1>2, <1>3, <1>5
<1>8. Named' = None => /\ Resting(handle'.state, object', Lost')
                       /\ Released(Nothing, handle', session', channel', object')
  BY <1>2, <1>3, <1>6
<1>9. Nothing' = Nothing
  BY DEF Nothing
<1>10. QED
  BY <1>4, <1>7, <1>8, <1>9 DEF OnCourse

\* The session's fields, one after the other.
LEMMA SessionIs ==
  ASSUME NEW x \in Sessions
  PROVE  /\ \A n \in Int :
              LET y == [x EXCEPT !.ref = n]
              IN y \in Sessions /\ y.ref = n /\ y.freed = x.freed /\ y.destroyCb = x.destroyCb
         /\ \A b \in BOOLEAN :
              LET y == [x EXCEPT !.freed = b]
              IN y \in Sessions /\ y.ref = x.ref /\ y.freed = b /\ y.destroyCb = x.destroyCb
         /\ \A b \in BOOLEAN :
              LET y == [x EXCEPT !.destroyCb = b]
              IN y \in Sessions /\ y.ref = x.ref /\ y.freed = x.freed /\ y.destroyCb = b
BY DEF Sessions

\* DestroyHandle keeps the course.
LEMMA DestroyHandleOnCourse ==
  ASSUME IInv, OnCourse, OneLoop, DestroyHandle
  PROVE  OnCourse'
<1> DEFINE p == op[1]
           e == due[1]
           y == [session EXCEPT !.ref = @ + 1]
           x == [y EXCEPT !.destroyCb = TRUE]
           v == [handle EXCEPT !.state = "CLOSING_AND_DESTROYED"]
           w == [handle EXCEPT !.state = "CLOSED_AND_DESTROYED"]
           f == IF channel = "none" THEN [v EXCEPT !.freed = TRUE] ELSE v
           closed == [Data EXCEPT !.handle.state = "CLOSING_AND_DESTROYED"]
           away == [Data EXCEPT !.handle.state = "CLOSED_AND_DESTROYED"]
           d == [Data EXCEPT !.session = x]
           b == [d EXCEPT !.channel = "closing"]
           s == [b EXCEPT !.handle.state = "CLOSING_AND_DESTROYED"]
<1>1. Turn /\ object' = "gone" /\ ctl' = ctl /\ object \in {"destroying", "ready", "destroy_wait"}
  BY DEF DestroyHandle
<1>2. \A o \in Ops : ctl[o] # "replied"
  BY RepliedObject DEF DestroyHandle, OneLoop
<1>3. AtRest
  BY <1>1, <1>2, IsAtRest
<1>4. /\ object \in {"ready", "destroying"}
      /\ WayOf["post"] = 0 /\ WayOf["finish_fc"] = 0 /\ WayOf["abort_fc"] = 0
      /\ WayOf["complete_fc"] \in Nat
      /\ Only(WayOf, {}) <=> ~(WayOf["complete_fc"] > 0)
  BY <1>1, <1>3, RestIs
<1>5. /\ Released(WayOf, handle, session, channel, object)
      /\ WayOf["complete_fc"] > 0 => handle.state = "CLOSING"
      /\ ~(WayOf["complete_fc"] > 0) => Resting(handle.state, object, Lost)
  BY <1>3, <1>4 DEF AtRest, Rests
<1>6. /\ handle.state \in {"VALID", "CLOSING", "CLOSED"}
      /\ handle.state = "VALID" => ~(WayOf["complete_fc"] > 0)
      /\ ~handle.freed /\ ~session.freed /\ ~session.destroyCb
  BY <1>4, <1>5, SessionHeld DEF Resting, Released
<1>7. /\ handle \in Handles /\ session \in Sessions /\ session.ref \in Int /\ 1 \in Ops
      /\ channel = "closing" <=> WayOf["complete_fc"] > 0
  BY <1>4, <1>5, <1>6, DataIs DEF Released, Sessions
<1>8. Has(Data, 1, p, e, handle, session, channel, broken)
  BY <1>7, DataHas DEF IInv
<1>9. "CLOSING_AND_DESTROYED" \in HandleStates /\ "CLOSED_AND_DESTROYED" \in HandleStates
  BY DEF HandleStates
<1>10. /\ v \in Handles /\ v.state = "CLOSING_AND_DESTROYED" /\ v.outstanding = handle.outstanding /\ ~v.freed
       /\ w \in Handles /\ w.state = "CLOSED_AND_DESTROYED" /\ w.outstanding = handle.outstanding /\ ~w.freed
  BY <1>6, <1>7, <1>9, HandleIs
<1>11. CASE handle.state = "VALID" /\ channel = "open"
  <2>1. Becomes(s)
    <3>2. Data.session = session /\ Data.handle = handle
      BY DataIs
    <3>3. s = [Data EXCEPT !.session.ref = @ + 1, !.session.destroyCb = TRUE, !.channel = "closing",
                           !.handle.state = IF @ = "VALID" THEN "CLOSING_AND_DESTROYED"
                                            ELSE "TE_PRE_AND_DESTROYED"]
      <4>1. [Data EXCEPT !.session.ref = @ + 1, !.session.destroyCb = TRUE, !.channel = "closing",
                         !.handle.state = "CLOSING_AND_DESTROYED"]
            = [Data EXCEPT !.session.ref = @ + 1, !.session.destroyCb = TRUE, !.channel = "closing",
                           !.handle.state = IF @ = "VALID" THEN "CLOSING_AND_DESTROYED"
                                            ELSE "TE_PRE_AND_DESTROYED"]
        BY <1>11, <3>2
      <4>2. s = [Data EXCEPT !.session.ref = @ + 1, !.session.destroyCb = TRUE, !.channel = "closing",
                             !.handle.state = "CLOSING_AND_DESTROYED"]
        <5>1. [Data EXCEPT !.session.ref = @ + 1, !.session.destroyCb = TRUE] = d
          BY <3>2
        <5> HIDE DEF d
        <5>2. QED
          BY <5>1
      <4> HIDE DEF s
      <4>3. QED
        BY <4>1, <4>2
    <3> HIDE DEF s
    <3>4. QED
      BY <1>11, <3>3 DEF DestroyHandle
  <2>2. x \in Sessions /\ x.ref = session.ref + 1 /\ x.freed = session.freed /\ x.destroyCb = TRUE
    <3>1. session.ref + 1 \in Int /\ TRUE \in BOOLEAN
      BY <1>7
    <3>2. y \in Sessions /\ y.ref = session.ref + 1 /\ y.freed = session.freed
      BY <1>7, <3>1, SessionIs
    <3> HIDE DEF y
    <3>3. QED
      BY <3>1, <3>2, SessionIs
  <2>3. Has(s, 1, p, e, v, x, "closing", broken)
    <3>1. Has(d, 1, p, e, handle, x, channel, broken)
      <4> HIDE DEF x, p, e
      <4> QED
        BY <1>7, <1>8, <2>2, PutSession
    <3>2. Has(b, 1, p, e, handle, x, "closing", broken)
      <4> HIDE DEF d, x, p, e
      <4> QED
        BY <1>7, <3>1, PutChannel
    <3> HIDE DEF b, x, p, e
    <3>3. QED
      BY <1>7, <1>9, <3>2, HandleHas
  <2>4. Rests(WayOf, v, x, "closing", object', Lost)
    <3> HIDE DEF v, x
    <3> QED
      BY <1>1, <1>4, <1>6, <1>7, <1>10, <1>11, <2>2 DEF Rests, Released, Resting
  <2> HIDE DEF s, v, x
  <2>5. QED
    BY <1>1, <1>3, <1>10, <2>1, <2>3, <2>4, StaysAtRest
<1>12. CASE handle.state = "VALID" /\ channel # "open"
  <2>1. Becomes(away)
    <3> HIDE DEF away
    <3> QED
      BY <1>12 DEF DestroyHandle, away
  <2>2. Has(away, 1, p, e, w, session, channel, broken)
    <3> HIDE DEF p, e
    <3> QED
      BY <1>7, <1>8, <1>9, HandleHas
  <2>3. Rests(WayOf, w, session, channel, object', Lost)
    <3> HIDE DEF w
    <3> QED
      BY <1>1, <1>4, <1>6, <1>7, <1>10, <1>12 DEF Rests, Released, Resting
  <2> HIDE DEF away, w
  <2>4. QED
    BY <1>1, <1>3, <1>10, <2>1, <2>2, <2>3, StaysAtRest
<1>13. CASE handle.state \in {"CLOSING", "CLOSED"}
  <2> DEFINE t == FreeHandle(closed)
  <2>1. Becomes(t)
    <3> HIDE DEF t
    <3> QED
      BY <1>13 DEF DestroyHandle, t
  <2>2. Has(t, 1, p, e, f, session, channel, broken)
    <3>1. Has(closed, 1, p, e, v, session, channel, broken)
      <4> HIDE DEF p, e
      <4> QED
        BY <1>7, <1>8, <1>9, HandleHas
    <3> HIDE DEF closed, v, p, e
    <3>2. QED
      BY <1>7, <1>10, <3>1, FreeHandleHas
  <2>3. /\ f.state = "CLOSING_AND_DESTROYED" /\ f.outstanding = handle.outstanding
        /\ f.freed => channel = "none"
    <3> HIDE DEF v
    <3> QED
      BY <1>10 DEF Handles
  <2>4. Rests(WayOf, f, session, channel, object', Lost)
    <3> HIDE DEF f
    <3> QED
      BY <1>1, <1>4, <1>6, <1>7, <2>3 DEF Rests, Released, Resting
  <2> HIDE DEF t, f
  <2>5. QED
    BY <1>1, <1>3, <2>1, <2>2, <2>3, <2>4, StaysAtRest
<1>14. QED
  BY <1>6, <1>11, <1>12, <1>13

\* SessionStop keeps the course.
LEMMA SessionStopOnCourse ==
  ASSUME IInv, OnCourse, OneLoop, SessionStop
  PROVE  OnCourse'
<1> DEFINE y == [session EXCEPT !.ref = @ - 1]
           f == session.ref = 1
           x == [y EXCEPT !.freed = f]
           s == [Data EXCEPT !.session = x]
<1>1. /\ Turn /\ object = "gone" /\ object' = "stopped" /\ ctl' = ctl
      /\ \A o \in Ops : ctl[o] # "replied"
  BY DEF SessionStop
<1>2. AtRest
  BY <1>1, IsAtRest
<1>3. /\ WayOf["post"] = 0 /\ WayOf["finish_fc"] = 0 /\ WayOf["abort_fc"] = 0
      /\ WayOf["complete_fc"] \in Nat
      /\ Only(WayOf, {}) <=> ~(WayOf["complete_fc"] > 0)
      /\ Rests(WayOf, handle, session, channel, object, Lost)
  BY <1>2, RestIs DEF AtRest
<1>4. session \in Sessions /\ session.ref \in Int /\ 1 \in Ops /\ handle \in Handles
  BY DataIs DEF Sessions
<1>5. f \in BOOLEAN
  OBVIOUS
<1>6. Becomes(s)
  <2>1. Data.session = session
    BY DataIs
  <2>2. s = [Data EXCEPT !.session.ref = @ - 1, !.session.freed = (session.ref = 1)]
    BY <2>1
  <2> HIDE DEF s
  <2>3. QED
    BY <2>2 DEF SessionStop
<1>7. /\ x \in Sessions /\ x.ref = session.ref - 1 /\ (x.freed => session.ref = 1)
      /\ x.destroyCb = session.destroyCb
  <2>1. session.ref - 1 \in Int
    BY <1>4
  <2>2. y \in Sessions /\ y.ref = session.ref - 1 /\ y.destroyCb = session.destroyCb
    BY <1>4, <2>1, SessionIs
  <2>3. x \in Sessions /\ x.ref = y.ref /\ x.freed = f /\ x.destroyCb = y.destroyCb
    <3> HIDE DEF y, f
    <3> QED
      BY <1>5, <2>2, SessionIs
  <2> HIDE DEF x, y
  <2>4. QED
    BY <2>2, <2>3
<1>8. Has(s, 1, op[1], due[1], handle, x, channel, broken)
  <2>1. Has(Data, 1, op[1], due[1], handle, session, channel, broken)
    BY <1>4, DataHas DEF IInv
  <2> HIDE DEF x
  <2>2. QED
    BY <1>4, <1>7, <2>1, PutSession
<1>9. Rests(WayOf, handle, x, channel, object', Lost)
  <2>1. (x.freed => x.ref = 0) /\ (x.destroyCb <=> session.destroyCb)
    <3> HIDE DEF x
    <3> QED
      BY <1>4, <1>7
  <2> HIDE DEF x
  <2>2. QED
    BY <1>1, <1>3, <2>1 DEF Rests, Released, Resting
<1> HIDE DEF s, x
<1>10. QED
  BY <1>1, <1>2, <1>6, <1>8, <1>9, StaysAtRest

\* DestroyCb keeps the course.
LEMMA DestroyCbOnCourse ==
  ASSUME IInv, OnCourse, OneLoop, DestroyCb
  PROVE  OnCourse'
<1> DEFINE y == [session EXCEPT !.destroyCb = FALSE]
           z == [y EXCEPT !.ref = @ - 1]
           f == session.ref = 1
           x == [z EXCEPT !.freed = f]
           a == [Data EXCEPT !.channel = "none"]
           s == [a EXCEPT !.session = x]
           t == FreeHandle(s)
           g == [handle EXCEPT !.freed = TRUE]
<1>1. /\ session.destroyCb /\ object \in {"gone", "stopped"} /\ ctl' = ctl /\ object' = object
  BY DEF DestroyCb, half, IInv, OneAtATime
<1>2. session \in Sessions /\ session.ref \in Int /\ 1 \in Ops /\ handle \in Handles
  BY DataIs DEF Sessions
<1>3. Turn
  BY <1>2 DEF DestroyCb, Quiet, TurnOf
<1>4. AtRest
  BY <1>1, <1>3, IsAtRest, RepliedObject
<1>5. /\ WayOf["post"] = 0 /\ WayOf["finish_fc"] = 0 /\ WayOf["abort_fc"] = 0
      /\ WayOf["complete_fc"] \in Nat
      /\ Only(WayOf, {}) <=> ~(WayOf["complete_fc"] > 0)
      /\ Rests(WayOf, handle, session, channel, object, Lost)
  BY <1>4, RestIs DEF AtRest
<1>6. /\ WayOf["complete_fc"] = 0 /\ channel = "closing" /\ handle.state = "CLOSING_AND_DESTROYED"
      /\ ~handle.freed
  BY <1>1, <1>5 DEF Rests, Released
<1>7. f \in BOOLEAN
  OBVIOUS
<1>8. Becomes(t)
  <2>1. a.session = session
    BY DataIs DEF Data
  <2>2. s = [Data EXCEPT !.channel = "none", !.session.destroyCb = FALSE,
                         !.session.ref = @ - 1, !.session.freed = (session.ref = 1)]
    <3>1. s = [a EXCEPT !.session.destroyCb = FALSE, !.session.ref = @ - 1,
                        !.session.freed = (session.ref = 1)]
      <4> HIDE DEF a
      <4> QED
        BY <2>1
    <3> HIDE DEF s
    <3>2. QED
      BY <3>1
  <2> HIDE DEF s, t
  <2>3. QED
    BY <1>6, <2>2 DEF DestroyCb, t
<1>9. /\ x \in Sessions /\ x.ref = session.ref - 1 /\ (x.freed => session.ref = 1) /\ ~x.destroyCb
  <2>1. session.ref - 1 \in Int /\ FALSE \in BOOLEAN
    BY <1>2
  <2>2. y \in Sessions /\ y.ref = session.ref /\ y.destroyCb = FALSE
    BY <1>2, <2>1, SessionIs
  <2> HIDE DEF y
  <2>3. z \in Sessions /\ z.ref = session.ref - 1 /\ z.destroyCb = FALSE
    BY <2>1, <2>2, SessionIs
  <2> HIDE DEF z
  <2>4. x \in Sessions /\ x.ref = z.ref /\ x.freed = f /\ x.destroyCb = z.destroyCb
    <3> HIDE DEF f
    <3> QED
      BY <1>7, <2>3, SessionIs
  <2> HIDE DEF x
  <2>5. QED
    BY <2>3, <2>4
<1>10. g.state = handle.state /\ g.outstanding = handle.outstanding
  BY <1>2 DEF Handles
<1>11. Has(t, 1, op[1], due[1], g, x, "none", broken)
  <2>1. Has(Data, 1, op[1], due[1], handle, session, channel, broken)
    BY <1>2, DataHas DEF IInv
  <2>2. Has(a, 1, op[1], due[1], handle, session, "none", broken)
    BY <1>2, <2>1, PutChannel
  <2>3. Has(s, 1, op[1], due[1], handle, x, "none", broken)
    <3> HIDE DEF a, x
    <3> QED
      BY <1>2, <1>9, <2>2, PutSession
  <2> HIDE DEF s, x
  <2>4. QED
    BY <1>2, <1>6, <2>3, FreeHandleHas
<1>12. Rests(WayOf, g, x, "none", object', Lost)
  <2>1. (x.freed => x.ref = 0) /\ ~x.destroyCb
    <3> HIDE DEF x
    <3> QED
      BY <1>2, <1>9
  <2> HIDE DEF x, g
  <2>2. QED
    BY <1>1, <1>5, <1>6, <1>10, <2>1 DEF Rests, Released, Resting
<1> HIDE DEF t, x, g
<1>13. QED
  BY <1>1, <1>4, <1>8, <1>10, <1>11, <1>12, StaysAtRest

\* A request starts from a handle nothing is on its way for, if no transfer
\* before it has spoiled the channel.
LEMMA RequestFinds ==
  ASSUME IInv, OnCourse, OneLoop, NEW o \in Ops, NEW w \in BOOLEAN, Request(o, w), ~reused'
  PROVE  /\ handle.state = "VALID" /\ ~handle.freed /\ ~session.freed /\ ~session.destroyCb
         /\ channel # "closing" /\ due[o] = Nothing /\ Others(o)
         /\ \A q \in Ops \ {o} : ctl[q] # "idle" => q < o
<1>1. /\ Turn /\ ctl[o] = "idle" /\ object = "ready"
      /\ \A q \in 1..(o - 1) : ctl[q] = "ended" /\ ~Spoiled(q)
  BY DEF Request, OneLoop
<1>2. \A q \in Ops : ctl[q] # "idle" => q < o
  BY <1>1 DEF OnCourse, InOrder
<1>3. \A q \in Ops : ctl[q] # "idle" => ctl[q] = "ended" /\ ~Spoiled(q)
  BY <1>1, <1>2
<1>4. AtRest
  BY <1>1, <1>3, IsAtRest
<1>5. /\ WayOf["post"] = 0 /\ WayOf["finish_fc"] = 0 /\ WayOf["abort_fc"] = 0
      /\ WayOf["complete_fc"] \in Nat
      /\ Only(WayOf, {}) <=> ~(WayOf["complete_fc"] > 0)
      /\ Rests(WayOf, handle, session, channel, object, Lost)
  BY <1>4, RestIs DEF AtRest
<1>6. ~Lost
  BY <1>3 DEF Lost
<1>7. ~(WayOf["complete_fc"] > 0)
  <2>1. CASE Named = None
    BY <2>1, KindsAre DEF WayOf, Nothing
  <2>2. CASE Named # None
    <3>1. PICK q \in Ops : q = Named
      BY <2>2, DataIs DEF Named, Handles
    <3>2. Course(op[q], due[q], ctl[q], handle, session, channel, object, Lost) /\ WayOf = due[q]
      BY <2>2, <3>1 DEF OnCourse, WayOf
    <3>3. ctl[q] = "ended" /\ ~Spoiled(q)
      BY <1>3, <3>2 DEF Course
    <3>4. QED
      BY <1>1, <3>2, <3>3 DEF Course, Ended, Spoiled
  <2>3. QED
    BY <2>1, <2>2
<1>8. handle.state = "VALID"
  BY <1>1, <1>5, <1>6, <1>7 DEF Rests, Resting
<1>9. ~handle.freed /\ ~session.freed /\ ~session.destroyCb /\ channel # "closing"
  BY <1>1, <1>5, <1>7, <1>8, SessionHeld DEF Rests, Released
<1>10. due[o] = Nothing
  BY <1>1, Fitting
<1>11. Others(o)
  <2>1. ASSUME NEW q \in Ops \ {o}
        PROVE  due[q] = Nothing
    <3>1. CASE q = Named
      <4>1. WayOf = due[q] /\ WayOf \in [Kinds -> Nat] /\ Only(WayOf, {})
        BY <1>4, <1>5, <1>7, <3>1 DEF WayOf, AtRest
      <4>2. QED
        BY <4>1, OnlyMeans
    <3>2. CASE q # Named
      BY <3>2 DEF OnCourse, Others
    <3>3. QED
      BY <3>1, <3>2
  <2>2. QED
    BY <1>3, <2>1 DEF Others
<1>12. QED
  BY <1>2, <1>8, <1>9, <1>10, <1>11

\* A request that has just come.
LEMMA RequestedPending ==
  ASSUME NEW w \in BOOLEAN, NEW ch, ch # "closing"
  PROVE  Pending(NewOp(w), Nothing, "INUSE", ch) /\ NewOp(w).live /\ NewOp(w) \in Operations
<1>1. \A k \in Kinds : Nothing[k] = 0
  BY DEF Nothing
<1>2. OneOf(Nothing, Rest) /\ Only(Nothing, {"end"})
  BY <1>1, KindsAre DEF OneOf, Rest, Only
<1>3. /\ Nothing["begin"] = 0 /\ Nothing["begin_cb"] = 0 /\ Nothing["begin_cb2"] = 0
      /\ Nothing["abort"] = 0 /\ Nothing["abort_fc"] = 0 /\ Nothing["abort_now"] = 0
      /\ Nothing["end_read"] = 0 /\ Nothing["write_eof"] = 0 /\ Nothing["send_eof"] = 0
      /\ Nothing["finish_fc"] = 0 /\ Nothing["end_now"] = 0 /\ Nothing["trev"] = 0 /\ Nothing["trev2"] = 0
      /\ Nothing["post"] = 0 /\ Nothing["complete_fc"] = 0 /\ Nothing["end2"] = 0
  BY <1>1, KindsAre
<1>4. /\ NewOp(w).state = "REQUESTING" /\ ~NewOp(w).begun /\ NewOp(w).hasHandle /\ ~NewOp(w).freeHandle
      /\ ~NewOp(w).connectFailed /\ NewOp(w).live
  BY DEF NewOp
<1>5. NewOp(w) \in Operations
  BY DEF NewOp, Operations, OpStates
<1>6. Pending(NewOp(w), Nothing, "INUSE", ch)
  <2>1. Connection(NewOp(w), Nothing, "INUSE", ch)
    BY <1>2, <1>3, <1>4 DEF Connection, Unconnected
  <2>2. Asked(NewOp(w), Nothing, "INUSE", ch)
    BY <1>3, <1>4, <2>1 DEF Asked
  <2>3. QED
    BY <1>2, <1>3, <2>2 DEF Pending
<1>7. QED
  BY <1>4, <1>5, <1>6

\* Then Request keeps the course.
LEMMA RequestOnCourse ==
  ASSUME IInv, IInv', OnCourse, OneLoop, NEW o \in Ops, NEW w \in BOOLEAN, Request(o, w), ~reused'
  PROVE  OnCourse'
<1> DEFINE n == NewOp(w)
           x == [session EXCEPT !.ref = @ + 1]
           g == [handle EXCEPT !.outstanding = o]
           h == [g EXCEPT !.state = "INUSE"]
           c == handle.state \in (IF w THEN {"VALID", "TE_VALID"} ELSE {"VALID"})
           m == Must(Data, c)
           a == [m EXCEPT !.op[o] = n]
           b == [a EXCEPT !.session = x]
           d == [b EXCEPT !.handle = g]
           t == [d EXCEPT !.handle.state = "INUSE"]
<1>1. /\ handle.state = "VALID" /\ ~handle.freed /\ ~session.freed /\ ~session.destroyCb
      /\ channel # "closing" /\ due[o] = Nothing /\ Others(o)
      /\ \A q \in Ops \ {o} : ctl[q] # "idle" => q < o
  BY RequestFinds
<1>2. /\ ctl[o] = "idle" /\ ctl' = [ctl EXCEPT ![o] = "busy"] /\ object' = "inuse"
      /\ \A q \in 1..(o - 1) : ctl[q] = "ended"
  BY DEF Request, OneLoop
<1>3. handle \in Handles /\ session \in Sessions /\ session.ref \in Int /\ ctl \in [Ops -> CtlStates]
  BY DataIs DEF Sessions
<1>4. c
  BY <1>1
<1>5. Has(m, o, op[o], Nothing, handle, session, channel, broken)
  <2>1. Has(Data, o, op[o], Nothing, handle, session, channel, broken)
    BY <1>1, DataHas DEF IInv
  <2> HIDE DEF c
  <2>2. QED
    BY <1>4, <2>1, MustHas
<1>6. n \in Operations /\ n.live /\ Pending(n, Nothing, "INUSE", channel)
  BY <1>1, RequestedPending
<1>7. x \in Sessions /\ x.freed = session.freed /\ x.destroyCb = session.destroyCb
  <2>1. session.ref + 1 \in Int
    BY <1>3
  <2>2. QED
    BY <1>3, <2>1, SessionIs
<1>8. g \in Handles /\ g.outstanding = o /\ g.freed = handle.freed
  BY <1>3 DEF Handles
<1>9. h \in Handles /\ h.outstanding = o /\ h.freed = handle.freed /\ h.state = "INUSE"
  <2> HIDE DEF g
  <2>1. "INUSE" \in HandleStates
    BY DEF HandleStates
  <2>2. QED
    BY <1>8, <2>1, HandleIs
<1>10. Becomes(t)
  <2>1. m.session = session /\ m.handle = handle
    BY <1>5 DEF Has
  <2>2. t = [m EXCEPT !.op[o] = n, !.session.ref = @ + 1,
                      !.handle.outstanding = o, !.handle.state = "INUSE"]
    <3> HIDE DEF m, n
    <3> QED
      BY <2>1
  <2> HIDE DEF t, n
  <2>3. QED
    BY <2>2 DEF Request, m, n, c
<1>11. Has(t, o, n, Nothing, h, x, channel, broken)
  <2>1. Has(a, o, n, Nothing, handle, session, channel, broken)
    <3> HIDE DEF m, n
    <3> QED
      BY <1>5, <1>6, PutOp
  <2>2. Has(b, o, n, Nothing, handle, x, channel, broken)
    <3> HIDE DEF a, n, x
    <3> QED
      BY <1>7, <2>1, PutSession
  <2>3. Has(d, o, n, Nothing, g, x, channel, broken)
    <3> HIDE DEF b, n, x, g
    <3> QED
      BY <1>8, <2>2, PutHandle
  <2>4. "INUSE" \in HandleStates
    BY DEF HandleStates
  <2> HIDE DEF d, n, x, g
  <2>5. QED
    BY <2>3, <2>4, HandleHas
<1>12. ctl'[o] = "busy" /\ \A q \in Ops \ {o} : ctl'[q] = ctl[q]
  BY <1>2, <1>3
<1>13. InOrder'
  <2>1. ASSUME NEW q \in Ops, ctl'[q] # "idle"
        PROVE  \A r \in 1..(q - 1) : ctl'[r] = "ended"
    <3>1. q <= o
      BY <1>1, <1>12, <2>1
    <3>2. QED
      BY <1>2, <1>12, <3>1
  <2>2. QED
    BY <2>1 DEF InOrder
<1>14. Course(n, Nothing, "busy", h, x, channel, "inuse", Lost')
  <2>1. Fits(n, Tally(Nothing), "busy")
    <3>1. op'[o] = n /\ due'[o] = Nothing
      <4> HIDE DEF t, n, h, x
      <4> QED
        BY <1>10, <1>11 DEF Becomes, Has
    <3>2. Sound(op'[o], due'[o], ctl'[o])
      BY DEF IInv
    <3>3. QED
      BY <1>12, <3>1, <3>2 DEF Sound
  <2>2. "busy" \in CtlStates /\ Nothing \in [Kinds -> Nat]
    BY NothingIs DEF CtlStates
  <2> HIDE DEF n, h, x
  <2>3. QED
    BY <1>1, <1>6, <1>7, <1>9, <2>1, <2>2, PendingCourse
<1> HIDE DEF t, n, h, x
<1>15. Course(n, Nothing, ctl'[o], h, x, channel, object', Lost')
  BY <1>2, <1>12, <1>14
<1>16. QED
  BY <1>1, <1>9, <1>10, <1>11, <1>12, <1>13, <1>15, Onward

-----------------------------------------------------------------------------
(* The course is kept by every step, and says that the assertions hold.     *)

\* The first request finds everything in its place.
LEMMA InitOnCourse ==
  ASSUME Init
  PROVE  OnCourse
<1>1. /\ due = [o \in Ops |-> Nothing] /\ ctl = [o \in Ops |-> "idle"]
      /\ handle = [state |-> "VALID", outstanding |-> None, freed |-> FALSE]
      /\ session = [ref |-> 1, freed |-> FALSE, destroyCb |-> FALSE]
      /\ channel = "open" /\ broken = FALSE /\ object = "ready"
  BY DEF Init, Nothing
<1>2. Named = None /\ Named \notin Ops
  BY <1>1 DEF Named
<1>3. InOrder /\ Others(Named)
  BY <1>1 DEF InOrder, Others
<1>4. Released(Nothing, handle, session, channel, object) /\ Resting(handle.state, object, Lost)
  BY <1>1, NothingReleased DEF Resting
<1>5. QED
  BY <1>1, <1>2, <1>3, <1>4 DEF OnCourse

\* Every callback keeps the course.
LEMMA CallbackOnCourse ==
  ASSUME IInv, IInv', OnCourse, OneLoop, NEW o \in Ops, Callback(o)
  PROVE  OnCourse'
<1>1. CASE \E k \in {"abort", "abort_now"} : AbortKickout(o, k)
  BY <1>1, AbortKickoutOnCourse
<1>2. CASE \E k \in {"end", "end_now"} : EndTransfer(o, k)
  BY <1>2, EndTransferOnCourse
<1>3. CASE BeginLocked(o) \/ BeginAborted(o) \/ BeginCb(o) \/ BeginCbEnds(o)
  BY <1>3, BeginLockedOnCourse, BeginAbortedOnCourse, BeginCbOnCourse, BeginCbEndsOnCourse
<1>4. CASE WriteEofCb(o) \/ SendEofCb(o) \/ EndReadKickout(o)
  BY <1>4, WriteEofCbOnCourse, SendEofCbOnCourse, EndReadKickoutOnCourse
<1>5. CASE FinishFcCb(o) \/ AbortFcCb(o) \/ CompleteFcCb(o)
  BY <1>5, FinishFcCbOnCourse, AbortFcCbOnCourse, CompleteFcCbOnCourse
<1>6. CASE EndTransferEnds(o) \/ TrevKickout(o) \/ TrevKickoutEnds(o) \/ PostTransferEvent(o)
  BY <1>6, EndTransferEndsOnCourse, TrevKickoutOnCourse, TrevKickoutEndsOnCourse, PostTransferEventOnCourse
<1>7. QED
  BY <1>1, <1>2, <1>3, <1>4, <1>5, <1>6 DEF Callback

\* So does a step in which nothing happens.
LEMMA StuttersOnCourse ==
  ASSUME OnCourse, UNCHANGED vars
  PROVE  OnCourse'
<1>1. UNCHANGED <<op, handle, session, channel, due, broken, ctl, object>>
  BY DEF vars
<1>2. Named' = Named /\ Lost' = Lost /\ Nothing' = Nothing
  BY <1>1 DEF Named, Lost, Spoiled, Nothing
<1>3. ~broken' /\ InOrder' /\ Others(Named)'
  BY <1>1, <1>2 DEF OnCourse, InOrder, Others
<1>4. Named' \in Ops =>
        Course(op'[Named'], due'[Named'], ctl'[Named'], handle', session', channel', object', Lost')
  BY <1>1, <1>2 DEF OnCourse
<1>5. Named' = None => /\ Resting(handle'.state, object', Lost')
                       /\ Released(Nothing', handle', session', channel', object')
  BY <1>1, <1>2 DEF OnCourse
<1>6. QED
  BY <1>3, <1>4, <1>5 DEF OnCourse

\* Every step keeps it, but a request after a transfer that spoiled the channel.
LEMMA NextOnCourse ==
  ASSUME OneLoop, IInv, OnCourse, [Next]_vars, ~reused'
  PROVE  OnCourse'
<1>0. IInv'
  BY NextKeeps
<1>1. ASSUME NEW o \in Ops, NEW writes \in BOOLEAN, Request(o, writes)
      PROVE  OnCourse'
  BY <1>0, <1>1, RequestOnCourse
<1>2. ASSUME NEW o \in Ops, NEW good \in BOOLEAN, Finish(o, good)
      PROVE  OnCourse'
  BY <1>0, <1>2, FinishOnCourse
<1>3. ASSUME NEW o \in Ops, Begin(o) \/ Abort(o) \/ Marker(o) \/ Complete(o) \/ Callback(o)
      PROVE  OnCourse'
  BY <1>0, <1>3, BeginOnCourse, AbortOnCourse, MarkerOnCourse, CompleteOnCourse, CallbackOnCourse
<1>4. CASE DestroyHandle \/ SessionStop \/ LinkDown \/ DestroyCb
  BY <1>0, <1>4, DestroyHandleOnCourse, SessionStopOnCourse, LinkDownOnCourse, DestroyCbOnCourse
<1>5. CASE UNCHANGED vars
  BY <1>5, StuttersOnCourse
<1>6. QED
  BY <1>1, <1>2, <1>3, <1>4, <1>5 DEF Next

\* There is no way back from such a request.
LEMMA ReusedStays ==
  ASSUME reused, [Next]_vars
  PROVE  reused'
<1>1. ASSUME NEW o \in Ops, \E writes \in BOOLEAN : Request(o, writes)
      PROVE  reused'
  BY <1>1 DEF Request
<1>2. ASSUME NEW o \in Ops, Begin(o) \/ (\E good \in BOOLEAN : Finish(o, good)) \/ Abort(o) \/ Marker(o)
      PROVE  reused'
  BY <1>2 DEF Begin, Finish, Abort, Marker, half
<1>3. ASSUME NEW o \in Ops, Complete(o) \/ Callback(o)
      PROVE  reused'
  <2>1. CASE Complete(o)
    BY <2>1 DEF Complete
  <2>2. CASE BeginLocked(o) \/ BeginAborted(o) \/ BeginCb(o) \/ BeginCbEnds(o)
    BY <2>2 DEF BeginLocked, BeginAborted, BeginCb, BeginCbEnds, half
  <2>3. CASE WriteEofCb(o) \/ SendEofCb(o) \/ FinishFcCb(o) \/ AbortFcCb(o) \/ CompleteFcCb(o)
    BY <2>3 DEF WriteEofCb, SendEofCb, FinishFcCb, AbortFcCb, CompleteFcCb, half
  <2>4. CASE \E k \in {"abort", "abort_now"} : AbortKickout(o, k)
    BY <2>4 DEF AbortKickout, half
  <2>5. CASE EndReadKickout(o) \/ \E k \in {"end", "end_now"} : EndTransfer(o, k)
    BY <2>5 DEF EndReadKickout, EndTransfer, half
  <2>6. CASE EndTransferEnds(o) \/ TrevKickout(o) \/ TrevKickoutEnds(o) \/ PostTransferEvent(o)
    BY <2>6 DEF EndTransferEnds, TrevKickout, TrevKickoutEnds, PostTransferEvent, half
  <2>7. QED
    BY <1>3, <2>1, <2>2, <2>3, <2>4, <2>5, <2>6 DEF Callback
<1>4. CASE DestroyHandle \/ SessionStop \/ LinkDown \/ DestroyCb
  BY <1>4 DEF DestroyHandle, SessionStop, LinkDown, DestroyCb, half
<1>5. CASE UNCHANGED vars
  BY <1>5 DEF vars
<1>6. QED
  BY <1>1, <1>2, <1>3, <1>4, <1>5 DEF Next

\* The states of the operation, the handle, the channel and the data object go
\* together for as long as no such request comes.
LEMMA StaysOnCourse ==
  ASSUME OneLoop
  PROVE  Spec => [](reused \/ OnCourse)
<1>1. Init => reused \/ OnCourse
  BY InitOnCourse
<1>2. IInv /\ (reused \/ OnCourse) /\ [Next]_vars => (reused \/ OnCourse)'
  BY NextOnCourse, ReusedStays
<1>3. QED
  BY <1>1, <1>2, Inductive, PTL DEF Spec

\* What is on its way keeps what it will touch.
LEMMA KeptAlive ==
  ASSUME IInv, OnCourse, NEW o \in Ops, Busy(o)
  PROVE  op[o].live /\ ~session.freed /\ (op[o].hasHandle => ~handle.freed)
<1> DEFINE p == op[o]
           d == due[o]
<1>1. PICK k \in Kinds : d[k] > 0
  BY DEF Busy
<1>2. CASE k \notin {"end2", "post", "complete_fc"}
  BY <1>1, <1>2, FindsPending DEF PendingAt
<1>3. CASE k \in {"end2", "post", "complete_fc"}
  <2>1. /\ ctl[o] \in {"replied", "ended"}
        /\ Course(p, d, ctl[o], handle, session, channel, object, Lost)
        /\ p.ref = One(d["end2"] > 0) + One(ctl[o] = "replied" \/ d["complete_fc"] > 0)
                     + One(p.connectFailed)
        /\ p.ref > 0 => p.live /\ ~session.freed
    BY <1>1, <1>3, FindsAnswered
  <2>2. Released(d, handle, session, channel, object) /\ (d["post"] > 0 => p.live)
    BY <2>1 DEF Course
  <2>3. d["end2"] > 0 \/ d["complete_fc"] > 0 => p.ref > 0
    BY <2>1 DEF One
  <2>4. p.live /\ ~session.freed
    BY <1>1, <1>3, <2>1, <2>2, <2>3 DEF Released
  <2>5. p.hasHandle => ~handle.freed
    <3>1. CASE ctl[o] = "replied"
      BY <2>1, <2>2, <3>1 DEF Course, Answered, Released
    <3>2. CASE ctl[o] = "ended"
      <4>1. Ended(p, d, handle.state, object)
        BY <2>1, <3>2 DEF Course
      <4>2. QED
        BY <1>1, <1>3, <2>2, <4>1 DEF Ended, Released
    <3>3. QED
      BY <2>1, <3>1, <3>2
  <2>6. QED
    BY <2>4, <2>5
<1>4. QED
  BY <1>2, <1>3

\* So does the close of the channel that the destruction of the handle asked for.
LEMMA CloseKeptAlive ==
  ASSUME IInv, OnCourse, session.destroyCb
  PROVE  ~session.freed /\ ~handle.freed
<1>1. session.ref > 0 /\ session.ref \in Nat /\ handle.outstanding \in Ops \cup {None}
  BY SessionHeld, DataIs DEF Handles
<1>2. \E d : Released(d, handle, session, channel, object)
  <2>1. CASE Named = None
    BY <2>1 DEF OnCourse
  <2>2. CASE Named \in Ops
    BY <2>2 DEF OnCourse, Course
  <2>3. QED
    BY <1>1, <2>1, <2>2 DEF Named
<1>3. QED
  BY <1>1, <1>2 DEF Released

\* A handle in use is that of the operation that is not answered.
LEMMA InUseNames ==
  ASSUME IInv, OnCourse, handle.state = "INUSE"
  PROVE  /\ handle.outstanding # None
         /\ op[handle.outstanding].live /\ op[handle.outstanding].replies = 0
<1>1. handle.outstanding \in Ops \cup {None}
  BY DataIs DEF Handles
<1>2. Named \in Ops
  BY <1>1 DEF OnCourse, Resting, Named
<1>3. PICK o \in Ops : o = Named
  BY <1>2
<1> DEFINE d == due[o]
<1>4. Course(op[o], d, ctl[o], handle, session, channel, object, Lost)
  BY <1>3 DEF OnCourse
<1>5. op[o] \in Operations /\ d \in [Kinds -> Nat] /\ ctl[o] \in CtlStates /\ Fits(op[o], Tally(d), ctl[o])
  BY Fitting
<1>6. ctl[o] # "replied"
  BY <1>4 DEF Course, Answered
<1>7. ctl[o] # "ended"
  <2>1. SUFFICES ASSUME ctl[o] = "ended"
                 PROVE  FALSE
    OBVIOUS
  <2>2. Ended(op[o], d, handle.state, object) /\ (Only(d, {}) => Resting(handle.state, object, Lost))
    BY <1>4, <2>1 DEF Course
  <2>3. ~(d["end2"] > 0) /\ ~(d["post"] > 0) /\ ~(d["complete_fc"] > 0)
    BY <2>2 DEF Ended
  <2>4. d["end2"] = 0 /\ d["post"] = 0 /\ d["complete_fc"] = 0
    BY <1>5, <2>3, Counts
  <2>5. Only(d, {})
    BY <2>2, <2>4 DEF Ended, Only
  <2>6. QED
    BY <2>2, <2>5 DEF Resting
<1>8. ctl[o] \in {"busy", "aborted"}
  BY <1>4, <1>5, <1>6, <1>7 DEF Course, CtlStates
<1>9. op[o].live /\ op[o].replies = 0
  BY <1>5, <1>8, IsPending, AskedReferences DEF PendingAt
<1>10. QED
  BY <1>2, <1>3, <1>9 DEF Named

\* In the event loop no switch of globus_i_gfs_data.c meets a state it calls
\* impossible, no pointer to what is gone is followed, and nothing is freed
\* twice, unless the client asks for a transfer after one that the storage
\* module ended with an error before its channel was connected: whatever else
\* fails, and in whatever order requests, aborts and callbacks come, this is
\* the only way to an assertion that fails.
THEOREM AssertionsHold ==
  ASSUME ~Threads
  PROVE  Spec => []NoAssertionFails
<1>1. reused \/ OnCourse => NoAssertionFails
  BY DEF OnCourse, NoAssertionFails, AssertionsAreRight
<1>2. Spec => [](reused \/ OnCourse)
  BY StaysOnCourse DEF OneLoop
<1>3. QED
  BY <1>1, <1>2, PTL

\* There, with the same exception, every callback finds its operation, the
\* handle and the session, and a handle in use names an operation that has not
\* been answered.
THEOREM CallbacksFindTheirOperation ==
  ASSUME ~Threads
  PROVE  Spec => [](PendingIsLive \/ reused)
<1>1. IInv /\ OnCourse => PendingIsLive
  BY KeptAlive, CloseKeptAlive, InUseNames DEF PendingIsLive
<1>2. Spec => [](reused \/ OnCourse)
  BY StaysOnCourse DEF OneLoop
<1>3. QED
  BY <1>1, <1>2, Inductive, PTL
=============================================================================
