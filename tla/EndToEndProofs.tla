--------------------------- MODULE EndToEndProofs ---------------------------
(***************************************************************************)
(* For any number of workers, blocks and messages on a connection, and     *)
(* with every fault the model has: some worker of the destination stands   *)
(* before every block that is not written, the completion message stays,   *)
(* and it is written only over a complete copy.                            *)
(*                                                                         *)
(* The argument: every block that was handed out is on its way - with a    *)
(* worker of the source, on a connection, or with a worker of the          *)
(* destination - or stuck, and everything its connection delivers before   *)
(* it is a lower block (Under).  End of file is the last message of a      *)
(* connection, and its worker on the source has nothing more to do         *)
(* (Endings); when every connection has delivered it, nothing is on its    *)
(* way any more, and every block was handed out (GaveUp, Through).         *)
(***************************************************************************)
EXTENDS EndToEnd, TLAPS

HasEof(w) == \E i \in 1..Len(chan[w]) : chan[w][i] = Eof
Ending(w) == sTask[w] = "eof" \/ HasEof(w) \/ dEof[w]

Places ==
  /\ mPc = "sleep" => mAt = 1
  /\ mPc = "walk" => mAt < QueueDepth
  /\ successful => mPc = "sleep" /\ dPc = "done" /\ ~dAbort
  /\ \A w \in Workers : dTask[w] = "write" => dOff[w] \in Blocks

\* Nothing is handed out ahead of its turn.
Bounded == \A w \in Workers :
  /\ dOff[w] <= sNext /\ sBlock[w] <= sNext
  /\ \A i \in 1..Len(chan[w]) : chan[w][i] <= sNext

\* End of file comes once, last, and for good.
Endings == \A w \in Workers :
  /\ Ending(w) => sPc # "loop" /\ (sPc = "eof" => w < sq)
  /\ HasEof(w) \/ dEof[w] => sTask[w] = "idle"
  /\ \A i \in 1..Len(chan[w]) : chan[w][i] = Eof => i = Len(chan[w])
  /\ dEof[w] => chan[w] = <<>> /\ dTask[w] = "idle"

\* The source stops handing out blocks when there are none left, at an abort, or
\* at its time limit; then one connection never delivers an end of file.
GaveUp ==
  /\ sPc \in {"eof", "drain", "done"} \/ (\E w \in Workers : Ending(w))
       => sNext = NumBlocks \/ sAbort \/ limited
  /\ limited => \E v \in Workers : /\ ~dEof[v] /\ ~HasEof(v)
                                   /\ sTask[v] = "claimed" \/ sPc = "dead"
  /\ sPc = "dead" => \A w \in Workers : sTask[w] = "idle"

\* The destination leaves its loop without an error only after every end of file.
Through ==
  dPc \in {"drain", "close", "done"} /\ ~dAbort
    => ~canceled /\ \A w \in Workers : dEof[w] /\ dTask[w] = "idle"

\* Worker w and the first n messages to it are at lower blocks, or at b.
Before(w, b, n) == dOff[w] <= b /\ \A i \in 1..n : chan[w][i] <= b

OnItsWay(w, b) ==
  \/ sTask[w] \in {"read", "send"} /\ sBlock[w] = b /\ Before(w, b, Len(chan[w]))
  \/ \E i \in 1..Len(chan[w]) : chan[w][i] = b /\ Before(w, b, i)
  \/ dTask[w] = "write" /\ dOff[w] = b

\* Skipped by the source, lost with its connection, or skipped by the destination.
Stuck(w, b) ==
  \/ Before(w, b, Len(chan[w])) /\ sAbort /\ sTask[w] \notin {"read", "send"}
  \/ /\ Before(w, b, Len(chan[w])) /\ (~up[w] \/ sPc = "dead")
     /\ ~dEof[w] /\ ~HasEof(w)
  \/ dOff[w] <= b /\ dTask[w] = "idle" /\ (canceled \/ dAbort)

Under == \A b \in Blocks :
  start <= b /\ b < sNext /\ b \notin written \cup lost
    => \E w \in Workers : OnItsWay(w, b) \/ Stuck(w, b)

IInv == TypeOK /\ Places /\ Bounded /\ Endings /\ GaveUp /\ Through /\ Under

\* What the proofs use of the constants.
LEMMA Constants ==
  QueueDepth \in Nat \ {0} /\ NumBlocks \in Nat \ {0} /\ ChanCap \in Nat \ {0}
BY E2EAssumption DEF E2EAssumption

\* What a send and a receive do to a connection.
LEMMA Sent ==
  ASSUME NEW c \in Seq(Offsets), NEW msg \in Offsets
  PROVE  /\ Append(c, msg) \in Seq(Offsets) /\ Len(Append(c, msg)) = Len(c) + 1
         /\ \A i \in 1..Len(c) : Append(c, msg)[i] = c[i]
         /\ Append(c, msg)[Len(c) + 1] = msg
         /\ Len(c) \in Nat
OBVIOUS

\* A connection holds offsets.
LEMMA Messages ==
  ASSUME NEW c \in Seq(Offsets)
  PROVE  Len(c) \in Nat /\ \A i \in 1..Len(c) : c[i] \in Offsets
OBVIOUS

\* What a receive leaves of a connection.
LEMMA Received ==
  ASSUME NEW c \in Seq(Offsets), c # <<>>
  PROVE  /\ Tail(c) \in Seq(Offsets) /\ Len(c) \in Nat \ {0} /\ Len(Tail(c)) = Len(c) - 1
         /\ \A i \in 1..Len(c) - 1 : Tail(c)[i] = c[i + 1]
         /\ Head(c) = c[1] /\ c[1] \in Offsets
         /\ Len(c) = 1 => Tail(c) = <<>>
<1>1. /\ Tail(c) \in Seq(Offsets) /\ Len(c) \in Nat \ {0} /\ Len(Tail(c)) = Len(c) - 1
      /\ \A i \in 1..Len(c) - 1 : Tail(c)[i] = c[i + 1]
      /\ Head(c) = c[1] /\ c[1] \in Offsets
  OBVIOUS
<1>2. \A d \in Seq(Offsets) : Len(d) = 0 => d = <<>> OBVIOUS
<1> QED BY <1>1, <1>2

\* Initially no block has been handed out.
LEMMA InitIInv == Init => IInv
<1> SUFFICES ASSUME Init PROVE IInv OBVIOUS
<1> USE Constants DEF Init
<1>1. TypeOK
  <2>1. 1 \in Workers /\ 0 \in Blocks /\ 0 \in Offsets /\ Blocks \subseteq 0..NumBlocks
    BY DEF Workers, Blocks, Offsets
  <2>2. <<>> \in Seq(Offsets) OBVIOUS
  <2>3. /\ sTask \in [Workers -> {"idle", "claimed", "read", "send", "eof"}]
        /\ sBlock \in [Workers -> Blocks] /\ chan \in [Workers -> Seq(Offsets)]
        /\ up \in [Workers -> BOOLEAN] /\ dTask \in [Workers -> {"idle", "recv", "write"}]
        /\ dOff \in [Workers -> Offsets] /\ dEof \in [Workers -> BOOLEAN]
    BY <2>1, <2>2
  <2> QED BY <2>1, <2>3 DEF TypeOK
<1>2. Places /\ Through BY DEF Places, Through
<1>3. Bounded BY DEF Bounded, Blocks
<1>4. Endings /\ GaveUp BY DEF Endings, GaveUp, Ending, HasEof
<1>5. Under BY DEF Under, Blocks
<1> QED BY <1>1, <1>2, <1>3, <1>4, <1>5 DEF IInv

\* Every step keeps the types and the places a worker may be at.
LEMMA TypeStep == TypeOK /\ Places /\ Through /\ [Next]_vars => TypeOK' /\ Places'
<1> SUFFICES ASSUME TypeOK, Places, Through, [Next]_vars PROVE TypeOK' /\ Places' OBVIOUS
<1> USE Constants DEF TypeOK, Places, src, net, dst, mon, setup
<1>0. /\ Blocks \subseteq Offsets /\ Eof \in Offsets /\ Unknown \in Offsets
      /\ \A b \in Offsets : b # Eof => b \in Blocks
  BY DEF Offsets, Eof, Unknown
<1>1. ASSUME NEW w \in Workers, SIssue(w) \/ SLimit(w) PROVE TypeOK' /\ Places'
  <2>1. CASE SIssue(w)
    <3>1. sNext \in Blocks /\ sNext + 1 \in 0..NumBlocks
      BY <2>1 DEF SIssue, BlocksLeft, Blocks
    <3> QED BY <2>1, <3>1 DEF SIssue
  <2>2. CASE SLimit(w) BY <2>2 DEF SLimit
  <2> QED BY <1>1, <2>1, <2>2
<1>2. CASE SLeave BY <1>2 DEF SLeave
<1>3. CASE SEof \/ SDrain
  <2>1. sq # QueueDepth => sq + 1 \in Workers BY DEF Workers
  <2>2. 1 \in Workers BY DEF Workers
  <2>3. CASE SEof
    <3>1. sq' \in Workers /\ sPc' \in {"eof", "drain"} BY <2>1, <2>2, <2>3 DEF SEof
    <3>2. sTask' \in [Workers -> {"idle", "claimed", "read", "send", "eof"}]
      BY <2>3 DEF SEof
    <3> QED BY <2>3, <3>1, <3>2 DEF SEof
  <2>4. CASE SDrain BY <2>1, <2>4 DEF SDrain
  <2> QED BY <1>3, <2>3, <2>4
<1>4. ASSUME NEW w \in Workers, SRead(w) PROVE TypeOK' /\ Places'
  <2>1. sTask' \in [Workers -> {"idle", "claimed", "read", "send", "eof"}]
    BY <1>4 DEF SRead
  <2>2. lost' \subseteq Blocks /\ sAbort' \in BOOLEAN BY <1>4 DEF SRead
  <2> QED BY <1>4, <2>1, <2>2 DEF SRead
<1>5. ASSUME NEW w \in Workers, SSend(w) PROVE TypeOK' /\ Places'
  <2>1. (IF sTask[w] = "eof" THEN Eof ELSE sBlock[w]) \in Offsets BY <1>0
  <2>2. chan' \in [Workers -> Seq(Offsets)] BY <1>5, <2>1, Sent DEF SSend
  <2> QED BY <1>5, <2>2 DEF SSend
<1>6. ASSUME NEW w \in Workers, SSendFails(w) PROVE TypeOK' /\ Places'
  <2>1. sTask' \in [Workers -> {"idle", "claimed", "read", "send", "eof"}]
    BY <1>6 DEF SSendFails
  <2>2. sPc' \in {"loop", "eof", "drain", "done", "dead"} BY <1>6 DEF SSendFails
  <2> QED BY <1>6, <2>1, <2>2 DEF SSendFails
<1>7. ASSUME NEW w \in Workers, LinkBreaks(w) PROVE TypeOK' /\ Places'
  <2>1. chan' \in [Workers -> Seq(Offsets)] BY <1>7 DEF LinkBreaks
  <2> QED BY <1>7, <2>1 DEF LinkBreaks
<1>8. CASE SDies BY <1>8 DEF SDies
<1>9. CASE SExit BY <1>9 DEF SExit
<1>10. CASE DExit
  <2>1. chan' \in [Workers -> Seq(Offsets)] BY <1>10 DEF DExit
  <2> QED BY <1>10, <2>1 DEF DExit
<1>11. ASSUME NEW w \in Workers, DIssue(w) PROVE TypeOK' /\ Places' BY <1>0, <1>11 DEF DIssue
<1>12. CASE DLeave BY <1>12 DEF DLeave
<1>13. CASE DDrain
  <2>1. dq # QueueDepth => dq + 1 \in Workers BY DEF Workers
  <2> QED BY <1>13, <2>1 DEF DDrain
<1>14. CASE DClose BY <1>14 DEF DClose, LockIsFree
<1>15. ASSUME NEW w \in Workers, DRecvBlock(w) PROVE TypeOK' /\ Places'
  <2>1. /\ Head(chan[w]) \in Blocks /\ Head(chan[w]) \in Offsets
        /\ Tail(chan[w]) \in Seq(Offsets)
    BY <1>0, <1>15, Received DEF DRecvBlock
  <2> QED BY <1>15, <2>1 DEF DRecvBlock, HeaderOffset
<1>16. ASSUME NEW w \in Workers, DRecvEof(w) PROVE TypeOK' /\ Places'
  <2>1. Tail(chan[w]) \in Seq(Offsets) BY <1>16, Received DEF DRecvEof
  <2> QED BY <1>16, <2>1 DEF DRecvEof
<1>17. ASSUME NEW w \in Workers, DRecvFails(w) PROVE TypeOK' /\ Places'
  BY <1>17 DEF DRecvFails, CancelsRun
<1>18. ASSUME NEW w \in Workers, DWrite(w) PROVE TypeOK' /\ Places'
  BY <1>18 DEF DWrite, Through
<1>19. CASE Monitor
  <2>1. mAt < QueueDepth => mAt + 1 \in Workers BY DEF Workers
  <2>2. 1 \in Workers /\ (QueueDepth # 1 => 1 < QueueDepth) BY DEF Workers
  <2>3. dOff[mLow] > start => dOff[mLow] \in Blocks BY <1>0 DEF Eof, Blocks
  <2>4. mAt + 1 # QueueDepth /\ mAt < QueueDepth => mAt + 1 < QueueDepth BY DEF Workers
  <2>5. CASE MWake BY <2>2, <2>5 DEF MWake
  <2>6. CASE MWalk BY <2>1, <2>4, <2>6 DEF MWalk
  <2>7. CASE MPick BY <2>2, <2>3, <2>7 DEF MPick, RestartOffset
  <2> QED BY <1>19, <2>5, <2>6, <2>7 DEF Monitor
<1>20. CASE UNCHANGED vars \/ Over BY <1>20 DEF vars, Over
<1> QED BY <1>1, <1>2, <1>3, <1>4, <1>5, <1>6, <1>7, <1>8, <1>9, <1>10, <1>11, <1>12, <1>13,
           <1>14, <1>15, <1>16, <1>17, <1>18, <1>19, <1>20
        DEF Next, Source, Destination, SWork, DWork

\* Blocks are handed out in order.
LEMMA BoundedStep == TypeOK /\ Places /\ Bounded /\ [Next]_vars => Bounded'
<1> SUFFICES ASSUME TypeOK, Places, Bounded, [Next]_vars PROVE Bounded' OBVIOUS
<1> USE Constants DEF TypeOK, src, net, dst, mon, setup
<1>0. Offsets \subseteq Int /\ Blocks \subseteq Int /\ sNext \in Nat
  BY DEF Offsets, Blocks, Eof
<1>1. CASE /\ UNCHANGED <<chan, dOff>> /\ sNext <= sNext' /\ sNext' \in Nat
           /\ \A w \in Workers : sBlock'[w] = sBlock[w] \/ sBlock'[w] <= sNext'
  <2> SUFFICES ASSUME NEW w \in Workers
               PROVE  /\ dOff[w] <= sNext' /\ sBlock'[w] <= sNext'
                      /\ \A i \in 1..Len(chan[w]) : chan[w][i] <= sNext'
    BY <1>1 DEF Bounded
  <2>1. dOff[w] \in Int /\ sBlock[w] \in Int BY <1>0
  <2>2. \A i \in 1..Len(chan[w]) : chan[w][i] \in Int
    <3>1. chan[w] \in Seq(Offsets) OBVIOUS
    <3> QED BY <1>0, <3>1, Messages
  <2> QED BY <1>0, <1>1, <2>1, <2>2 DEF Bounded
<1>2. ASSUME NEW w \in Workers, SIssue(w) PROVE Bounded'
  <2>1. \A v \in Workers : sBlock'[v] = sBlock[v] \/ sBlock'[v] = sNext BY <1>2 DEF SIssue
  <2> QED BY <1>0, <1>1, <1>2, <2>1 DEF SIssue
<1>3. ASSUME NEW w \in Workers, SLimit(w) \/ SRead(w) \/ SSendFails(w) PROVE Bounded'
  BY <1>0, <1>1, <1>3 DEF SLimit, SRead, SSendFails
<1>4. ASSUME NEW w \in Workers, SSend(w) PROVE Bounded'
  <2> DEFINE msg == IF sTask[w] = "eof" THEN Eof ELSE sBlock[w]
  <2>1. msg \in Offsets /\ msg <= sNext BY <1>0 DEF Offsets, Bounded, Eof
  <2>2. chan'[w] = Append(chan[w], msg) /\ \A v \in Workers : v # w => chan'[v] = chan[v]
    BY <1>4 DEF SSend
  <2>3. \A i \in 1..Len(chan'[w]) : chan'[w][i] <= sNext BY <2>1, <2>2, Sent DEF Bounded
  <2> QED BY <1>4, <2>2, <2>3 DEF SSend, Bounded
<1>5. CASE SLeave \/ SEof \/ SDrain \/ SDies \/ SExit
  BY <1>0, <1>1, <1>5 DEF SLeave, SEof, SDrain, SDies, SExit
<1>6. CASE DLeave \/ DDrain \/ DClose \/ Monitor \/ UNCHANGED vars \/ Over
  BY <1>0, <1>1, <1>6 DEF DLeave, DDrain, DClose, Monitor, MWake, MWalk, MPick, vars, Over
<1>7. ASSUME NEW w \in Workers, LinkBreaks(w) PROVE Bounded'
  BY <1>7 DEF LinkBreaks, Bounded
<1>8. CASE DExit BY <1>8 DEF DExit, Bounded
<1>9. ASSUME NEW w \in Workers, DIssue(w) PROVE Bounded'
  BY <1>0, <1>9 DEF DIssue, Bounded, Unknown
<1>10. ASSUME NEW w \in Workers, DRecvBlock(w) \/ DRecvEof(w) PROVE Bounded'
  <2>1. /\ chan[w] # <<>> /\ chan'[w] = Tail(chan[w])
        /\ \A v \in Workers : v # w => chan'[v] = chan[v]
        /\ UNCHANGED <<sNext, sBlock>>
    BY <1>10 DEF DRecvBlock, DRecvEof
  <2>2. chan[w] \in Seq(Offsets) OBVIOUS
  <2>3. chan[w][1] <= sNext /\ \A i \in 1..Len(chan'[w]) : chan'[w][i] <= sNext
    <3>1. \A i \in 1..Len(chan[w]) : chan[w][i] <= sNext BY DEF Bounded
    <3>2. 1 \in 1..Len(chan[w]) BY <2>1, <2>2, Received
    <3>3. Len(chan'[w]) = Len(chan[w]) - 1 /\ Len(chan[w]) \in Nat BY <2>1, <2>2, Received
    <3>4. \A i \in 1..Len(chan'[w]) : chan'[w][i] = chan[w][i + 1] /\ i + 1 \in 1..Len(chan[w])
      BY <2>1, <2>2, <3>3, Received
    <3> QED BY <3>1, <3>2, <3>4
  <2>4. \A v \in Workers : dOff'[v] = dOff[v] \/ (v = w /\ dOff'[v] = chan[w][1])
    <3>1. Head(chan[w]) = chan[w][1] BY <2>1, <2>2, Received
    <3> QED BY <1>10, <3>1 DEF DRecvBlock, DRecvEof, HeaderOffset
  <2> QED BY <2>1, <2>3, <2>4 DEF Bounded
<1>11. ASSUME NEW w \in Workers, DRecvFails(w) \/ DWrite(w) PROVE Bounded'
  BY <1>0, <1>1, <1>11 DEF DRecvFails, DWrite
<1> QED BY <1>2, <1>3, <1>4, <1>5, <1>6, <1>7, <1>8, <1>9, <1>10, <1>11
        DEF Next, Source, Destination, SWork, DWork

\* Endings and GaveUp, when the source's tasks, the messages and the ends of file
\* received are left alone.
LEMMA SameEndings ==
  ASSUME UNCHANGED <<sTask, chan, dEof>>
  PROVE  \A w \in Workers : /\ HasEof(w)' <=> HasEof(w)
                            /\ Ending(w)' <=> Ending(w)
BY DEF HasEof, Ending

\* The end of file is the last message of its connection.
LEMMA EndingsStep == TypeOK /\ Endings /\ GaveUp /\ [Next]_vars => Endings'
<1> SUFFICES ASSUME TypeOK, Endings, GaveUp, [Next]_vars PROVE Endings' OBVIOUS
<1> USE Constants DEF TypeOK, src, net, dst, mon, setup
<1>1. ASSUME NEW w \in Workers, SIssue(w) \/ SLimit(w) PROVE Endings'
  <2>1. \A v \in Workers : ~Ending(v) BY <1>1 DEF Endings, SIssue, SLimit
  <2>2. UNCHANGED <<chan, dEof>> BY <1>1 DEF SIssue, SLimit
  <2>3. \A v \in Workers : ~HasEof(v)' /\ ~dEof'[v] /\ sTask'[v] # "eof"
    BY <1>1, <2>1, <2>2 DEF SIssue, SLimit, Ending, HasEof
  <2> QED BY <2>2, <2>3 DEF Endings, Ending, HasEof
<1>2. CASE SLeave
  <2>1. UNCHANGED <<sTask, chan, dEof, dTask>> /\ sPc = "loop" BY <1>2 DEF SLeave
  <2> QED BY <2>1, SameEndings DEF Endings
<1>3. CASE SEof
  <2>1. UNCHANGED <<chan, dEof, dTask>> /\ sPc = "eof" /\ ~Ending(sq)
    BY <1>3 DEF SEof, Endings, Workers
  <2>2. \A v \in Workers : v # sq => sTask'[v] = sTask[v] BY <1>3 DEF SEof
  <2>3. \A v \in Workers : HasEof(v)' <=> HasEof(v) BY <2>1 DEF HasEof
  <2>4. sPc' # "loop" /\ (sPc' = "eof" => sq' = sq + 1) BY <1>3 DEF SEof
  <2>5. ASSUME NEW v \in Workers, Ending(v)' PROVE sPc' = "eof" => v < sq'
    <3>1. v = sq \/ v < sq BY <2>1, <2>2, <2>3, <2>5 DEF Ending, Endings
    <3> QED BY <2>4, <3>1 DEF Workers
  <2>6. ASSUME NEW v \in Workers, HasEof(v)' \/ dEof'[v] PROVE sTask'[v] = "idle"
    BY <2>1, <2>2, <2>3, <2>6 DEF Ending, Endings
  <2> QED BY <2>1, <2>4, <2>5, <2>6 DEF Endings
<1>4. CASE SDrain
  <2>1. UNCHANGED <<sTask, chan, dEof, dTask>> /\ sPc' \notin {"loop", "eof"}
    BY <1>4 DEF SDrain
  <2> QED BY <2>1, SameEndings DEF Endings
<1>5. ASSUME NEW w \in Workers, SRead(w) PROVE Endings'
  <2>1. /\ UNCHANGED <<chan, dEof, dTask, sPc, sq>> /\ sTask[w] = "read"
        /\ sTask'[w] \in {"idle", "send"}
        /\ \A v \in Workers : v # w => sTask'[v] = sTask[v]
    BY <1>5 DEF SRead
  <2>2. \A v \in Workers : HasEof(v)' <=> HasEof(v) BY <2>1 DEF HasEof
  <2>3. \A v \in Workers : Ending(v)' => Ending(v) BY <2>1, <2>2 DEF Ending
  <2> QED BY <2>1, <2>2, <2>3 DEF Endings
<1>6. ASSUME NEW w \in Workers, SSend(w) PROVE Endings'
  <2> DEFINE msg == IF sTask[w] = "eof" THEN Eof ELSE sBlock[w]
  <2>1. /\ UNCHANGED <<dEof, dTask, sPc, sq>> /\ sTask[w] # "idle" /\ sTask'[w] = "idle"
        /\ chan'[w] = Append(chan[w], msg)
        /\ \A v \in Workers : v # w => sTask'[v] = sTask[v] /\ chan'[v] = chan[v]
    BY <1>6 DEF SSend
  <2>2. msg \in Offsets /\ (msg = Eof => sTask[w] = "eof") BY DEF Offsets, Eof, Blocks
  <2>3. ~HasEof(w) /\ ~dEof[w] BY <2>1 DEF Endings
  <2>4. /\ \A i \in 1..Len(chan'[w]) : chan'[w][i] = Eof => i = Len(chan'[w])
        /\ HasEof(w)' => sTask[w] = "eof"
    BY <2>1, <2>2, <2>3, Sent DEF HasEof
  <2>5. \A v \in Workers : v # w => (HasEof(v)' <=> HasEof(v)) BY <2>1 DEF HasEof
  <2>6. \A v \in Workers : Ending(v)' => Ending(v) BY <2>1, <2>3, <2>4, <2>5 DEF Ending
  <2>7. ASSUME NEW v \in Workers, HasEof(v)' \/ dEof'[v] PROVE sTask'[v] = "idle"
    BY <2>1, <2>5, <2>7 DEF Endings
  <2>8. \A v \in Workers : dEof'[v] => chan'[v] = <<>> /\ dTask'[v] = "idle"
    BY <2>1, <2>3 DEF Endings
  <2>9. ASSUME NEW v \in Workers
        PROVE  \A i \in 1..Len(chan'[v]) : chan'[v][i] = Eof => i = Len(chan'[v])
    <3>1. CASE v = w BY <2>4, <3>1
    <3>2. CASE v # w
      <4>1. chan'[v] = chan[v] BY <2>1, <3>2
      <4> QED BY <4>1 DEF Endings
    <3> QED BY <3>1, <3>2
  <2>10. \A v \in Workers : Ending(v)' => sPc' # "loop" /\ (sPc' = "eof" => v < sq')
    BY <2>1, <2>6 DEF Endings
  <2> QED BY <2>7, <2>8, <2>9, <2>10 DEF Endings
<1>7. ASSUME NEW w \in Workers, SSendFails(w) \/ SDies PROVE Endings'
  <2>1. /\ UNCHANGED <<chan, dEof, dTask, sq>> /\ sPc' \in {sPc, "dead"}
        /\ \A v \in Workers : sTask'[v] \in {sTask[v], "idle"}
    BY <1>7 DEF SSendFails, SDies
  <2>2. \A v \in Workers : HasEof(v)' <=> HasEof(v) BY <2>1 DEF HasEof
  <2>3. \A v \in Workers : Ending(v)' => Ending(v) BY <2>1, <2>2 DEF Ending
  <2> QED BY <2>1, <2>2, <2>3 DEF Endings
<1>8. ASSUME NEW w \in Workers, LinkBreaks(w) \/ DExit PROVE Endings'
  <2>1. /\ UNCHANGED <<sTask, dEof, dTask, sPc, sq>>
        /\ \A v \in Workers : chan'[v] = chan[v] \/ chan'[v] = <<>>
    BY <1>8 DEF LinkBreaks, DExit
  <2>2. \A v \in Workers : HasEof(v)' => HasEof(v) BY <2>1 DEF HasEof
  <2>3. \A v \in Workers : Ending(v)' => Ending(v) BY <2>1, <2>2 DEF Ending
  <2> QED BY <2>1, <2>2, <2>3 DEF Endings
<1>9. ASSUME NEW w \in Workers, DRecvBlock(w) \/ DRecvEof(w) PROVE Endings'
  <2>1. /\ UNCHANGED <<sTask, sPc, sq>> /\ chan[w] # <<>> /\ chan'[w] = Tail(chan[w])
        /\ \A v \in Workers : v # w => /\ dEof'[v] = dEof[v] /\ chan'[v] = chan[v]
                                       /\ dTask'[v] = dTask[v]
    BY <1>9 DEF DRecvBlock, DRecvEof
  <2>2. \A i \in 1..Len(chan'[w]) : chan'[w][i] = Eof => i = Len(chan'[w])
    BY <2>1, Received DEF Endings
  <2>3. ASSUME NEW v \in Workers, HasEof(v)' PROVE HasEof(v)
    <3>1. CASE v = w
      <4>1. chan[w] \in Seq(Offsets) OBVIOUS
      <4>2. PICK i \in 1..Len(chan'[w]) : chan'[w][i] = Eof BY <2>3, <3>1 DEF HasEof
      <4>3. i + 1 \in 1..Len(chan[w]) /\ chan[w][i + 1] = Eof
        BY <2>1, <4>1, <4>2, Received
      <4> QED BY <3>1, <4>3 DEF HasEof
    <3>2. CASE v # w BY <2>1, <2>3, <3>2 DEF HasEof
    <3> QED BY <3>1, <3>2
  <2>4. ~dEof[w] BY <2>1 DEF Endings
  <2>5. dEof'[w] => HasEof(w) /\ chan'[w] = <<>> /\ dTask'[w] = "idle"
    <3>1. CASE DRecvBlock(w) BY <2>4, <3>1 DEF DRecvBlock
    <3>2. CASE DRecvEof(w)
      <4>1. chan[w][1] = Eof /\ 1 \in 1..Len(chan[w]) BY <2>1, <3>2, Received DEF DRecvEof
      <4>2. Len(chan[w]) = 1 BY <4>1 DEF Endings
      <4>3. Tail(chan[w]) = <<>>
        <5>1. chan[w] \in Seq(Offsets) OBVIOUS
        <5> QED BY <2>1, <4>2, <5>1, Received
      <4> QED BY <2>1, <3>2, <4>1, <4>3 DEF DRecvEof, HasEof
    <3> QED BY <1>9, <3>1, <3>2
  <2>6. \A v \in Workers : dEof'[v] => HasEof(v) \/ dEof[v] BY <2>1, <2>5
  <2>7. \A v \in Workers : Ending(v)' => Ending(v) BY <2>1, <2>3, <2>6 DEF Ending
  <2>8. \A v \in Workers : dEof'[v] => chan'[v] = <<>> /\ dTask'[v] = "idle"
    BY <2>1, <2>5 DEF Endings
  <2>9. ASSUME NEW v \in Workers
        PROVE  \A i \in 1..Len(chan'[v]) : chan'[v][i] = Eof => i = Len(chan'[v])
    <3>1. CASE v = w BY <2>2, <3>1
    <3>2. CASE v # w
      <4>1. chan'[v] = chan[v] BY <2>1, <3>2
      <4> QED BY <4>1 DEF Endings
    <3> QED BY <3>1, <3>2
  <2> QED BY <2>1, <2>3, <2>6, <2>7, <2>8, <2>9 DEF Endings
<1>10. ASSUME NEW w \in Workers, DIssue(w) \/ DRecvFails(w) \/ DWrite(w) PROVE Endings'
  <2>1. /\ UNCHANGED <<sTask, chan, dEof, sPc, sq>>
        /\ \A v \in Workers : dTask'[v] \in {dTask[v], "idle"} \/ ~dEof[v]
    BY <1>10 DEF DIssue, DRecvFails, DWrite
  <2> QED BY <2>1, SameEndings DEF Endings
<1>11. CASE SExit \/ DLeave \/ DDrain \/ DClose \/ Monitor \/ UNCHANGED vars \/ Over
  <2>1. UNCHANGED <<sTask, chan, dEof, dTask, sPc, sq>>
    BY <1>11 DEF SExit, DLeave, DDrain, DClose, Monitor, MWake, MWalk, MPick, vars, Over
  <2> QED BY <2>1, SameEndings DEF Endings
<1>12. 1 \in Workers BY DEF Workers
<1> QED BY <1>1, <1>2, <1>3, <1>4, <1>5, <1>6, <1>7, <1>8, <1>9, <1>10, <1>11, <1>12
        DEF Next, Source, Destination, SWork, DWork

\* The source ends with everything handed out, or has given up.
LEMMA GaveUpStep == TypeOK /\ Endings /\ GaveUp /\ [Next]_vars => GaveUp'
<1> SUFFICES ASSUME TypeOK, Endings, GaveUp, [Next]_vars PROVE GaveUp' OBVIOUS
<1> USE Constants DEF TypeOK, src, net, dst, mon, setup
\* A step that ends no worker's work otherwise than before, and hands nothing out.
<1>1. CASE /\ UNCHANGED <<sNext, limited>> /\ (sAbort => sAbort')
           /\ sPc' \in {sPc, "dead"} \/ sPc \in {"eof", "drain", "done"}
           /\ sPc = "dead" => sPc' = "dead"
           /\ sPc' = "dead" => \A w \in Workers : sTask'[w] = "idle"
           /\ \A w \in Workers : Ending(w)' => Ending(w) \/ sPc \in {"eof", "drain", "done"}
           /\ \A w \in Workers : ~dEof[w] /\ ~HasEof(w)
                => (~dEof'[w] /\ ~HasEof(w)') \/ sTask[w] = "eof"
           /\ \A w \in Workers : sTask[w] = "claimed" => sTask'[w] = "claimed" \/ sPc' = "dead"
  <2>1. ASSUME sPc' \in {"eof", "drain", "done"} \/ (\E w \in Workers : Ending(w)')
        PROVE  sNext' = NumBlocks \/ sAbort' \/ limited'
    BY <1>1, <2>1 DEF GaveUp
  <2>2. ASSUME limited'
        PROVE  \E v \in Workers : /\ ~dEof'[v] /\ ~HasEof(v)'
                                  /\ sTask'[v] = "claimed" \/ sPc' = "dead"
    <3>1. PICK v \in Workers : /\ ~dEof[v] /\ ~HasEof(v)
                               /\ sTask[v] = "claimed" \/ sPc = "dead"
      BY <1>1, <2>2 DEF GaveUp
    <3>2. sTask[v] # "eof" BY <3>1 DEF GaveUp
    <3> QED BY <1>1, <3>1, <3>2
  <2> QED BY <1>1, <2>1, <2>2 DEF GaveUp
<1>2. ASSUME NEW w \in Workers, SIssue(w) PROVE GaveUp'
  <2>1. UNCHANGED <<sPc, chan, dEof, limited>> /\ sPc = "loop" /\ ~limited BY <1>2 DEF SIssue
  <2>2. \A v \in Workers : ~Ending(v) BY <2>1 DEF Endings
  <2>3. \A v \in Workers : ~Ending(v)' BY <1>2, <2>1, <2>2 DEF SIssue, Ending, HasEof
  <2> QED BY <2>1, <2>3 DEF GaveUp
<1>3. ASSUME NEW w \in Workers, SLimit(w) PROVE GaveUp'
  <2>1. UNCHANGED <<chan, dEof>> /\ sPc = "loop" /\ sPc' = "eof" /\ limited'
        /\ sTask'[w] = "claimed"
    BY <1>3 DEF SLimit
  <2>2. ~Ending(w) BY <2>1 DEF Endings
  <2>3. ~HasEof(w)' /\ ~dEof'[w] BY <2>1, <2>2 DEF Ending, HasEof
  <2> QED BY <2>1, <2>3 DEF GaveUp
<1>4. CASE SLeave
  <2>1. /\ UNCHANGED <<chan, dEof, sTask, sNext, sAbort, limited>> /\ sPc' = "eof"
        /\ sNext = NumBlocks \/ sAbort
    BY <1>4 DEF SLeave, BlocksLeft
  <2>2. limited => \E v \in Workers : ~dEof[v] /\ ~HasEof(v) /\ sTask[v] = "claimed"
    BY <1>4 DEF SLeave, GaveUp
  <2> QED BY <2>1, <2>2, SameEndings DEF GaveUp
<1>5. CASE SEof
  <2>1. UNCHANGED <<chan, dEof, sNext, sAbort, limited>> /\ sPc = "eof"
        /\ sPc' # "dead" /\ sTask[sq] = "idle"
        /\ \A v \in Workers : v # sq => sTask'[v] = sTask[v]
    BY <1>5 DEF SEof
  <2>2. \A v \in Workers : HasEof(v)' <=> HasEof(v) BY <2>1 DEF HasEof
  <2> QED BY <1>1, <2>1, <2>2
<1>6. CASE SDrain
  <2>1. /\ UNCHANGED <<chan, dEof, sTask, sNext, sAbort, limited>> /\ sPc = "drain"
        /\ sPc' # "dead"
    BY <1>6 DEF SDrain
  <2> QED BY <1>1, <2>1, SameEndings
<1>7. ASSUME NEW w \in Workers, SRead(w) PROVE GaveUp'
  <2>1. /\ UNCHANGED <<chan, dEof, sNext, limited, sPc>> /\ sTask[w] = "read"
        /\ sTask'[w] \in {"idle", "send"} /\ (sAbort => sAbort')
        /\ \A v \in Workers : v # w => sTask'[v] = sTask[v]
    BY <1>7 DEF SRead
  <2>2. \A v \in Workers : HasEof(v)' <=> HasEof(v) BY <2>1 DEF HasEof
  <2>3. \A v \in Workers : Ending(v)' => Ending(v) BY <2>1, <2>2 DEF Ending
  <2>4. sPc # "dead" BY <2>1 DEF GaveUp
  <2> QED BY <1>1, <2>1, <2>2, <2>3, <2>4
<1>8. ASSUME NEW w \in Workers, SSend(w) PROVE GaveUp'
  <2> DEFINE msg == IF sTask[w] = "eof" THEN Eof ELSE sBlock[w]
  <2>1. /\ UNCHANGED <<dEof, sNext, sAbort, limited, sPc>>
        /\ sTask[w] \in {"send", "eof"} /\ sTask'[w] = "idle"
        /\ chan'[w] = Append(chan[w], msg)
        /\ \A v \in Workers : v # w => sTask'[v] = sTask[v] /\ chan'[v] = chan[v]
    BY <1>8 DEF SSend
  <2>2. msg \in Offsets /\ (msg = Eof => sTask[w] = "eof") BY DEF Offsets, Eof, Blocks
  <2>3. ~HasEof(w) /\ ~dEof[w] BY <2>1 DEF Endings
  <2>4. HasEof(w)' => sTask[w] = "eof" BY <2>1, <2>2, <2>3, Sent DEF HasEof
  <2>5. \A v \in Workers : v # w => (HasEof(v)' <=> HasEof(v)) BY <2>1 DEF HasEof
  <2>6. \A v \in Workers : Ending(v)' => Ending(v) BY <2>1, <2>3, <2>4, <2>5 DEF Ending
  <2>7. sPc # "dead" BY <2>1 DEF GaveUp
  <2> QED BY <1>1, <2>1, <2>4, <2>5, <2>6, <2>7
<1>9. ASSUME NEW w \in Workers, SSendFails(w) \/ SDies PROVE GaveUp'
  <2>1. /\ UNCHANGED <<chan, dEof, sNext, sAbort, limited>>
        /\ \/ sPc' = "dead" /\ \A v \in Workers : sTask'[v] = "idle"
           \/ /\ sPc' = sPc /\ sTask[w] \in {"send", "eof"} /\ sTask'[w] = "idle"
              /\ \A v \in Workers : v # w => sTask'[v] = sTask[v]
    BY <1>9 DEF SSendFails, SDies
  <2>2. \A v \in Workers : HasEof(v)' <=> HasEof(v) BY <2>1 DEF HasEof
  <2>3. \A v \in Workers : Ending(v)' => Ending(v) BY <2>1, <2>2 DEF Ending
  <2>4. sPc = "dead" => \A v \in Workers : sTask[v] = "idle" BY DEF GaveUp
  <2> QED BY <1>1, <2>1, <2>2, <2>3, <2>4
<1>10. ASSUME NEW w \in Workers, LinkBreaks(w) \/ DExit PROVE GaveUp'
  <2>1. /\ UNCHANGED <<sTask, dEof, sNext, sAbort, limited, sPc>>
        /\ \A v \in Workers : chan'[v] = chan[v] \/ chan'[v] = <<>>
    BY <1>10 DEF LinkBreaks, DExit
  <2>2. \A v \in Workers : HasEof(v)' => HasEof(v) BY <2>1 DEF HasEof
  <2>3. \A v \in Workers : Ending(v)' => Ending(v) BY <2>1, <2>2 DEF Ending
  <2>4. sPc = "dead" => \A v \in Workers : sTask[v] = "idle" BY DEF GaveUp
  <2> QED BY <1>1, <2>1, <2>2, <2>3, <2>4
<1>11. ASSUME NEW w \in Workers, DRecvBlock(w) \/ DRecvEof(w) PROVE GaveUp'
  <2>1. /\ UNCHANGED <<sTask, sNext, sAbort, limited, sPc>>
        /\ chan[w] # <<>> /\ chan'[w] = Tail(chan[w])
        /\ \A v \in Workers : v # w => dEof'[v] = dEof[v] /\ chan'[v] = chan[v]
    BY <1>11 DEF DRecvBlock, DRecvEof
  <2>2. chan[w] \in Seq(Offsets) OBVIOUS
  <2>3. HasEof(w)' => HasEof(w)
    <3> SUFFICES ASSUME HasEof(w)' PROVE HasEof(w) OBVIOUS
    <3>1. PICK i \in 1..Len(chan'[w]) : chan'[w][i] = Eof BY DEF HasEof
    <3>2. i + 1 \in 1..Len(chan[w]) /\ chan[w][i + 1] = Eof BY <2>1, <2>2, <3>1, Received
    <3> QED BY <3>2 DEF HasEof
  <2>4. dEof'[w] => HasEof(w) \/ dEof[w]
    <3>1. Head(chan[w]) = chan[w][1] /\ 1 \in 1..Len(chan[w]) BY <2>1, <2>2, Received
    <3> QED BY <1>11, <3>1 DEF DRecvBlock, DRecvEof, HasEof
  <2>5. \A v \in Workers : v # w => (HasEof(v)' <=> HasEof(v)) BY <2>1 DEF HasEof
  <2>6. \A v \in Workers : Ending(v)' => Ending(v) BY <2>1, <2>3, <2>4, <2>5 DEF Ending
  <2>7. sPc = "dead" => \A v \in Workers : sTask[v] = "idle" BY DEF GaveUp
  <2> QED BY <1>1, <2>1, <2>3, <2>4, <2>5, <2>6, <2>7
<1>12. ASSUME NEW w \in Workers, DIssue(w) \/ DRecvFails(w) \/ DWrite(w) PROVE GaveUp'
  <2>1. UNCHANGED <<sTask, chan, dEof, sNext, sAbort, limited, sPc>>
    BY <1>12 DEF DIssue, DRecvFails, DWrite
  <2> QED BY <2>1, SameEndings DEF GaveUp
<1>13. CASE SExit \/ DLeave \/ DDrain \/ DClose \/ Monitor \/ UNCHANGED vars \/ Over
  <2>1. UNCHANGED <<sTask, chan, dEof, sNext, sAbort, limited, sPc>>
    BY <1>13 DEF SExit, DLeave, DDrain, DClose, Monitor, MWake, MWalk, MPick, vars, Over
  <2> QED BY <2>1, SameEndings DEF GaveUp
<1>14. 1 \in Workers BY DEF Workers
<1> QED BY <1>2, <1>3, <1>4, <1>5, <1>6, <1>7, <1>8, <1>9, <1>10, <1>11, <1>12, <1>13, <1>14
        DEF Next, Source, Destination, SWork, DWork

\* The destination ends without an error only after every end of file.
LEMMA ThroughStep == TypeOK /\ Through /\ [Next]_vars => Through'
<1> SUFFICES ASSUME TypeOK, Through, [Next]_vars PROVE Through' OBVIOUS
<1> USE DEF TypeOK, Through, src, net, dst, mon, setup
<1>1. ASSUME NEW w \in Workers,
             SIssue(w) \/ SLimit(w) \/ SRead(w) \/ SSend(w) \/ SSendFails(w) \/ LinkBreaks(w)
      PROVE  Through'
  BY <1>1 DEF SIssue, SLimit, SRead, SSend, SSendFails, LinkBreaks
<1>2. CASE SLeave \/ SEof \/ SDrain \/ SDies \/ SExit \/ DExit \/ Over
  BY <1>2 DEF SLeave, SEof, SDrain, SDies, SExit, DExit, Over, vars
<1>3. CASE Monitor \/ UNCHANGED vars BY <1>3 DEF Monitor, MWake, MWalk, MPick, vars
<1>4. CASE DLeave BY <1>4 DEF DLeave, AllEof
<1>5. CASE DDrain \/ DClose BY <1>5 DEF DDrain, DClose
<1>6. ASSUME NEW w \in Workers, DIssue(w) PROVE Through' BY <1>6 DEF DIssue
<1>7. ASSUME NEW w \in Workers, DRecvBlock(w) \/ DRecvEof(w) PROVE Through'
  BY <1>7 DEF DRecvBlock, DRecvEof
<1>8. ASSUME NEW w \in Workers, DRecvFails(w) PROVE Through' BY <1>8 DEF DRecvFails
<1>9. ASSUME NEW w \in Workers, DWrite(w) PROVE Through' BY <1>9 DEF DWrite
<1> QED BY <1>1, <1>2, <1>3, <1>4, <1>5, <1>6, <1>7, <1>8, <1>9
        DEF Next, Source, Destination, SWork, DWork

\* What happens to other workers does not disturb a block.
LEMMA Elsewhere ==
  ASSUME NEW v \in Workers, NEW b \in Blocks, OnItsWay(v, b) \/ Stuck(v, b),
         sTask'[v] = sTask[v], sBlock'[v] = sBlock[v], chan'[v] = chan[v],
         dOff'[v] = dOff[v], dTask'[v] = dTask[v], dEof'[v] = dEof[v],
         sAbort => sAbort', canceled \/ dAbort => canceled' \/ dAbort',
         ~up[v] => ~up'[v], sPc = "dead" => sPc' = "dead"
  PROVE  OnItsWay(v, b)' \/ Stuck(v, b)'
BY DEF OnItsWay, Stuck, Before, HasEof

\* A block handed out and not written is on its way or stuck.
LEMMA UnderStep ==
  TypeOK /\ Bounded /\ Endings /\ GaveUp /\ Through /\ Under /\ [Next]_vars => Under'
<1> SUFFICES ASSUME TypeOK, Bounded, Endings, GaveUp, Through, Under, [Next]_vars
             PROVE  Under'
  OBVIOUS
<1> USE Constants DEF TypeOK, src, net, dst, mon, setup
<1> DEFINE Safe(v, b) == OnItsWay(v, b) \/ Stuck(v, b)
           Done(b) == b \in written \cup lost
\* A step of worker w that hands nothing out.
<1>1. ASSUME NEW w \in Workers, UNCHANGED <<sNext, start>>,
             written \subseteq written', lost \subseteq lost',
             \A b \in Blocks : Safe(w, b) => Safe(w, b)' \/ Done(b)',
             \A v \in Workers : v # w =>
               \A b \in Blocks : Safe(v, b) => Safe(v, b)' \/ Done(b)'
      PROVE  Under'
  <2> SUFFICES ASSUME NEW b \in Blocks, start <= b, b < sNext, ~Done(b)'
               PROVE  \E v \in Workers : Safe(v, b)'
    BY <1>1 DEF Under
  <2>1. ~Done(b) BY <1>1
  <2>2. PICK v \in Workers : Safe(v, b) BY <2>1 DEF Under
  <2>3. Safe(v, b)' BY <1>1, <2>2
  <2> QED BY <2>3
<1>2. ASSUME NEW w \in Workers, SIssue(w) PROVE Under'
  <2>1. /\ UNCHANGED <<sAbort, sPc, chan, up, dOff, dTask, dEof, dAbort, canceled>>
        /\ UNCHANGED <<start, written, lost>> /\ ~sAbort /\ sNext' = sNext + 1
        /\ sTask[w] = "idle" /\ sTask'[w] = "read" /\ sBlock'[w] = sNext
        /\ \A v \in Workers : v # w => sTask'[v] = sTask[v] /\ sBlock'[v] = sBlock[v]
    BY <1>2 DEF SIssue
  <2> SUFFICES ASSUME NEW b \in Blocks, start <= b, b < sNext', ~Done(b)
               PROVE  \E v \in Workers : Safe(v, b)'
    BY <2>1 DEF Under
  <2>2. CASE b = sNext
    <3>1. Before(w, b, Len(chan[w]))' BY <2>1, <2>2 DEF Before, Bounded
    <3>2. OnItsWay(w, b)' BY <2>1, <2>2, <3>1 DEF OnItsWay
    <3> QED BY <3>2
  <2>3. CASE b # sNext
    <3>1. b < sNext BY <2>1, <2>3 DEF Blocks
    <3>2. PICK v \in Workers : Safe(v, b) BY <3>1 DEF Under
    <3>3. CASE v = w
      <4>1. Safe(w, b)' BY <2>1, <3>2, <3>3 DEF OnItsWay, Stuck, Before, HasEof
      <4> QED BY <4>1
    <3>4. CASE v # w BY <2>1, <3>2, <3>4, Elsewhere
    <3> QED BY <3>3, <3>4
  <2> QED BY <2>2, <2>3
<1>3. ASSUME NEW w \in Workers, SLimit(w) PROVE Under'
  <2>1. /\ UNCHANGED <<sAbort, sBlock, sNext, chan, up, dOff, dTask, dEof, dAbort, canceled>>
        /\ UNCHANGED <<start, written, lost>> /\ sPc = "loop"
        /\ sTask[w] = "idle" /\ sTask'[w] = "claimed"
        /\ \A v \in Workers : v # w => sTask'[v] = sTask[v]
    BY <1>3 DEF SLimit
  <2>2. \A b \in Blocks : Safe(w, b) => Safe(w, b)'
    BY <2>1 DEF OnItsWay, Stuck, Before, HasEof
  <2>3. \A v \in Workers : v # w => \A b \in Blocks : Safe(v, b) => Safe(v, b)'
    BY <2>1, Elsewhere
  <2> QED BY <1>1, <2>1, <2>2, <2>3
<1>4. CASE SEof
  <2>0. PICK w \in Workers : w = sq OBVIOUS
  <2>1. /\ UNCHANGED <<sAbort, sBlock, sNext, chan, up, dOff, dTask, dEof, dAbort, canceled>>
        /\ UNCHANGED <<start, written, lost>> /\ sPc = "eof"
        /\ sTask[w] = "idle" /\ sTask'[w] = "eof"
        /\ \A v \in Workers : v # w => sTask'[v] = sTask[v]
    BY <1>4, <2>0 DEF SEof
  <2>2. \A b \in Blocks : Safe(w, b) => Safe(w, b)'
    BY <2>1 DEF OnItsWay, Stuck, Before, HasEof
  <2>3. \A v \in Workers : v # w => \A b \in Blocks : Safe(v, b) => Safe(v, b)'
    BY <2>1, Elsewhere
  <2> QED BY <1>1, <2>1, <2>2, <2>3
<1>5. ASSUME NEW w \in Workers, SRead(w) PROVE Under'
  <2>1. /\ UNCHANGED <<sPc, sBlock, sNext, chan, up, dOff, dTask, dEof, dAbort, canceled>>
        /\ UNCHANGED <<start, written>> /\ sTask[w] = "read"
        /\ lost \subseteq lost' /\ (sAbort => sAbort')
        /\ \A v \in Workers : v # w => sTask'[v] = sTask[v]
    BY <1>5 DEF SRead
  <2>2. \/ sTask'[w] = "idle" /\ sAbort'
        \/ sTask'[w] = "send"
        \/ sTask'[w] = "idle" /\ ~sAbort /\ sBlock[w] \in lost'
    BY <1>5 DEF SRead
  <2>3. ASSUME NEW b \in Blocks, Safe(w, b) PROVE Safe(w, b)' \/ Done(b)'
    BY <2>1, <2>2, <2>3 DEF OnItsWay, Stuck, Before, HasEof
  <2>4. \A v \in Workers : v # w => \A b \in Blocks : Safe(v, b) => Safe(v, b)'
    BY <2>1, Elsewhere
  <2> QED BY <1>1, <2>1, <2>3, <2>4
<1>6. ASSUME NEW w \in Workers, SSend(w) PROVE Under'
  <2> DEFINE msg == IF sTask[w] = "eof" THEN Eof ELSE sBlock[w]
  <2>1. /\ UNCHANGED <<sPc, sAbort, sBlock, sNext, up, dOff, dTask, dEof, dAbort, canceled>>
        /\ UNCHANGED <<start, written, lost>> /\ up[w]
        /\ sTask[w] \in {"send", "eof"} /\ sTask'[w] = "idle"
        /\ chan'[w] = Append(chan[w], msg)
        /\ \A v \in Workers : v # w => sTask'[v] = sTask[v] /\ chan'[v] = chan[v]
    BY <1>6 DEF SSend
  <2>2. msg \in Offsets /\ \A b \in Blocks : b \in Int /\ Eof <= b
    BY DEF Offsets, Eof, Blocks
  <2>3. chan[w] \in Seq(Offsets) OBVIOUS
  <2>4. /\ Len(chan[w]) \in Nat /\ Len(chan'[w]) = Len(chan[w]) + 1
        /\ \A i \in 1..Len(chan[w]) : chan'[w][i] = chan[w][i]
        /\ chan'[w][Len(chan[w]) + 1] = msg
    BY <2>1, <2>2, <2>3, Sent
  <2>5. sPc # "dead" BY <2>1 DEF GaveUp
  <2>6. ASSUME NEW b \in Blocks, Safe(w, b) PROVE Safe(w, b)'
    <3>1. CASE /\ sTask[w] = "send" /\ sBlock[w] = b
               /\ Before(w, b, Len(chan[w]))
      <4>1. Before(w, b, Len(chan[w]))' BY <2>1, <2>2, <2>4, <3>1 DEF Before
      <4>2. OnItsWay(w, b)' BY <2>1, <2>4, <3>1, <4>1 DEF OnItsWay
      <4> QED BY <4>2
    <3>2. ASSUME NEW i \in 1..Len(chan[w]), chan[w][i] = b, Before(w, b, i)
          PROVE  Safe(w, b)'
      <4>1. i \in 1..Len(chan'[w]) /\ chan'[w][i] = b BY <2>4, <3>2
      <4>2. Before(w, b, i)' BY <2>1, <2>4, <3>2 DEF Before
      <4> QED BY <4>1, <4>2 DEF OnItsWay
    <3>3. CASE dTask[w] = "write" /\ dOff[w] = b BY <2>1, <3>3 DEF OnItsWay
    <3>4. CASE Before(w, b, Len(chan[w])) /\ sAbort /\ sTask[w] = "eof"
      <4>1. Before(w, b, Len(chan[w]))' BY <2>1, <2>2, <2>4, <3>4 DEF Before
      <4> QED BY <2>1, <2>4, <3>4, <4>1 DEF Stuck
    <3>5. CASE dOff[w] <= b /\ dTask[w] = "idle" /\ (canceled \/ dAbort)
      BY <2>1, <3>5 DEF Stuck
    <3> QED BY <2>1, <2>5, <2>6, <3>1, <3>2, <3>3, <3>4, <3>5 DEF OnItsWay, Stuck
  <2>7. \A v \in Workers : v # w => \A b \in Blocks : Safe(v, b) => Safe(v, b)'
    BY <2>1, Elsewhere
  <2> QED BY <1>1, <2>1, <2>6, <2>7
\* The source loses a task, or all of them.
<1>7. ASSUME NEW w \in Workers, SSendFails(w) \/ SDies PROVE Under'
  <2>1. /\ UNCHANGED <<sAbort, sBlock, sNext, chan, up, dOff, dTask, dEof, dAbort, canceled>>
        /\ UNCHANGED <<start, written, lost>>
        /\ \/ sPc' = "dead" /\ \A v \in Workers : sTask'[v] = "idle"
           \/ /\ sPc' = sPc /\ ~up[w] /\ sTask'[w] = "idle"
              /\ \A v \in Workers : v # w => sTask'[v] = sTask[v]
    BY <1>7 DEF SSendFails, SDies
  <2>2. ASSUME NEW v \in Workers, NEW b \in Blocks, Safe(v, b) PROVE Safe(v, b)'
    <3>1. CASE sTask'[v] = sTask[v] BY <2>1, <2>2, <3>1, Elsewhere
    <3>2. CASE sTask'[v] # sTask[v]
      <4>1. sTask'[v] = "idle" /\ (~up[v] \/ sPc' = "dead") BY <2>1, <3>2
      <4>2. ~HasEof(v) /\ ~dEof[v] BY <3>2, <4>1 DEF Endings
      <4> QED BY <2>1, <2>2, <4>1, <4>2 DEF OnItsWay, Stuck, Before, HasEof
    <3> QED BY <3>1, <3>2
  <2> QED BY <1>1, <2>1, <2>2
<1>8. ASSUME NEW w \in Workers, LinkBreaks(w) \/ DExit PROVE Under'
  <2>1. /\ UNCHANGED <<sAbort, sPc, sTask, sBlock, sNext, dOff, dTask, dEof, dAbort, canceled>>
        /\ UNCHANGED <<start, written, lost>>
        /\ \A v \in Workers : \/ chan'[v] = <<>> /\ ~up'[v]
                              \/ chan'[v] = chan[v] /\ up'[v] = up[v]
    BY <1>8 DEF LinkBreaks, DExit
  <2>2. ASSUME NEW v \in Workers, NEW b \in Blocks, Safe(v, b) PROVE Safe(v, b)'
    <3>1. CASE chan'[v] = chan[v] /\ up'[v] = up[v] BY <2>1, <2>2, <3>1, Elsewhere
    <3>2. CASE chan'[v] = <<>> /\ ~up'[v]
      <4>1. Len(chan'[v]) = 0 /\ ~HasEof(v)' BY <3>2 DEF HasEof
      <4>2. CASE dEof[v]
        <5>1. chan'[v] = chan[v] BY <3>2, <4>2 DEF Endings
        <5> QED BY <2>1, <2>2, <3>2, <5>1, Elsewhere
      <4>3. CASE ~dEof[v]
        <5>1. dOff[v] <= b \/ (dTask[v] = "write" /\ dOff[v] = b)
          <6>1. CASE OnItsWay(v, b) BY <6>1 DEF OnItsWay, Before
          <6>2. CASE Stuck(v, b) BY <6>2 DEF Stuck, Before
          <6> QED BY <2>2, <6>1, <6>2
        <5>2. CASE dOff[v] <= b
          <6>1. Before(v, b, Len(chan[v]))' BY <2>1, <4>1, <5>2 DEF Before
          <6> QED BY <2>1, <3>2, <4>1, <4>3, <6>1 DEF Stuck
        <5>3. CASE dTask[v] = "write" /\ dOff[v] = b BY <2>1, <5>3 DEF OnItsWay
        <5> QED BY <5>1, <5>2, <5>3
      <4> QED BY <4>2, <4>3
    <3> QED BY <2>1, <3>1, <3>2
  <2> QED BY <1>1, <2>1, <2>2
<1>9. ASSUME NEW w \in Workers, DIssue(w) PROVE Under'
  <2>1. /\ UNCHANGED <<sAbort, sPc, sTask, sBlock, sNext, chan, up, dEof, dAbort, canceled>>
        /\ UNCHANGED <<start, written, lost>> /\ ~canceled /\ ~dAbort
        /\ dTask[w] = "idle" /\ dTask'[w] = "recv" /\ dOff'[w] = Unknown
        /\ \A v \in Workers : v # w => dTask'[v] = dTask[v] /\ dOff'[v] = dOff[v]
    BY <1>9 DEF DIssue
  <2>2. \A b \in Blocks : Unknown <= b BY DEF Unknown, Blocks
  <2>3. ASSUME NEW b \in Blocks, Safe(w, b) PROVE Safe(w, b)'
    BY <2>1, <2>2, <2>3 DEF OnItsWay, Stuck, Before, HasEof
  <2>4. \A v \in Workers : v # w => \A b \in Blocks : Safe(v, b) => Safe(v, b)'
    BY <2>1, Elsewhere
  <2> QED BY <1>1, <2>1, <2>3, <2>4
<1>10. ASSUME NEW w \in Workers, DRecvBlock(w) PROVE Under'
  <2>1. /\ UNCHANGED <<sAbort, sPc, sTask, sBlock, sNext, up, dEof, dAbort, canceled>>
        /\ UNCHANGED <<start, written, lost>>
        /\ dTask[w] = "recv" /\ dTask'[w] = "write" /\ dOff'[w] = Head(chan[w])
        /\ chan[w] # <<>> /\ chan'[w] = Tail(chan[w])
        /\ \A v \in Workers : v # w => /\ dTask'[v] = dTask[v] /\ dOff'[v] = dOff[v]
                                       /\ chan'[v] = chan[v]
    BY <1>10 DEF DRecvBlock, HeaderOffset
  <2>2. chan[w] \in Seq(Offsets) OBVIOUS
  <2>3. /\ Len(chan[w]) \in Nat \ {0} /\ Len(chan'[w]) = Len(chan[w]) - 1
        /\ \A i \in 1..Len(chan[w]) - 1 : chan'[w][i] = chan[w][i + 1]
        /\ dOff'[w] = chan[w][1]
    BY <2>1, <2>2, Received
  <2>4. HasEof(w)' => HasEof(w)
    <3> SUFFICES ASSUME HasEof(w)' PROVE HasEof(w) OBVIOUS
    <3>1. PICK i \in 1..Len(chan'[w]) : chan'[w][i] = Eof BY DEF HasEof
    <3>2. i + 1 \in 1..Len(chan[w]) /\ chan[w][i + 1] = Eof BY <2>3, <3>1
    <3> QED BY <3>2 DEF HasEof
  <2>5. ASSUME NEW b \in Blocks, NEW n \in 1..Len(chan[w]), Before(w, b, n)
        PROVE  Before(w, b, n - 1)'
    <3>1. 1 \in 1..n /\ dOff'[w] <= b BY <2>3, <2>5 DEF Before
    <3>2. \A i \in 1..n - 1 : i \in 1..Len(chan[w]) - 1 /\ i + 1 \in 1..n BY <2>3
    <3>3. \A i \in 1..n - 1 : chan'[w][i] <= b BY <2>3, <2>5, <3>2 DEF Before
    <3> QED BY <3>1, <3>3 DEF Before
  <2>6. ASSUME NEW b \in Blocks, Before(w, b, Len(chan[w])) PROVE Before(w, b, Len(chan[w]))'
    <3>1. Len(chan[w]) \in 1..Len(chan[w]) BY <2>3
    <3> QED BY <2>3, <2>5, <2>6, <3>1 DEF Before
  <2>7. ASSUME NEW b \in Blocks, Safe(w, b) PROVE Safe(w, b)'
    <3>1. CASE /\ sTask[w] \in {"read", "send"} /\ sBlock[w] = b
               /\ Before(w, b, Len(chan[w]))
      BY <2>1, <2>6, <3>1 DEF OnItsWay
    <3>2. ASSUME NEW i \in 1..Len(chan[w]), chan[w][i] = b, Before(w, b, i)
          PROVE  Safe(w, b)'
      <4>1. CASE i = 1 BY <2>1, <2>3, <3>2, <4>1 DEF OnItsWay
      <4>2. CASE i # 1
        <5>1. i - 1 \in 1..Len(chan'[w]) /\ i - 1 \in 1..Len(chan[w]) - 1 BY <2>3, <4>2
        <5>2. chan'[w][i - 1] = b BY <2>3, <3>2, <5>1
        <5>3. Before(w, b, i - 1)' BY <2>5, <3>2
        <5> QED BY <5>1, <5>2, <5>3 DEF OnItsWay
      <4> QED BY <4>1, <4>2
    <3>3. CASE Stuck(w, b) BY <2>1, <2>4, <2>6, <3>3 DEF Stuck
    <3> QED BY <2>1, <2>7, <3>1, <3>2, <3>3 DEF OnItsWay
  <2>8. \A v \in Workers : v # w => \A b \in Blocks : Safe(v, b) => Safe(v, b)'
    BY <2>1, Elsewhere
  <2> QED BY <1>1, <2>1, <2>7, <2>8
<1>11. ASSUME NEW w \in Workers, DRecvEof(w) PROVE Under'
  <2>1. /\ UNCHANGED <<sAbort, sPc, sTask, sBlock, sNext, up, dOff, dAbort, canceled>>
        /\ UNCHANGED <<start, written, lost>>
        /\ dTask[w] = "recv" /\ chan[w] # <<>> /\ chan'[w] = Tail(chan[w])
        /\ Head(chan[w]) = Eof
        /\ \A v \in Workers : v # w => /\ dTask'[v] = dTask[v] /\ dEof'[v] = dEof[v]
                                       /\ chan'[v] = chan[v]
    BY <1>11 DEF DRecvEof
  <2>2. chan[w] \in Seq(Offsets) OBVIOUS
  <2>3. 1 \in 1..Len(chan[w]) /\ chan[w][1] = Eof BY <2>1, <2>2, Received
  <2>4. Len(chan[w]) = 1 /\ sTask[w] = "idle" /\ HasEof(w) BY <2>3 DEF Endings, HasEof
  <2>5. Len(chan'[w]) = 0 BY <2>1, <2>2, <2>4, Received
  <2>6. ASSUME NEW b \in Blocks, Safe(w, b) PROVE Safe(w, b)'
    <3>1. Before(w, b, Len(chan[w])) /\ sAbort
      <4>1. \A i \in 1..Len(chan[w]) : chan[w][i] # b
        BY <2>3, <2>4 DEF Eof, Blocks
      <4> QED BY <2>1, <2>4, <2>6, <4>1 DEF OnItsWay, Stuck
    <3>2. Before(w, b, Len(chan[w]))' BY <2>1, <2>5, <3>1 DEF Before
    <3> QED BY <2>1, <2>4, <3>1, <3>2 DEF Stuck
  <2>7. \A v \in Workers : v # w => \A b \in Blocks : Safe(v, b) => Safe(v, b)'
    BY <2>1, Elsewhere
  <2> QED BY <1>1, <2>1, <2>6, <2>7
<1>12. ASSUME NEW w \in Workers, DRecvFails(w) PROVE Under'
  <2>1. /\ UNCHANGED <<sAbort, sPc, sTask, sBlock, sNext, chan, up, dOff, dEof, dAbort>>
        /\ UNCHANGED <<start, written, lost>>
        /\ dTask[w] = "recv" /\ dTask'[w] = "idle" /\ canceled' = TRUE
        /\ \A v \in Workers : v # w => dTask'[v] = dTask[v]
    BY <1>12 DEF DRecvFails, CancelsRun
  <2>2. ASSUME NEW b \in Blocks, Safe(w, b) PROVE Safe(w, b)'
    BY <2>1, <2>2 DEF OnItsWay, Stuck, Before, HasEof
  <2>3. \A v \in Workers : v # w => \A b \in Blocks : Safe(v, b) => Safe(v, b)'
    BY <2>1, Elsewhere
  <2> QED BY <1>1, <2>1, <2>2, <2>3
<1>13. ASSUME NEW w \in Workers, DWrite(w) PROVE Under'
  <2>1. /\ UNCHANGED <<sAbort, sPc, sTask, sBlock, sNext, chan, up, dOff, dEof, canceled>>
        /\ UNCHANGED start /\ written \subseteq written' /\ lost \subseteq lost'
        /\ dTask[w] = "write" /\ dTask'[w] = "idle"
        /\ canceled \/ dAbort => canceled' \/ dAbort'
        /\ canceled \/ dAbort \/ dOff[w] \in written' \cup lost'
        /\ \A v \in Workers : v # w => dTask'[v] = dTask[v]
    BY <1>13 DEF DWrite
  <2>2. \A b \in Blocks : b <= b BY DEF Blocks
  <2>3. ASSUME NEW b \in Blocks, Safe(w, b) PROVE Safe(w, b)' \/ Done(b)'
    BY <2>1, <2>2, <2>3 DEF OnItsWay, Stuck, Before, HasEof
  <2>4. \A v \in Workers : v # w => \A b \in Blocks : Safe(v, b) => Safe(v, b)'
    BY <2>1, Elsewhere
  <2> QED BY <1>1, <2>1, <2>3, <2>4
<1>14. CASE SLeave \/ SDrain \/ SExit \/ DLeave \/ DDrain \/ DClose \/ Monitor
            \/ UNCHANGED vars \/ Over
  <2>1. /\ UNCHANGED <<sAbort, sTask, sBlock, sNext, chan, dOff, dTask, dEof, dAbort, canceled>>
        /\ UNCHANGED <<start, written, lost>> /\ (sPc = "dead" => sPc' = "dead")
        /\ \A v \in Workers : ~up[v] => ~up'[v]
    BY <1>14 DEF SLeave, SDrain, SExit, DLeave, DDrain, DClose, Monitor, MWake, MWalk, MPick,
                 vars, Over
  <2>2. \A v \in Workers, b \in Blocks : Safe(v, b) => Safe(v, b)' BY <2>1, Elsewhere
  <2>3. 1 \in Workers BY DEF Workers
  <2> QED BY <1>1, <2>1, <2>2, <2>3
<1>15. 1 \in Workers BY DEF Workers
<1> QED BY <1>2, <1>3, <1>4, <1>5, <1>6, <1>7, <1>8, <1>9, <1>10, <1>11, <1>12, <1>13, <1>14,
           <1>15
        DEF Next, Source, Destination, SWork, DWork

\* Where every block of a copy is, in every reachable state.
LEMMA Inductive == Spec => []IInv
<1>1. IInv /\ [Next]_vars => IInv'
  BY TypeStep, BoundedStep, EndingsStep, GaveUpStep, ThroughStep, UnderStep DEF IInv
<1> QED BY InitIInv, <1>1, PTL DEF Spec

\* Every variable keeps its type, whatever fails.
THEOREM TypeCorrect == Spec => []TypeOK
BY Inductive, PTL DEF IInv

\* What the restart monitor builds on (restart.c:229-232): with any number of
\* workers and blocks, and whatever fails, some worker of the destination stands
\* before every block that is not written.
THEOREM LowestOffset == Spec => []LowestOffsetIsSafe
<1>1. IInv => LowestOffsetIsSafe
  <2> SUFFICES ASSUME IInv, NEW b \in Blocks, b >= start, b \notin written \cup lost
               PROVE  \E w \in Workers : dOff[w] <= b
    BY DEF LowestOffsetIsSafe
  <2> USE Constants DEF IInv
  <2>1. /\ b \in Int /\ sNext \in Int /\ start \in Int
        /\ \A w \in Workers : dOff[w] \in Int
    BY DEF TypeOK, Blocks, Offsets, Eof
  <2>2. CASE b < sNext
    <3>1. PICK w \in Workers : OnItsWay(w, b) \/ Stuck(w, b) BY <2>1, <2>2 DEF Under
    <3>2. dOff[w] <= b
      <4>1. CASE OnItsWay(w, b) BY <2>1, <4>1 DEF OnItsWay, Before
      <4>2. CASE Stuck(w, b) BY <4>2 DEF Stuck, Before
      <4> QED BY <3>1, <4>1, <4>2
    <3> QED BY <3>2
  <2>3. CASE sNext <= b
    <3>1. 1 \in Workers /\ dOff[1] <= sNext BY DEF Workers, Bounded
    <3> QED BY <2>1, <2>3, <3>1
  <2> QED BY <2>1, <2>2, <2>3
<1> QED BY Inductive, <1>1, PTL

\* A destination that wrote its completion message (target_thread.c:104) has every
\* block, unless the block's own read or write failed or the source gave up after
\* an error: for any number of connections, whatever happens to them.
THEOREM CompleteCopy == Spec => []CompleteMeansWritten
<1>1. IInv => CompleteMeansWritten
  <2> SUFFICES ASSUME IInv, successful, ~sAbort, NEW b \in Blocks, b >= start,
                      b \notin written \cup lost
               PROVE  FALSE
    BY DEF CompleteMeansWritten
  <2> USE Constants DEF IInv
  <2>1. dPc = "done" /\ ~dAbort BY DEF Places
  <2>2. ~canceled /\ \A w \in Workers : dEof[w] /\ dTask[w] = "idle" BY <2>1 DEF Through
  <2>3. \A w \in Workers : Ending(w) /\ chan[w] = <<>> /\ sTask[w] = "idle"
    BY <2>2 DEF Endings, Ending
  <2>4. ~limited BY <2>2 DEF GaveUp
  <2>5. 1 \in Workers BY DEF Workers
  <2>6. sNext = NumBlocks BY <2>3, <2>4, <2>5 DEF GaveUp
  <2>7. start <= b /\ b < sNext BY <2>6 DEF TypeOK, Blocks
  <2>8. PICK w \in Workers : OnItsWay(w, b) \/ Stuck(w, b) BY <2>7 DEF Under
  <2>9. ~OnItsWay(w, b) BY <2>2, <2>3 DEF OnItsWay
  <2>10. ~Stuck(w, b) BY <2>1, <2>2 DEF Stuck
  <2> QED BY <2>8, <2>9, <2>10
<1> QED BY Inductive, <1>1, PTL

\* The restart monitor never writes over the completion message.
THEOREM CompletionStays == Spec => CompletionIsFinal
<1>1. IInv /\ [Next]_vars => (successful => UNCHANGED <<file, successful>>)
  <2> SUFFICES ASSUME IInv, [Next]_vars, successful PROVE UNCHANGED <<file, successful>>
    OBVIOUS
  <2> USE DEF src, net, dst, mon, setup
  <2>1. mPc = "sleep" /\ dPc = "done" BY DEF IInv, Places
  <2>2. CASE Source \/ Destination
    BY <2>1, <2>2 DEF Source, SLeave, SEof, SDrain, SIssue, SLimit,
                      Destination, DLeave, DDrain, DClose, DIssue
  <2>3. CASE Monitor BY <2>1, <2>3 DEF Monitor, MWake, MWalk, MPick
  <2>4. ASSUME NEW w \in Workers, SWork(w) \/ DWork(w) \/ LinkBreaks(w)
        PROVE  UNCHANGED <<file, successful>>
    BY <2>4 DEF SWork, SRead, SSend, SSendFails, DWork, DRecvBlock, DRecvEof, DRecvFails,
                DWrite, LinkBreaks
  <2>5. CASE SDies \/ SExit \/ DExit \/ Over \/ UNCHANGED vars
    BY <2>5 DEF SDies, SExit, DExit, Over, vars
  <2> QED BY <2>2, <2>3, <2>4, <2>5 DEF Next
<1> QED BY Inductive, <1>1, PTL DEF Spec, CompletionIsFinal
=============================================================================
