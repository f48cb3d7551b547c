----------------------------- MODULE EndToEnd -----------------------------
(***************************************************************************)
(* An end-to-end copy: the source's Worker Threads read the blocks of a    *)
(* file and send them, each over a TCP connection of its own, to the       *)
(* Worker Threads of the destination, which write them.  The source's      *)
(* Target Thread hands out the blocks in order and then an end-of-file     *)
(* task to every worker; the destination's Target Thread keeps its workers *)
(* receiving until each of them got its end of file.  On the destination a *)
(* restart monitor walks the workers' tasks now and then and writes the    *)
(* lowest offset into the restart file: a copy that died is resumed there. *)
(*                                                                         *)
(* A block stands for its byte offset and for its operation number.  How a *)
(* Target Thread finds an idle worker and hands over a task is one step    *)
(* here, see TaskDispatch and WorkerPool.  The restart file is what fseek  *)
(* and fprintf leave in it: an offset or the completion message.           *)
(***************************************************************************)
EXTENDS Integers, Sequences

CONSTANTS QueueDepth,   \* td_queue_depth, the same on both sides
          NumBlocks,    \* the blocks of the file
          ChanCap,      \* bound: the messages a connection's buffers hold
          Faults        \* what may go wrong: one kind in each behaviour

FaultKinds == {"none", "read", "write", "link", "limit", "death"}

ASSUME E2EAssumption ==
  /\ QueueDepth \in Nat \ {0} /\ NumBlocks \in Nat \ {0} /\ ChanCap \in Nat \ {0}
  /\ Faults \subseteq FaultKinds

Workers == 1..QueueDepth
Blocks == 0..NumBlocks-1
Nobody == 0
Eof == -1      \* the end-of-file header, and the offset it carries
Unknown == -1  \* "to be filled in after data received"

VARIABLES
  \* the source
  sPc,         \* where its Target Thread is: "loop", "eof", "drain", "done", "dead"
  sNext,       \* tc_current_op_number
  sq,          \* the worker its end-of-file and drain loops are at
  sTask,       \* what each worker is at: "idle", "claimed", "read", "send", "eof"
  sBlock,      \* task_byte_offset of each worker
  sAbort,      \* td_abort
  limited,     \* td_time_limit_expired or run_time_expired
  \* the connections
  chan,        \* the messages under way on each
  up,          \* the connection stands
  \* the destination
  dPc,         \* where its Target Thread is: "loop", "drain", "close", "done", "dead"
  dq,          \* the worker its drain loop is at
  dTask,       \* what each worker is at: "idle", "recv", "write"
  dOff,        \* task_byte_offset of each worker
  dEof,        \* WTSYNC_EOF_RECEIVED of each worker
  dAbort,      \* td_abort
  canceled,    \* xgp->canceled
  \* the restart monitor and the restart file
  mPc,         \* "sleep", "walk", "pick"; the lock is held in the latter two
  mAt, mLow,   \* cur_wdp and restart_wdp
  file,        \* the offset in the restart file
  successful,  \* RESTART_FLAG_SUCCESSFUL_COMPLETION
  start,       \* initial_restart_offset
  \* what came of the copy
  stopOnError, \* GO_STOP_ON_ERROR, an option of both commands
  fault,       \* what may go wrong in this behaviour
  written,     \* the blocks on the destination's storage
  lost         \* the blocks whose read or write failed (history)

src == <<sPc, sNext, sq, sTask, sBlock, sAbort, limited>>
net == <<chan, up>>
dst == <<dPc, dq, dTask, dOff, dEof, dAbort, canceled>>
mon == <<mPc, mAt, mLow, file, successful>>
setup == <<start, stopOnError, fault>>
vars == <<src, net, dst, mon, setup, written, lost>>

\* A copy from the start, or one resumed with -restart offset where everything
\* before the offset is written.
Init ==
  /\ start \in Blocks /\ file = start /\ written = {b \in Blocks : b < start} /\ lost = {}
  /\ sPc = "loop" /\ sNext = start /\ sq = 1 /\ sAbort = FALSE /\ limited = FALSE
  /\ sTask = [w \in Workers |-> "idle"] /\ sBlock = [w \in Workers |-> 0]
  /\ chan = [w \in Workers |-> <<>>] /\ up = [w \in Workers |-> TRUE]
  /\ dPc = "loop" /\ dq = 1 /\ dAbort = FALSE /\ canceled = FALSE
  /\ dTask = [w \in Workers |-> "idle"] /\ dOff = [w \in Workers |-> 0]
  /\ dEof = [w \in Workers |-> FALSE]
  /\ mPc = "sleep" /\ mAt = 1 /\ mLow = 1 /\ successful = FALSE
  /\ stopOnError \in BOOLEAN /\ fault \in Faults

-----------------------------------------------------------------------------
(* The source's Target Thread: xdd_targetpass_e2e_loop_src *)

BlocksLeftOneMore == sNext <= NumBlocks  \* slip: off by one
BlocksLeft == sNext < NumBlocks

\* The next block goes to any idle worker.
SIssue(w) ==
  /\ sPc = "loop" /\ BlocksLeft /\ sTask[w] = "idle" /\ ~sAbort /\ ~limited
  /\ sTask' = [sTask EXCEPT ![w] = "read"]
  /\ sBlock' = [sBlock EXCEPT ![w] = sNext]
  /\ sNext' = sNext + 1
  /\ UNCHANGED <<sPc, sq, sAbort, limited, net, dst, mon, setup, written, lost>>

\* The limit is noticed with a worker claimed, which stays claimed.
SLimit(w) ==
  /\ fault = "limit"
  /\ sPc = "loop" /\ BlocksLeft /\ sTask[w] = "idle"
  /\ limited' = TRUE
  /\ sTask' = [sTask EXCEPT ![w] = "claimed"]
  /\ sPc' = "eof"
  /\ UNCHANGED <<sNext, sq, sBlock, sAbort, net, dst, mon, setup, written, lost>>

\* Everything is issued, or an abort is noticed and the claimed worker given back.
SLeave ==
  /\ sPc = "loop"
  /\ ~BlocksLeft \/ (sAbort /\ \E w \in Workers : sTask[w] = "idle")
  /\ sPc' = "eof"
  /\ UNCHANGED <<sNext, sq, sTask, sBlock, sAbort, limited, net, dst, mon, setup,
                 written, lost>>

\* The end-of-file task for worker sq, once it is idle.
SEof ==
  /\ sPc = "eof" /\ sTask[sq] = "idle"
  /\ sTask' = [sTask EXCEPT ![sq] = "eof"]
  /\ IF sq = QueueDepth THEN sPc' = "drain" /\ sq' = 1
                        ELSE sq' = sq + 1 /\ UNCHANGED sPc
  /\ UNCHANGED <<sNext, sBlock, sAbort, limited, net, dst, mon, setup, written, lost>>

\* Wait for worker sq to be idle again.
SDrain ==
  /\ sPc = "drain" /\ sTask[sq] = "idle"
  /\ IF sq = QueueDepth THEN sPc' = "done" /\ UNCHANGED sq
                        ELSE sq' = sq + 1 /\ UNCHANGED sPc
  /\ UNCHANGED <<sNext, sTask, sBlock, sAbort, limited, net, dst, mon, setup,
                 written, lost>>

-----------------------------------------------------------------------------
(* The source's Worker Threads *)

\* Skipped after an abort; otherwise read, and when that fails nothing is sent.
SRead(w) ==
  /\ sTask[w] = "read"
  /\ \/ /\ sAbort
        /\ sTask' = [sTask EXCEPT ![w] = "idle"]
        /\ UNCHANGED <<sAbort, lost>>
     \/ /\ ~sAbort
        /\ sTask' = [sTask EXCEPT ![w] = "send"]
        /\ UNCHANGED <<sAbort, lost>>
     \/ /\ ~sAbort /\ fault = "read"
        /\ sTask' = [sTask EXCEPT ![w] = "idle"]
        /\ lost' = lost \cup {sBlock[w]}
        /\ sAbort' = stopOnError
  /\ UNCHANGED <<sPc, sNext, sq, sBlock, limited, net, dst, mon, setup, written>>

\* xdd_e2e_src_send and xdd_e2e_eof_source_side; sendto blocks on full buffers.
SSend(w) ==
  /\ sTask[w] \in {"send", "eof"} /\ up[w] /\ Len(chan[w]) < ChanCap
  /\ chan' = [chan EXCEPT ![w] = Append(@, IF sTask[w] = "eof" THEN Eof ELSE sBlock[w])]
  /\ sTask' = [sTask EXCEPT ![w] = "idle"]
  /\ UNCHANGED <<sPc, sNext, sq, sBlock, sAbort, limited, up, dst, mon, setup,
                 written, lost>>

\* A failed send is reported and forgotten, or its SIGPIPE ends the process.
SSendFails(w) ==
  /\ sTask[w] \in {"send", "eof"} /\ ~up[w]
  /\ \/ sTask' = [sTask EXCEPT ![w] = "idle"] /\ UNCHANGED sPc
     \/ sPc' = "dead" /\ sTask' = [v \in Workers |-> "idle"]
  /\ UNCHANGED <<sNext, sq, sBlock, sAbort, limited, net, dst, mon, setup,
                 written, lost>>

-----------------------------------------------------------------------------
(* The connections: TCP keeps the order and either delivers or breaks. *)

LinkBreaks(w) ==
  /\ fault = "link" /\ up[w]
  /\ up' = [up EXCEPT ![w] = FALSE]
  /\ chan' = [chan EXCEPT ![w] = <<>>]
  /\ UNCHANGED <<src, dst, mon, setup, written, lost>>

\* The source is killed.
SDies ==
  /\ fault = "death" /\ sPc # "done" /\ sPc' = "dead"
  /\ sTask' = [v \in Workers |-> "idle"]
  /\ UNCHANGED <<sNext, sq, sBlock, sAbort, limited, net, dst, mon, setup, written, lost>>

\* A process that ended closes its connections; what it sent is still delivered,
\* what was sent to it is not.
SExit ==
  /\ sPc \in {"done", "dead"} /\ (\E w \in Workers : up[w])
  /\ up' = [w \in Workers |-> FALSE]
  /\ UNCHANGED <<src, chan, dst, mon, setup, written, lost>>

DExit ==
  /\ dPc \in {"done", "dead"} /\ \E w \in Workers : up[w] \/ chan[w] # <<>>
  /\ up' = [w \in Workers |-> FALSE]
  /\ chan' = [w \in Workers |-> <<>>]
  /\ UNCHANGED <<src, dst, mon, setup, written, lost>>

-----------------------------------------------------------------------------
(* The destination's Target Thread: xdd_targetpass_e2e_loop_dst *)

DIssue(w) ==
  /\ dPc = "loop" /\ dTask[w] = "idle" /\ ~dEof[w] /\ ~canceled /\ ~dAbort
  /\ dTask' = [dTask EXCEPT ![w] = "recv"]
  /\ dOff' = [dOff EXCEPT ![w] = Unknown]
  /\ UNCHANGED <<src, net, dPc, dq, dEof, dAbort, canceled, mon, setup, written, lost>>

\* The locator finds nobody when every worker has its end of file, or the loop
\* is left with the worker it found; a canceled destination calls exit.
AnyEof == \E w \in Workers : dTask[w] = "idle" /\ dEof[w]  \* slip: one end of file will do
AllEof == \A w \in Workers : dTask[w] = "idle" /\ dEof[w]

DLeave ==
  /\ dPc = "loop"
  /\ \/ AllEof
     \/ (canceled \/ dAbort) /\ \E w \in Workers : dTask[w] = "idle" /\ ~dEof[w]
  /\ dPc' = IF canceled THEN "dead" ELSE "drain"
  /\ UNCHANGED <<src, net, dq, dTask, dOff, dEof, dAbort, canceled, mon, setup,
                 written, lost>>

DDrain ==
  /\ dPc = "drain" /\ dTask[dq] = "idle"
  /\ IF canceled THEN dPc' = "dead" /\ UNCHANGED dq
     ELSE IF dq = QueueDepth THEN dPc' = "close" /\ UNCHANGED dq
     ELSE dq' = dq + 1 /\ UNCHANGED dPc
  /\ UNCHANGED <<src, net, dTask, dOff, dEof, dAbort, canceled, mon, setup,
                 written, lost>>

TakesNoLock == TRUE                   \* slip: the lock is not taken
LockIsFree == mPc = "sleep"

\* xdd_target_thread after the pass: the completion message, under the lock the
\* monitor holds during its walk.
DClose ==
  /\ dPc = "close"
  /\ dAbort \/ LockIsFree
  /\ successful' = ~dAbort
  /\ dPc' = "done"
  /\ UNCHANGED <<src, net, dq, dTask, dOff, dEof, dAbort, canceled, mPc, mAt, mLow, file,
                 setup, written, lost>>

-----------------------------------------------------------------------------
(* The destination's Worker Threads: xdd_e2e_dest_receive, xdd_worker_thread_io *)

OffsetBehind(msg) == msg + 1          \* slip: the offset behind the block
HeaderOffset(msg) == msg

DRecvBlock(w) ==
  /\ dTask[w] = "recv" /\ chan[w] # <<>> /\ Head(chan[w]) # Eof
  /\ dOff' = [dOff EXCEPT ![w] = HeaderOffset(Head(chan[w]))]
  /\ chan' = [chan EXCEPT ![w] = Tail(chan[w])]
  /\ dTask' = [dTask EXCEPT ![w] = "write"]
  /\ UNCHANGED <<src, up, dPc, dq, dEof, dAbort, canceled, mon, setup, written, lost>>

DRecvEof(w) ==
  /\ dTask[w] = "recv" /\ chan[w] # <<>> /\ Head(chan[w]) = Eof
  /\ dEof' = [dEof EXCEPT ![w] = TRUE]
  /\ chan' = [chan EXCEPT ![w] = Tail(chan[w])]
  /\ dTask' = [dTask EXCEPT ![w] = "idle"]
  /\ UNCHANGED <<src, up, dPc, dq, dOff, dAbort, canceled, mon, setup, written, lost>>

GoesOn == canceled                    \* slip: the failed receive is ignored
CancelsRun == TRUE

\* The connection broke or was closed with nothing left to receive.
DRecvFails(w) ==
  /\ dTask[w] = "recv" /\ chan[w] = <<>> /\ ~up[w]
  /\ canceled' = CancelsRun
  /\ dTask' = [dTask EXCEPT ![w] = "idle"]
  /\ UNCHANGED <<src, net, dPc, dq, dOff, dEof, dAbort, mon, setup, written, lost>>

\* Skipped after a cancellation or an abort; otherwise written, or failed.
DWrite(w) ==
  /\ dTask[w] = "write"
  /\ dTask' = [dTask EXCEPT ![w] = "idle"]
  /\ \/ /\ canceled \/ dAbort
        /\ UNCHANGED <<dAbort, written, lost>>
     \/ /\ ~canceled /\ ~dAbort
        /\ written' = written \cup {dOff[w]}
        /\ UNCHANGED <<dAbort, lost>>
     \/ /\ ~canceled /\ ~dAbort /\ fault = "write"
        /\ lost' = lost \cup {dOff[w]}
        /\ dAbort' = stopOnError
        /\ UNCHANGED written
  /\ UNCHANGED <<src, net, dPc, dq, dOff, dEof, canceled, mon, setup>>

-----------------------------------------------------------------------------
(* xdd_restart_monitor, on the destination *)

MWake ==
  /\ mPc = "sleep" /\ ~canceled /\ ~successful /\ dPc # "dead"
  /\ mPc' = IF QueueDepth = 1 THEN "pick" ELSE "walk"
  /\ UNCHANGED <<src, net, dst, mAt, mLow, file, successful, setup, written, lost>>

MWalk ==
  /\ mPc = "walk" /\ dPc # "dead"
  /\ mAt' = mAt + 1
  /\ mLow' = IF dOff[mAt + 1] < dOff[mLow] THEN mAt + 1 ELSE mLow
  /\ mPc' = IF mAt + 1 = QueueDepth THEN "pick" ELSE "walk"
  /\ UNCHANGED <<src, net, dst, file, successful, setup, written, lost>>

\* xdd_restart_write_restart_file
RestartOffset(offset) == IF offset > start THEN offset ELSE start

\* The offset of the worker that was picked is read again.
MPick ==
  /\ mPc = "pick" /\ dPc # "dead"
  /\ file' = RestartOffset(dOff[mLow])
  /\ mPc' = "sleep" /\ mAt' = 1 /\ mLow' = 1
  /\ UNCHANGED <<src, net, dst, successful, setup,
                 written, lost>>

-----------------------------------------------------------------------------
Over == /\ sPc \in {"done", "dead"} /\ dPc \in {"done", "dead"}
        /\ \A w \in Workers : ~up[w] /\ chan[w] = <<>>
        /\ UNCHANGED vars

Source == SLeave \/ SEof \/ SDrain \/ \E w \in Workers : SIssue(w) \/ SLimit(w)
Destination == DLeave \/ DDrain \/ DClose \/ \E w \in Workers : DIssue(w)
SWork(w) == SRead(w) \/ SSend(w) \/ SSendFails(w)
DWork(w) == dPc # "dead" /\ (DRecvBlock(w) \/ DRecvEof(w) \/ DRecvFails(w) \/ DWrite(w))
Monitor == MWake \/ MWalk \/ MPick

Next == \/ Source \/ Destination \/ Monitor
        \/ \E w \in Workers : SWork(w) \/ DWork(w) \/ LinkBreaks(w)
        \/ SDies \/ SExit \/ DExit \/ Over

Spec == Init /\ [][Next]_vars

\* Threads are scheduled fairly; the monitor sleeps between two walks, so who
\* waits for its lock gets it; nothing is assumed of the faults.
FairSpec ==
  /\ Spec
  /\ WF_vars(Source) /\ SF_vars(Destination)
  /\ \A w \in Workers : WF_vars(SWork(w)) /\ WF_vars(DWork(w))
  /\ WF_vars(MWalk \/ MPick) /\ WF_vars(SExit) /\ WF_vars(DExit)
-----------------------------------------------------------------------------
(* Properties. *)

Offsets == Blocks \cup {Eof}

TypeOK ==
  /\ sPc \in {"loop", "eof", "drain", "done", "dead"} /\ sNext \in 0..NumBlocks
  /\ sq \in Workers /\ sTask \in [Workers -> {"idle", "claimed", "read", "send", "eof"}]
  /\ sBlock \in [Workers -> Blocks] /\ sAbort \in BOOLEAN /\ limited \in BOOLEAN
  /\ chan \in [Workers -> Seq(Offsets)] /\ up \in [Workers -> BOOLEAN]
  /\ dPc \in {"loop", "drain", "close", "done", "dead"} /\ dq \in Workers
  /\ dTask \in [Workers -> {"idle", "recv", "write"}]
  /\ dOff \in [Workers -> Offsets] /\ dEof \in [Workers -> BOOLEAN]
  /\ dAbort \in BOOLEAN /\ canceled \in BOOLEAN
  /\ mPc \in {"sleep", "walk", "pick"} /\ mAt \in Workers /\ mLow \in Workers
  /\ file \in Blocks /\ start \in Blocks /\ successful \in BOOLEAN
  /\ stopOnError \in BOOLEAN /\ fault \in Faults
  /\ written \subseteq Blocks /\ lost \subseteq Blocks

\* What the restart monitor builds on: the worker with the lowest offset stands
\* before every block of this run that is not written yet, wherever that block
\* is: not handed out, read, sent, on a connection, or received.
LowestOffsetIsSafe ==
  \A b \in Blocks : b >= start /\ b \notin written \cup lost
                      => \E w \in Workers : dOff[w] <= b

\* The completion message is written only when every block from the starting
\* offset on is written, unless its read or write failed or the source gave up
\* after an error, of which the destination is not told.
CompleteMeansWritten ==
  successful /\ ~sAbort =>
    \A b \in Blocks : b >= start => b \in written \cup lost

\* The monitor does not write over the completion message, nor into the closed file.
CompletionIsFinal == [][successful => UNCHANGED <<file, successful>>]_vars

\* A copy comes to an end on both sides, however its connections break, unless the
\* source runs into its time limit or the destination stops on an error.
BothEnd == <>(limited \/ dAbort \/ (sPc \in {"done", "dead"} /\ dPc \in {"done", "dead"}))

\* restart.c:229-232: the smallest offset in the worker tasks is the restart
\* offset, so every block before the one in the restart file is written.
RestartFileIsSafe == \A b \in Blocks : b < file => b \in written \cup lost
=============================================================================
