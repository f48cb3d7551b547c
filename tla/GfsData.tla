------------------------------ MODULE GfsData ------------------------------
(***************************************************************************)
(* The life of a transfer in the data half of the GridFTP server           *)
(* (globus_i_gfs_data.c), on the node that owns the data channel: the      *)
(* reference-counted operation of each request, the data handle all of     *)
(* them share, the session, and every callback that can be on its way.     *)
(* The storage module (DSI), the control half of the server and the data   *)
(* channel library are external; they are modelled by what they may call.  *)
(*                                                                         *)
(* The functions take the session's mutex, release it to call out, and     *)
(* take it again.  Each locked region is one step: `due' counts, for each  *)
(* operation, the callbacks that are queued and the functions that are     *)
(* between two regions.                                                    *)
(***************************************************************************)
EXTENDS Naturals, FiniteSets

CONSTANTS
  NumOps,      \* requests a client makes one after the other on one handle
  MaxMarkers,  \* BOUND on the performance markers asked of an operation
  Threads,     \* TRUE: a thread per callback; FALSE: one event loop
  Faults       \* "register", "connect", "link", "abort", "dsi"

ASSUME GfsAssumption ==
  /\ NumOps \in Nat \ {0} /\ MaxMarkers \in Nat
  /\ Threads \in BOOLEAN
  /\ Faults \subseteq {"register", "connect", "link", "abort", "dsi"}

Ops == 1..NumOps
None == 0

OpStates == {"REQUESTING", "CONNECTING", "CONNECT_CB", "CONNECTED", "ABORTING",
             "ABORT_CLOSING", "FINISH", "FINISH_WITH_ERROR", "COMPLETING", "COMPLETE"}
HandleStates == {"VALID", "INUSE", "CLOSING", "TE_VALID", "TE_PRE_CLOSED",
                 "TE_PRE_AND_DESTROYED", "CLOSING_AND_DESTROYED",
                 "CLOSED_AND_DESTROYED", "CLOSED"}

\* Callbacks of the data channel library, and oneshots of the event loop.
Library == {"begin_cb", "write_eof", "send_eof"}
Closes == {"finish_fc", "abort_fc", "complete_fc"}
Oneshots == {"end", "end_read", "abort", "trev"}
\* Functions that have let go of the mutex and have more to do.
Rest == {"begin", "begin_abort", "begin_cb2", "abort_now", "end_now", "end2", "trev2", "post"}
Kinds == Library \cup Closes \cup Oneshots \cup Rest

VARIABLES
  op,        \* globus_l_gfs_data_operation_t of each request
  handle,    \* globus_l_gfs_data_handle_t: state, outstanding_op, freed
  session,   \* globus_l_gfs_data_session_t: ref, freed, DestroyCb pending
  channel,   \* does the library hold a transfer handle, is it closing it
  due,       \* due[o][k]: calls of kind k on their way for o
  broken,    \* an assertion failed, NULL was followed, a block freed twice
  ctl,       \* the control half's view of each request
  object,    \* state of its data object
  extended,  \* is the channel in MODE E
  reused     \* history: a request came after a transfer that Spoiled its channel

vars == <<op, handle, session, channel, due, broken, ctl, object, extended, reused>>
half == <<ctl, object, extended, reused>>

Data == [op |-> op, handle |-> handle, session |-> session,
         channel |-> channel, due |-> due, broken |-> broken]

Becomes(s) ==
  /\ op' = s.op /\ handle' = s.handle /\ session' = s.session
  /\ channel' = s.channel /\ due' = s.due /\ broken' = s.broken

Busy(o) == \E k \in Kinds : due[o][k] > 0
\* In the event loop nothing else runs while a function is between two regions.
Turn == Threads \/ \A o \in Ops, k \in Rest : due[o][k] = 0

\* It runs what is registered in that order: a marker comes before what the
\* end of its operation registers later.
TurnOf(o) == Turn /\ (Threads \/ due[o]["trev"] = 0)

Must(s, condition) == [s EXCEPT !.broken = @ \/ ~condition]
Later(s, o, k) == [s EXCEPT !.due[o][k] = @ + 1]
Taken(k, o) == [Data EXCEPT !.due[o][k] = @ - 1]

\* Slip: the callback is registered without one.
KeptByNobody(s, o) == s

\* A reference for a callback that is registered.
Kept(s, o) == [s EXCEPT !.op[o].ref = @ + 1]

NewOp(writes) ==
  [state |-> "REQUESTING", ref |-> 1, writing |-> writes, live |-> TRUE,
   begun |-> FALSE, finished |-> FALSE, failed |-> FALSE, delayed |-> FALSE, connectFailed |-> FALSE,
   hasHandle |-> TRUE, replies |-> 0, completes |-> 0, markers |-> 0,
   freeSession |-> FALSE, freeHandle |-> FALSE]

Init ==
  /\ op = [o \in Ops |-> [NewOp(FALSE) EXCEPT !.ref = 0, !.live = FALSE]]
  /\ handle = [state |-> "VALID", outstanding |-> None, freed |-> FALSE]
  /\ session = [ref |-> 1, freed |-> FALSE, destroyCb |-> FALSE]
  /\ channel = "open"
  /\ due = [o \in Ops |-> [k \in Kinds |-> 0]]
  /\ broken = FALSE
  /\ ctl = [o \in Ops |-> "idle"]
  /\ object = "ready"
  /\ extended \in BOOLEAN
  /\ reused = FALSE

----------------------------------------------------------------------------
\* Helpers the locked regions are made of.

\* globus_l_gfs_data_handle_free.  The library refuses to destroy a channel
\* that is not closed; then the handle leaks.
FreeHandle(s) ==
  LET t == Must(s, /\ s.handle.state \in {"CLOSING_AND_DESTROYED", "CLOSED_AND_DESTROYED"}
                   /\ ~s.handle.freed)
  IN IF s.channel = "none" \/ s.handle.state = "CLOSED_AND_DESTROYED"
       THEN [t EXCEPT !.handle.freed = TRUE] ELSE t

\* globus_ftp_control_data_force_close for operation o: CloseOr is the state
\* when the library has nothing to close and returns an error.
Close(s, o, k, CloseOr) ==
  IF s.channel = "open" THEN [Later(s, o, k) EXCEPT !.channel = "closing"] ELSE CloseOr

\* globus_l_gfs_data_check
Check(s) ==
  IF s.handle.state = "TE_PRE_AND_DESTROYED"
    THEN [s EXCEPT !.handle.state = "CLOSING_AND_DESTROYED"] ELSE s

\* Slip: the session's reference is not given back.
SessionKept(s) == s.session.ref

\* The operation's own reference of the session goes with it.
SessionLeft(s) == s.session.ref - 1

\* GFSDataOpDec.  Whoever drops the last reference tells the DSI of the end
\* (if it asked for events) and goes on with post_transfer_event_cb.
Decrement(s, o) ==
  LET last == s.op[o].ref = 1
      left == SessionLeft(s)
  IN IF ~last THEN [s EXCEPT !.op[o].ref = @ - 1]
     ELSE [Later(s, o, "post") EXCEPT
             !.op[o].ref = 0, !.session.ref = left,
             !.op[o].freeSession = (left = 0),
             !.op[o].completes = @ + (IF s.op[o].begun THEN 1 ELSE 0)]

Last(s, o) == s.op[o].ref = 0

\* The same with the assertion and the check its callers make.
Release(s, o) ==
  LET t == Decrement(s, o)
  IN IF Last(t, o) THEN Check(Must(t, t.op[o].state = "COMPLETING")) ELSE t

\* globus_l_gfs_data_fc_return
ForceCloseReturns(s, o) ==
  CASE s.handle.state = "CLOSING" -> [s EXCEPT !.handle.state = "TE_PRE_CLOSED"]
    [] s.handle.state = "CLOSING_AND_DESTROYED" ->
         [FreeHandle(s) EXCEPT !.op[o].hasHandle = FALSE]
    [] OTHER -> Must(s, FALSE)

\* Slip: an abort before the channel is connected closes nothing.
StartAbortLate(s, o) ==
  IF s.op[o].state = "CONNECTED"
    THEN [Close(Kept(s, o), o, "abort_fc", Later(Kept(s, o), o, "abort")) EXCEPT
            !.handle.state = "CLOSING", !.op[o].state = "ABORT_CLOSING"]
    ELSE [s EXCEPT !.op[o].state = "ABORTING"]

\* globus_l_gfs_data_start_abort
StartAbort(s, o) ==
  LET closing == [Kept(Must(s, s.handle.state = "INUSE"), o) EXCEPT
                    !.handle.state = "CLOSING", !.op[o].state = "ABORT_CLOSING"]
  IN CASE s.op[o].state = "REQUESTING" -> [s EXCEPT !.op[o].state = "ABORTING"]
       [] s.op[o].state \in {"CONNECTING", "CONNECTED"} ->
            IF s.op[o].connectFailed THEN Later(closing, o, "abort")
            ELSE Close(closing, o, "abort_fc", Later(closing, o, "abort"))
       [] OTHER -> s

\* globus_l_gfs_data_finish_connected, one stripe: a sender writes the last
\* block, whose callback comes later unless the channel is gone.
FinishConnected(s, o) ==
  IF ~s.op[o].writing THEN Later(s, o, "end_read")
  ELSE IF s.channel = "open" THEN Later(s, o, "write_eof") ELSE Later(s, o, "end")

\* globus_l_gfs_data_cb_error, which finds the operation through the handle.
CallbackError(s) ==
  IF s.handle.outstanding # None /\ s.handle.state = "INUSE"
    THEN [s EXCEPT !.handle.state = "TE_PRE_CLOSED"]
    ELSE Must(s, /\ s.handle.outstanding # None
                 /\ s.handle.state \in {"CLOSING", "CLOSING_AND_DESTROYED", "CLOSED"})

----------------------------------------------------------------------------
\* What the control half asks.  A request finds the data object ready, and in
\* the event loop the previous operation has had its COMPLETE event by then.

\* The storage module ended it with an error while its channel was still being
\* connected: the reply takes the channel for one that is as good as new, and
\* TRANSFER_COMPLETE will close it.  Nobody keeps the next request away.
Spoiled(p) == op[p].failed /\ op[p].delayed

\* globus_i_gfs_data_request_send, _recv, operation_init
Request(o, writes) ==
  /\ Turn /\ ctl[o] = "idle" /\ object = "ready"
  /\ \A p \in 1..(o - 1) : ctl[p] \in (IF Threads THEN {"replied", "ended"} ELSE {"ended"})
  /\ LET allowed == IF writes THEN {"VALID", "TE_VALID"} ELSE {"VALID"}
     IN Becomes([Must(Data, handle.state \in allowed) EXCEPT
                   !.op[o] = NewOp(writes), !.session.ref = @ + 1,
                   !.handle.outstanding = o, !.handle.state = "INUSE"])
  /\ ctl' = [ctl EXCEPT ![o] = "busy"]
  /\ object' = "inuse"
  /\ reused' = (reused \/ \E p \in 1..(o - 1) : Spoiled(p))
  /\ UNCHANGED extended

\* TRANSFER_ABORT in globus_i_gfs_data_request_transfer_event.  Also from
\* inside the BEGIN event, when the client aborted before it.
Abort(o) ==
  /\ "abort" \in Faults
  /\ Turn \/ due[o]["begin"] > 0
  /\ ctl[o] = "busy" /\ op[o].begun
  /\ Becomes(StartAbort(Data, o))
  /\ ctl' = [ctl EXCEPT ![o] = "aborted"]
  /\ UNCHANGED <<object, extended, reused>>

\* BYTES_RECVD or RANGES_RECVD, which the DSI left to the server.
Marker(o) ==
  /\ Turn /\ ctl[o] \in {"busy", "aborted"} /\ extended
  /\ op[o].state = "CONNECTED" /\ op[o].markers < MaxMarkers
  /\ Becomes([Kept(Later(Data, o, "trev"), o) EXCEPT !.op[o].markers = @ + 1])
  /\ UNCHANGED half

\* globus_l_gsc_event_done_cb sends TRANSFER_COMPLETE; then the data object
\* of a connection that was lost is destroyed.
ObjectEnds == IF object = "destroy_wait" THEN "destroying" ELSE object

Complete(o) ==
  /\ Turn /\ ctl[o] = "replied"
  /\ ctl' = [ctl EXCEPT ![o] = "ended"]
  /\ object' = ObjectEnds
  /\ UNCHANGED <<extended, reused>>
  /\ LET over == [Data EXCEPT !.op[o].state = "COMPLETING"]
         closing == [over EXCEPT !.handle.state = "CLOSING"]
     IN Becomes(CASE op[o].state = "FINISH" -> Release(over, o)
                  [] op[o].state = "FINISH_WITH_ERROR" ->
                       Close(closing, o, "complete_fc",
                             Release(ForceCloseReturns(closing, o), o))
                  [] OTHER -> Must(Data, FALSE))

\* globus_i_gfs_data_request_handle_destroy: the connection was lost, the
\* client opens another one, or it leaves.
DestroyHandle ==
  /\ Turn /\ \/ object = "destroying"
             \/ object = "ready" /\ (Threads \/ \A o \in Ops : ctl[o] # "replied")
             \/ object = "destroy_wait" /\ \A o \in Ops : ctl[o] \in {"idle", "ended"}
  /\ object' = "gone"
  /\ UNCHANGED <<ctl, extended, reused>>
  /\ LET closed == [Data EXCEPT !.handle.state = "CLOSING_AND_DESTROYED"]
     IN Becomes(
         CASE handle.state \in {"VALID", "TE_VALID"} ->
                IF channel = "open"
                  THEN [Data EXCEPT !.session.ref = @ + 1, !.session.destroyCb = TRUE,
                                    !.channel = "closing",
                                    !.handle.state = IF @ = "VALID" THEN "CLOSING_AND_DESTROYED"
                                                     ELSE "TE_PRE_AND_DESTROYED"]
                  ELSE [Data EXCEPT !.handle.state = "CLOSED_AND_DESTROYED"]
           [] handle.state = "INUSE" /\ handle.outstanding # None ->
                StartAbort(Data, handle.outstanding)
           [] handle.state \in {"CLOSING", "CLOSED"} -> FreeHandle(closed)
           [] handle.state = "TE_PRE_CLOSED" ->
                [Data EXCEPT !.handle.state = "TE_PRE_AND_DESTROYED"]
           [] OTHER -> Must(Data, FALSE))

\* globus_i_gfs_data_session_stop
SessionStop ==
  /\ Turn /\ object = "gone" /\ \A o \in Ops : ctl[o] \in {"idle", "ended"}
  /\ Becomes([Data EXCEPT !.session.ref = @ - 1, !.session.freed = session.ref = 1])
  /\ object' = "stopped"
  /\ UNCHANGED <<ctl, extended, reused>>

----------------------------------------------------------------------------
\* What the storage module calls, each once for an operation.

\* globus_gridftp_server_begin_transfer up to the BEGIN event.
Begin(o) ==
  /\ Turn /\ op[o].live /\ ~op[o].begun /\ ~op[o].finished
  /\ Becomes([Later(Data, o, "begin") EXCEPT !.op[o].begun = TRUE, !.op[o].ref = @ + 2])
  /\ UNCHANGED half

\* Its locked region.
BeginLocked(o) ==
  /\ due[o]["begin"] > 0
  /\ LET s == Taken("begin", o)
         abort == Kept(Later(s, o, "begin_abort"), o)
         connect == [Kept(Later(s, o, "begin_cb"), o) EXCEPT !.op[o].state = "CONNECTING"]
         Drop(t) == LET u == Decrement(t, o)
                    IN Must(u, Last(u, o) => u.op[o].state = "COMPLETING")
     IN \/ op[o].state = "REQUESTING" /\ channel = "open" /\ Becomes(Drop(connect))
        \/ /\ op[o].state = "REQUESTING" /\ (channel = "open" => "register" \in Faults)
           /\ Becomes(Drop([abort EXCEPT !.op[o].state = "ABORTING"]))
        \/ op[o].state = "ABORTING" /\ Becomes(Drop(abort))
        \/ /\ op[o].state \notin {"REQUESTING", "ABORTING"}
           /\ Becomes(Drop(Must(s, op[o].state \in {"ABORT_CLOSING", "FINISH", "COMPLETING"})))
  /\ UNCHANGED half

\* The DSI has been told to abort from inside begin_transfer.
BeginAborted(o) ==
  /\ due[o]["begin_abort"] > 0
  /\ LET s == Release(Taken("begin_abort", o), o)
     IN Becomes(IF Last(s, o) THEN [s EXCEPT !.handle.outstanding = None] ELSE s)
  /\ UNCHANGED half

\* globus_gridftp_server_finished_transfer, and its globus_l_gfs_data_force_close
Finish(o, good) ==
  /\ Turn \/ due[o]["begin_abort"] > 0
  /\ op[o].live /\ ~op[o].finished /\ due[o]["begin"] = 0
  /\ good \/ "dsi" \in Faults
  /\ LET s == [Data EXCEPT !.op[o].finished = TRUE, !.op[o].failed = ~good,
                           !.op[o].state = IF good \/ @ \in {"REQUESTING", "ABORTING", "ABORT_CLOSING"}
                                           THEN "FINISH" ELSE "FINISH_WITH_ERROR"]
     IN Becomes(
         CASE op[o].state = "CONNECTED" /\ good -> FinishConnected(s, o)
           [] op[o].state = "CONNECTED" /\ ~good ->
                CASE handle.state = "INUSE" -> [Later(s, o, "end") EXCEPT !.handle.state = "CLOSING"]
                  [] handle.state \in {"CLOSED", "CLOSING"} -> s
                  [] OTHER -> Must(s, FALSE)
           [] op[o].state \in {"CONNECT_CB", "CONNECTING"} -> [s EXCEPT !.op[o].delayed = TRUE]
           [] op[o].state \in {"ABORTING", "REQUESTING"} ->
                [Later(s, o, "end") EXCEPT
                   !.handle.state = IF @ = "VALID" THEN "TE_VALID" ELSE @]
           [] op[o].state = "ABORT_CLOSING" -> s
           [] OTHER -> Must(s, FALSE))
  /\ UNCHANGED half

----------------------------------------------------------------------------
\* Callbacks of the data channel library.

\* The peer goes away: what is written next fails.
LinkDown ==
  /\ "link" \in Faults /\ channel = "open" /\ \E o \in Ops : op[o].state = "CONNECTED"
  /\ channel' = "none"
  /\ UNCHANGED <<op, handle, session, due, broken, half>>

\* globus_l_gfs_data_begin_cb up to the CONNECTED event
BeginCb(o) ==
  /\ Turn /\ due[o]["begin_cb"] > 0
  /\ \E error \in BOOLEAN :
       /\ channel # "open" => error
       /\ error /\ channel = "open" => "connect" \in Faults
       /\ LET s == [Taken("begin_cb", o) EXCEPT !.channel = IF error /\ @ = "open" THEN "none" ELSE @]
              on == Later(s, o, "begin_cb2")
          IN Becomes(
              CASE op[o].state = "CONNECTING" /\ error ->
                     StartAbort([s EXCEPT !.op[o].connectFailed = TRUE], o)
                [] op[o].state = "CONNECTING" /\ ~error -> [on EXCEPT !.op[o].state = "CONNECT_CB"]
                [] op[o].state \in {"FINISH_WITH_ERROR", "FINISH", "ABORTING", "ABORT_CLOSING"} ->
                     Must(on, op[o].ref > 1)
                [] op[o].state = "COMPLETING" ->
                     IF op[o].ref = 1 THEN [on EXCEPT !.op[o].state = "COMPLETE"] ELSE on
                [] OTHER -> Must(on, FALSE))
  /\ UNCHANGED half

\* Its second region.
BeginCbEnds(o) ==
  /\ due[o]["begin_cb2"] > 0
  /\ LET s == [Taken("begin_cb2", o) EXCEPT
                 !.op[o].state = IF @ = "CONNECT_CB" THEN "CONNECTED" ELSE @]
         t == Decrement(s, o)
         u == IF Last(t, o) THEN Check(t) ELSE t
     IN Becomes(IF s.op[o].delayed THEN FinishConnected(u, o) ELSE u)
  /\ UNCHANGED half

\* globus_l_gfs_data_write_eof_cb.  In stream mode the library may have
\* closed the connection itself after the last block.
WriteEofCb(o) ==
  /\ TurnOf(o) /\ due[o]["write_eof"] > 0
  /\ LET s == Taken("write_eof", o)
         closing == [s EXCEPT !.handle.state = "CLOSING"]
         gone == [Later(s, o, "end_now") EXCEPT !.handle.state = "TE_PRE_CLOSED"]
     IN \/ channel # "open" /\ Becomes(Later(CallbackError(s), o, "end_now"))
        \/ channel = "open" /\ handle.state # "INUSE" /\ Becomes(s)
        \/ channel = "open" /\ handle.state = "INUSE" /\ extended /\ Becomes(Later(s, o, "send_eof"))
        \/ /\ channel = "open" /\ handle.state = "INUSE" /\ ~extended
           /\ \/ Becomes(Close(closing, o, "finish_fc", gone))
              \/ Becomes([gone EXCEPT !.channel = "none"])
  /\ UNCHANGED half

\* globus_l_gfs_data_send_eof_cb
SendEofCb(o) ==
  /\ TurnOf(o) /\ due[o]["send_eof"] > 0
  /\ LET s == Taken("send_eof", o)
     IN Becomes(Later(IF channel = "open" THEN s ELSE CallbackError(s), o, "end_now"))
  /\ UNCHANGED half

\* The close callback comes when every other callback of the channel is done.
Closed(k, o) == [Taken(k, o) EXCEPT !.channel = "none"]
Quiet == \A o \in Ops : TurnOf(o) /\ \A k \in Library : due[o][k] = 0

\* globus_l_gfs_data_finish_fc_cb
FinishFcCb(o) ==
  /\ Quiet /\ due[o]["finish_fc"] > 0
  /\ Becomes(Later(ForceCloseReturns(Closed("finish_fc", o), o), o, "end_now"))
  /\ UNCHANGED half

\* globus_l_gfs_data_abort_fc_cb
AbortFcCb(o) ==
  /\ Quiet /\ due[o]["abort_fc"] > 0
  /\ Becomes(Later(ForceCloseReturns(Closed("abort_fc", o), o), o, "abort_now"))
  /\ UNCHANGED half

\* globus_l_gfs_data_complete_fc_cb
CompleteFcCb(o) ==
  /\ Quiet /\ due[o]["complete_fc"] > 0
  /\ Becomes(Release(ForceCloseReturns(Closed("complete_fc", o), o), o))
  /\ UNCHANGED half

\* globus_l_gfs_data_destroy_cb
DestroyCb ==
  /\ Quiet /\ session.destroyCb
  /\ LET s == [Data EXCEPT !.channel = "none", !.session.destroyCb = FALSE,
                           !.session.ref = @ - 1, !.session.freed = session.ref = 1]
     IN Becomes(CASE handle.state = "CLOSING_AND_DESTROYED" -> FreeHandle(s)
                  [] handle.state \in {"TE_PRE_AND_DESTROYED", "CLOSING", "CLOSED"} -> s
                  [] OTHER -> Must(s, FALSE))
  /\ UNCHANGED half

----------------------------------------------------------------------------
\* The server's own callbacks.

\* Slip: nobody looks.
FinishedNever(o) == FALSE

\* The storage module may finish while its abort is on the way: then the end
\* was left to the abort.
FinishedMeanwhile(o) == op[o].state = "FINISH"

\* globus_l_gfs_data_abort_kickout
AbortKickout(o, k) ==
  /\ k = "abort" => TurnOf(o)
  /\ due[o][k] > 0
  /\ LET s == [Taken(k, o) EXCEPT !.op[o].state = IF @ = "ABORT_CLOSING" THEN "ABORTING" ELSE @]
         t == Decrement(Must(s, op[o].state \in {"FINISH", "ABORT_CLOSING"}), o)
         u == Must(t, ~Last(t, o))
     IN Becomes(IF FinishedMeanwhile(o) THEN Later(u, o, "end_now") ELSE u)
  /\ UNCHANGED half

\* globus_l_gfs_data_end_read_kickout
EndReadKickout(o) ==
  /\ TurnOf(o) /\ due[o]["end_read"] > 0
  /\ LET s == Taken("end_read", o)
         closing == [s EXCEPT !.handle.state = "CLOSING"]
         gone == [Later(s, o, "end_now") EXCEPT !.handle.state = "TE_PRE_CLOSED"]
     IN Becomes(CASE handle.state # "INUSE" -> s
                  [] handle.state = "INUSE" /\ extended -> Later(s, o, "end_now")
                  [] OTHER -> Close(closing, o, "finish_fc", gone))
  /\ UNCHANGED half

\* globus_gridftp_server_control_disconnected, _finished_transfer: the reply
\* makes the data object ready again unless the handle is disconnected.
ObjectAfter(lost) ==
  IF lost \/ object = "destroy_wait" THEN "destroy_wait" ELSE "ready"

\* globus_l_gfs_data_end_transfer_kickout up to the reply.
EndTransfer(o, k) ==
  /\ k = "end" => TurnOf(o)
  /\ due[o][k] > 0
  /\ LET s == [Later(Taken(k, o), o, "end2") EXCEPT
                 !.op[o].replies = @ + 1,
                 !.handle.state = IF @ = "INUSE" THEN "TE_VALID" ELSE @]
         lost == handle.state \in {"TE_PRE_CLOSED", "TE_PRE_AND_DESTROYED", "CLOSING"}
     IN /\ Becomes(Must(s, /\ op[o].hasHandle /\ object \in {"inuse", "destroy_wait"}
                           /\ lost \/ handle.state \in {"TE_VALID", "INUSE"}))
        /\ object' = ObjectAfter(lost)
  /\ ctl' = [ctl EXCEPT ![o] = IF op[o].begun THEN "replied" ELSE "ended"]
  /\ UNCHANGED <<extended, reused>>

\* Its second region.
EndTransferEnds(o) ==
  /\ due[o]["end2"] > 0
  /\ LET s == [Taken("end2", o) EXCEPT
                 !.handle.state = CASE @ = "TE_PRE_CLOSED" -> "CLOSING"
                                    [] @ = "TE_PRE_AND_DESTROYED" -> "CLOSING_AND_DESTROYED"
                                    [] OTHER -> @]
         t == Decrement(s, o)
     IN Becomes(CASE handle.state # "TE_PRE_AND_DESTROYED" -> IF Last(t, o) THEN Check(t) ELSE t
                  [] handle.state = "TE_PRE_AND_DESTROYED" /\ Last(t, o) ->
                       [Check(t) EXCEPT !.op[o].freeHandle = TRUE]
                  [] OTHER -> FreeHandle(t))
  /\ UNCHANGED half

\* globus_l_gfs_data_trev_kickout up to the control half's event callback
TrevKickout(o) ==
  /\ Turn /\ due[o]["trev"] > 0
  /\ Becomes(Must(Later(Taken("trev", o), o, "trev2"),
                  op[o].state \in {"CONNECTING", "CONNECTED", "ABORTING", "ABORT_CLOSING",
                                   "FINISH", "FINISH_WITH_ERROR"}))
  /\ UNCHANGED half

\* Its second region.
TrevKickoutEnds(o) ==
  /\ due[o]["trev2"] > 0
  /\ Becomes(Release(Taken("trev2", o), o))
  /\ UNCHANGED half

\* After the last reference went: globus_l_gfs_data_post_transfer_event_cb,
\* _fire_cb and _operation_destroy.
PostTransferEvent(o) ==
  /\ due[o]["post"] > 0
  /\ LET s == [Taken("post", o) EXCEPT
                 !.op[o].live = FALSE, !.session.freed = @ \/ op[o].freeSession]
         t == [s EXCEPT !.handle.outstanding = None,
                        !.handle.state = CASE @ = "TE_PRE_CLOSED" -> "CLOSED"
                                           [] @ = "TE_PRE_AND_DESTROYED" -> "CLOSING_AND_DESTROYED"
                                           [] @ = "TE_VALID" -> "VALID"
                                           [] OTHER -> @]
         u == Must(t, handle.state \notin {"CLOSED", "CLOSED_AND_DESTROYED"})
     IN Becomes(CASE ~op[o].hasHandle -> s
                  [] op[o].hasHandle /\ op[o].freeHandle -> FreeHandle(u)
                  [] OTHER -> u)
  /\ UNCHANGED half

----------------------------------------------------------------------------
Callback(o) ==
  \/ BeginLocked(o) \/ BeginAborted(o) \/ BeginCb(o) \/ BeginCbEnds(o)
  \/ WriteEofCb(o) \/ SendEofCb(o) \/ FinishFcCb(o) \/ AbortFcCb(o) \/ CompleteFcCb(o)
  \/ \E k \in {"abort", "abort_now"} : AbortKickout(o, k)
  \/ EndReadKickout(o) \/ \E k \in {"end", "end_now"} : EndTransfer(o, k)
  \/ EndTransferEnds(o) \/ TrevKickout(o) \/ TrevKickoutEnds(o) \/ PostTransferEvent(o)

Over == object = "stopped" /\ ~session.destroyCb /\ \A o \in Ops : ~Busy(o)

Next ==
  \/ \E o \in Ops :
       \/ \E writes \in BOOLEAN : Request(o, writes)
       \/ Begin(o) \/ \E good \in BOOLEAN : Finish(o, good)
       \/ Abort(o) \/ Marker(o) \/ Complete(o) \/ Callback(o)
  \/ DestroyHandle \/ SessionStop \/ LinkDown \/ DestroyCb
  \/ Over /\ UNCHANGED vars

Spec == Init /\ [][Next]_vars

\* Every callback runs, the storage module finishes what it was asked, the
\* client leaves in the end.
FairSpec ==
  /\ Spec
  /\ \A o \in Ops : /\ WF_vars(Callback(o))
                    /\ WF_vars(Complete(o))
                    /\ WF_vars(Begin(o) \/ \E good \in BOOLEAN : Finish(o, good))
  /\ WF_vars(DestroyHandle) /\ WF_vars(SessionStop) /\ WF_vars(DestroyCb)
----------------------------------------------------------------------------
TypeOK ==
  /\ DOMAIN op = Ops /\ \A o \in Ops : op[o].state \in OpStates /\ op[o].ref \in Nat
  /\ handle.state \in HandleStates /\ handle.outstanding \in Ops \cup {None}
  /\ session.ref \in Nat /\ channel \in {"open", "closing", "none"}
  /\ due \in [Ops -> [Kinds -> Nat]]
  /\ ctl \in [Ops -> {"idle", "busy", "aborted", "replied", "ended"}]
  /\ object \in {"ready", "inuse", "destroy_wait", "destroying", "gone", "stopped"}

\* The assertions of globus_i_gfs_data.c on the states, globus_assert(0) in its
\* switches and the ones of globus_i_gfs_data_request_send and _recv, are
\* right, and so are its unchecked uses of pointers: no state is met that they
\* exclude, no pointer to an operation or handle that is gone is followed,
\* nothing is freed twice.
AssertionsAreRight == ~broken

\* They are, but for the one way there is to make them fail: a request that
\* follows a transfer which spoiled its channel.
NoAssertionFails == AssertionsAreRight \/ reused

\* A callback on its way finds its operation, the handle and the session: the
\* reference counts keep them for as long as anything can touch them.  A
\* handle in use names the operation it belongs to, which has not been
\* answered yet (the data callbacks find their operation through it); only
\* after such a request may the end of one operation take it from the next.
PendingIsLive ==
  /\ \A o \in Ops : Busy(o) => /\ op[o].live /\ ~session.freed
                              /\ (op[o].hasHandle => ~handle.freed)
  /\ session.destroyCb => ~session.freed /\ ~handle.freed
  /\ handle.state = "INUSE" /\ ~reused =>
       /\ handle.outstanding # None
       /\ op[handle.outstanding].live /\ op[handle.outstanding].replies = 0

\* TRANSFER_COMPLETE is the last thing the storage module hears of a
\* transfer: it has finished it, one reply was given, and nothing is left to
\* do but to free the operation.
CompleteIsLast ==
  \A o \in Ops :
    /\ op[o].replies <= 1 /\ op[o].completes <= 1
    /\ op[o].completes = 1 =>
         /\ op[o].finished /\ op[o].replies = 1 /\ op[o].ref = 0
         /\ \A k \in Kinds \ {"post"} : due[o][k] = 0

\* Every request is answered, whatever fails and whenever it is aborted.
EveryRequestIsAnswered == \A o \in Ops : ctl[o] = "busy" ~> op[o].replies = 1

\* When the client has left, the session is freed, with the handle if the
\* channel could be closed; but for a data connection that failed.
SessionEnds ==
  object = "stopped" ~> session.freed \/ \E o \in Ops : op[o].connectFailed
============================================================================
