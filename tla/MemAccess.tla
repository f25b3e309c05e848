----------------------------- MODULE MemAccess -----------------------------
(***************************************************************************)
(* Memory access stage: sc/rtl/riverlib/core/memaccess.cpp and .h.         *)
(*                                                                         *)
(* An operation is a record with fields op ("load", "store" or "flush"),   *)
(* rd (the register a load writes), ena (the translation mode it was       *)
(* issued in) and debug (it is one of the debugger); what else it carries  *)
(* is passed on.                                                           *)
(***************************************************************************)
EXTENDS Integers

CONSTANT None   \* no operation, no response

AccessStates == {"Idle", "WaitReqAccept", "WaitResponse", "Hold"}

AccessReset == [state |-> "Idle", valid |-> FALSE, job |-> None, hold |-> None]

(***************************************************************************)
(* a : the registers;  q : the head of the queue, or None;  in : inputs    *)
(*   resp : i_mem_data_valid, None or [data, fault, page_fault];           *)
(*   wb_ready, ready : BOOLEAN.                                            *)
(***************************************************************************)
\* memop_res_wena
WritesReg(j) == j.op = "load" /\ j.rd # 0

\* the operation writes a register and the write-back stage is busy
Holds(a, in) == WritesReg(a.job) /\ ~a.job.debug /\ ~in.wb_ready

\* the operation in flight ends in this clock: v_valid
Finishes(a, in) ==
    \/ a.state = "WaitResponse" /\ in.resp # None /\ ~Holds(a, in)
    \/ a.state = "Hold" /\ in.wb_ready

\* o_valid or o_debug_valid
Completes(a, in) == a.valid \/ Finishes(a, in)

QueueRe(a, in) == a.state = "Idle" \/ Finishes(a, in)

\* a flush is taken ahead of the operation that is still in flight
Flushd_Early(a, q, in) == q # None /\ q.op = "flush"

\* o_flushd: a pulse to the data cache when the flush leaves the queue
Flushd(a, q, in) == q # None /\ q.op = "flush" /\ QueueRe(a, in)

\* o_mem_*: the head of the queue as it is taken, or the operation that waits
Offered(a, q, in) ==
    IF a.state = "WaitReqAccept" THEN a.job
    ELSE IF q # None /\ q.op # "flush" /\ QueueRe(a, in) THEN q
    ELSE None

\* o_mmu_ena
MmuEna(a, q) == IF a.state = "WaitReqAccept" THEN a.job.ena ELSE q # None /\ q.ena

\* o_wb_wdata of an operation that writes a register
WbData(a, in) == IF a.state = "Hold" THEN a.hold ELSE in.resp.data

Take(a, q, in) ==
    [a EXCEPT !.job = q, !.valid = q.op = "flush",
              !.state = IF q.op = "flush" THEN "Idle"
                        ELSE IF in.ready THEN "WaitResponse" ELSE "WaitReqAccept"]

\* a completed operation is followed by the next one without an idle clock
AccessNext(a, q, in) ==
    LET n == [a EXCEPT !.valid = FALSE]
    IN  IF QueueRe(a, in) THEN IF q # None THEN Take(n, q, in) ELSE [n EXCEPT !.state = "Idle"]
        ELSE IF a.state = "WaitReqAccept" /\ in.ready THEN [n EXCEPT !.state = "WaitResponse"]
        ELSE IF a.state = "WaitResponse" /\ in.resp # None
        THEN [n EXCEPT !.state = "Hold", !.hold = in.resp.data]
        ELSE n
============================================================================
