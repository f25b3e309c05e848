---------------------------- MODULE InstrFetch -----------------------------
(***************************************************************************)
(* Fetch stage of the pipeline: sc/rtl/riverlib/core/fetch.cpp.  It holds  *)
(* one address on the bus of the instruction cache, waits for the answer   *)
(* and may hand over the next address in the clock of the answer.          *)
(***************************************************************************)
EXTENDS Integers

CONSTANTS
    NoPc,       \* the address ~0
    Buffer,     \* address and contents of the program buffer
    None

VARIABLE f      \* InstrFetch_registers

FetchStates == {"Idle", "WaitReqAccept", "WaitResp"}

FInit == f = [state |-> "Idle", req_valid |-> FALSE, resp_ready |-> FALSE,
              req_addr |-> NoPc, mem_resp_shadow |-> NoPc, pc |-> NoPc,
              instr |-> None, fault |-> FALSE, progbuf_ena |-> FALSE]

(***************************************************************************)
(* fin is the record of the inputs of a clock:                             *)
(*   bp_pc : an address;  progbuf_ena, flush, ready : BOOLEAN;             *)
(*   mem : None or [data, addr, fault].                                    *)
(* i_bp_valid is constantly one (bp.cpp).                                  *)
(***************************************************************************)
FetchIdle(fin) ==
    LET q == [f EXCEPT !.req_valid = FALSE, !.resp_ready = FALSE, !.progbuf_ena = FALSE]
    IN  IF fin.progbuf_ena
        THEN [q EXCEPT !.progbuf_ena = TRUE, !.pc = Buffer, !.instr = Buffer,
                       !.fault = FALSE]
        ELSE [q EXCEPT !.state = "WaitReqAccept", !.req_addr = fin.bp_pc,
                       !.req_valid = TRUE]

FetchWaitReqAccept(fin) ==
    IF fin.ready
    THEN [f EXCEPT !.req_valid = ~fin.progbuf_ena, !.req_addr = fin.bp_pc,
                   !.mem_resp_shadow = f.req_addr, !.resp_ready = TRUE,
                   !.state = "WaitResp"]
    ELSE [f EXCEPT !.req_addr = fin.bp_pc]

\* an address that was not taken in the clock of the answer is forgotten
FetchWaitResp_NoRetry(fin) ==
    IF fin.mem = None THEN f
    ELSE LET q == [f EXCEPT !.pc = fin.mem.addr, !.instr = fin.mem.data,
                            !.fault = fin.mem.fault, !.req_valid = ~fin.progbuf_ena]
         IN  IF f.req_valid
             THEN IF fin.ready
                  THEN [q EXCEPT !.req_addr = fin.bp_pc, !.mem_resp_shadow = f.req_addr]
                  ELSE [q EXCEPT !.req_valid = FALSE]
             ELSE IF ~fin.progbuf_ena
             THEN [q EXCEPT !.req_addr = fin.bp_pc, !.state = "WaitReqAccept"]
             ELSE [q EXCEPT !.req_addr = NoPc, !.state = "Idle"]

\* the next address is requested although the program buffer is to be executed
FetchWaitResp_IgnoresHalt(fin) ==
    IF fin.mem = None THEN f
    ELSE LET q == [f EXCEPT !.pc = fin.mem.addr, !.instr = fin.mem.data,
                            !.fault = fin.mem.fault, !.req_valid = ~fin.progbuf_ena]
         IN  IF f.req_valid
             THEN IF fin.ready
                  THEN [q EXCEPT !.req_addr = fin.bp_pc, !.mem_resp_shadow = f.req_addr]
                  ELSE [q EXCEPT !.state = "WaitReqAccept"]
             ELSE [q EXCEPT !.req_addr = fin.bp_pc, !.state = "WaitReqAccept"]

FetchWaitResp(fin) ==
    IF fin.mem = None THEN f
    ELSE LET q == [f EXCEPT !.pc = fin.mem.addr, !.instr = fin.mem.data,
                            !.fault = fin.mem.fault, !.req_valid = ~fin.progbuf_ena]
         IN  IF f.req_valid
             THEN IF fin.ready
                  THEN [q EXCEPT !.req_addr = fin.bp_pc, !.mem_resp_shadow = f.req_addr]
                  ELSE [q EXCEPT !.state = "WaitReqAccept"]
             ELSE IF ~fin.progbuf_ena
             THEN [q EXCEPT !.req_addr = fin.bp_pc, !.state = "WaitReqAccept"]
             ELSE [q EXCEPT !.req_addr = NoPc, !.state = "Idle"]

FetchNext(fin) ==
    LET q == CASE f.state = "Idle" -> FetchIdle(fin)
               [] f.state = "WaitReqAccept" -> FetchWaitReqAccept(fin)
               [] f.state = "WaitResp" -> FetchWaitResp(fin)
    IN  IF fin.flush
        THEN [q EXCEPT !.req_valid = FALSE, !.pc = NoPc, !.instr = None, !.fault = FALSE]
        ELSE q
============================================================================
