------------------------------- MODULE AxiSlv -------------------------------
(***************************************************************************)
(* The AXI slave adapter: sc/rtl/ambalib/axi_slv.cpp and .h.  It turns the *)
(* five channels into a request port (valid, write, addr, data, last) and  *)
(* a response port towards one device.                                     *)
(*                                                                         *)
(* The operators take the registers x of one adapter and the inputs of one *)
(* clock and give the next registers, or an output.  The channels from the *)
(* bus are                                                                 *)
(*   si = [aw, w, ar, b_ready, r_ready]                                    *)
(* with aw, ar = [addr, len, id, incr] or None, w = [data, strb] or None.  *)
(* The device gives ready (it takes the request) and resp = [data, err] or *)
(* None.  An address is the number of a bus word in the 4 KB page of the   *)
(* device; incr tells an incrementing burst from a fixed one, and from a   *)
(* wrapping one, which stays on its word, too.                             *)
(***************************************************************************)
EXTENDS Integers

CONSTANTS
    PageWords,  \* bus words in the page that a burst does not leave
    Values,     \* contents of a word
    Ids,        \* transaction identifiers
    MaxLen,     \* longest burst, in beats after the first
    None

SlvStates == {"Idle", "w", "burst_w", "addr_r", "data_r", "out_r", "b"}

SlvRegisters ==
    [state : SlvStates, req_valid : BOOLEAN, req_addr : 0 .. PageWords - 1,
     req_write : BOOLEAN, req_wdata : Values, req_wstrb : BOOLEAN,
     req_len : 0 .. MaxLen, req_id : Ids \cup {None}, req_incr : BOOLEAN,
     req_last_a : BOOLEAN, req_last_r : BOOLEAN, req_done : BOOLEAN,
     resp_valid : BOOLEAN, resp_last : BOOLEAN, resp_rdata : Values,
     resp_err : BOOLEAN]

SlvReset ==
    [state |-> "Idle", req_valid |-> FALSE, req_addr |-> 0, req_write |-> FALSE,
     req_wdata |-> 0, req_wstrb |-> FALSE, req_len |-> 0, req_id |-> None,
     req_incr |-> FALSE, req_last_a |-> FALSE, req_last_r |-> FALSE,
     req_done |-> FALSE, resp_valid |-> FALSE, resp_last |-> FALSE,
     resp_rdata |-> 0, resp_err |-> FALSE]

\* vb_req_addr_next and vb_req_len_next
AddrNext(x) == IF x.req_incr THEN (x.req_addr + 1) % PageWords ELSE x.req_addr
LenNext(x) == IF x.req_len = 0 THEN 0 ELSE x.req_len - 1

----------------------------------------------------------------------------
\* The registers after a clock, by state.

Started(x, a) ==
    [x EXCEPT !.req_addr = a.addr, !.req_len = a.len, !.req_id = a.id, !.req_incr = a.incr]

SlvIdle(x, si) ==
    LET y == [x EXCEPT !.req_done = FALSE, !.req_valid = FALSE, !.req_write = FALSE,
                       !.resp_valid = FALSE, !.resp_last = FALSE, !.resp_err = FALSE]
    IN  IF si.aw # None
        THEN IF si.w # None     \* address and data together, as in AXI Lite
             THEN [Started(y, si.aw) EXCEPT !.state = "burst_w", !.req_valid = TRUE,
                      !.req_write = TRUE, !.req_wdata = si.w.data,
                      !.req_wstrb = si.w.strb, !.req_last_a = si.aw.len = 0]
             ELSE [Started(y, si.aw) EXCEPT !.state = "w"]
        ELSE IF si.ar # None
        THEN [Started(y, si.ar) EXCEPT !.state = "addr_r", !.req_valid = TRUE,
                 !.req_last_a = si.ar.len = 0]
        ELSE y

SlvW(x, si) ==
    IF si.w = None THEN x
    ELSE [x EXCEPT !.req_wdata = si.w.data, !.req_wstrb = si.w.strb, !.req_valid = TRUE,
                   !.req_write = TRUE, !.req_last_a = LenNext(x) = 0, !.state = "burst_w"]

SlvBurstW(x, si, ready) ==
    LET y == IF si.w # None
             THEN [x EXCEPT !.req_valid = TRUE, !.req_wdata = si.w.data,
                            !.req_wstrb = si.w.strb]
             ELSE IF ready THEN [x EXCEPT !.req_valid = FALSE] ELSE x
    IN  IF ~(x.req_valid /\ ready) THEN y
        ELSE IF x.req_len # 0
        THEN [y EXCEPT !.req_done = TRUE, !.req_addr = AddrNext(x),
                       !.req_last_a = LenNext(x) = 0, !.req_len = @ - 1]
        ELSE [y EXCEPT !.req_done = TRUE, !.req_addr = AddrNext(x),
                       !.req_last_a = FALSE, !.req_write = FALSE, !.state = "b"]

SlvB(x, si, resp) ==
    IF si.b_ready /\ resp # None
    THEN [x EXCEPT !.req_done = FALSE, !.state = "Idle"] ELSE x

\* the device takes the address of a beat; the next one is offered behind it
Advanced(x, y, more) ==
    [y EXCEPT !.req_addr = AddrNext(x), !.req_len = LenNext(x),
              !.req_last_a = LenNext(x) = 0, !.req_last_r = x.req_last_a,
              !.req_valid = more, !.req_done = TRUE]

SlvAddrR(x, ready) ==
    IF ready THEN [Advanced(x, x, x.req_len # 0) EXCEPT !.state = "data_r"] ELSE x

SlvDataR(x, si, ready, resp) ==
    LET y == IF resp # None /\ x.req_done
             THEN [x EXCEPT !.req_done = FALSE, !.resp_valid = TRUE,
                            !.resp_last = x.req_last_r, !.resp_rdata = resp.data,
                            !.resp_err = resp.err,
                            !.state = IF x.req_last_r THEN "out_r" ELSE @]
             ELSE IF si.r_ready THEN [x EXCEPT !.resp_valid = FALSE] ELSE x
    IN  IF x.req_valid /\ ready
        THEN Advanced(x, y, ~x.req_last_a /\ si.r_ready)
        ELSE [y EXCEPT !.req_valid = ~x.req_last_r /\ si.r_ready]

SlvOutR(x, si) ==
    IF si.r_ready
    THEN [x EXCEPT !.req_last_a = FALSE, !.req_last_r = FALSE, !.resp_last = FALSE,
                   !.resp_valid = FALSE, !.state = "Idle"]
    ELSE x

SlvNext(x, si, ready, resp) ==
    CASE x.state = "Idle"    -> SlvIdle(x, si)
      [] x.state = "w"       -> SlvW(x, si)
      [] x.state = "burst_w" -> SlvBurstW(x, si, ready)
      [] x.state = "b"       -> SlvB(x, si, resp)
      [] x.state = "addr_r"  -> SlvAddrR(x, ready)
      [] x.state = "data_r"  -> SlvDataR(x, si, ready, resp)
      [] x.state = "out_r"   -> SlvOutR(x, si)

----------------------------------------------------------------------------
\* Outputs to the bus: the ready signals, and the responses or None.

SlvAwReady(x) == x.state = "Idle"
\* ready for a read although a write is taken in the same clock
SlvArReady_WithAw(x, aw) == x.state = "Idle"
SlvArReady(x, aw) == x.state = "Idle" /\ aw = None
SlvWReady(x, ready) == \/ x.state \in {"Idle", "w"}
                       \/ x.state = "burst_w" /\ ready
SlvBOut(x, resp) ==
    IF x.state = "b" /\ resp # None THEN [id |-> x.req_id, err |-> resp.err] ELSE None
SlvROut(x) ==
    IF x.resp_valid
    THEN [id |-> x.req_id, data |-> x.resp_rdata, last |-> x.resp_last, err |-> x.resp_err]
    ELSE None
============================================================================
