------------------------------- MODULE ApbBus -------------------------------
(***************************************************************************)
(* The peripheral bus, clock by clock: the adapter AxiSlv in front of the  *)
(* bridge sc/rtl/ambalib/axi2apb_bus1.cpp, the adapter apb_slv.cpp in      *)
(* front of every peripheral, and the registers of the peripheral.         *)
(*                                                                         *)
(* The bus word has two halves of 32 bits, 0 and 1; a peripheral has one   *)
(* register per half.  One master sends single accesses of 4 or 8 bytes,   *)
(* or a burst.  Bus words outside of every peripheral are unmapped.        *)
(***************************************************************************)
EXTENDS Integers

CONSTANTS
    ND,         \* peripherals, one bus word each; bus word ND is unmapped
    Reg,        \* contents of a register
    Bursts,     \* whether the master sends bursts
    None

ASSUME ApbAssumption == ND \in Nat \ {0} /\ 0 \in Reg /\ Bursts \in BOOLEAN

Devices == 0 .. ND - 1
Half == {0, 1}
Pair == [Half -> Reg]
Zeros == [h \in Half |-> 0]

\* what travels with a request through the adapter: its size and first half
Shapes == {[size |-> 8, half |-> 0], [size |-> 4, half |-> 0], [size |-> 4, half |-> 1]}

\* None is told from a request, a beat, a response and a shape
ASSUME NoneAssumption ==
    /\ None \notin [write : BOOLEAN, addr : 0 .. ND, len : {0, 1}, shape : Shapes, data : Pair]
    /\ None \notin [addr : 0 .. ND, len : {0, 1}, id : Shapes, incr : {TRUE}]
    /\ None \notin [data : Pair, strb : {TRUE}] \cup [data : Pair, err : BOOLEAN] \cup Shapes
    /\ None \notin [id : Shapes, err : BOOLEAN] \cup {"misled", "unrefused", "stale", "good"}
    /\ None \notin [id : Shapes, data : Pair, last : BOOLEAN, err : BOOLEAN]

S == INSTANCE AxiSlv WITH PageWords <- ND + 1, Values <- Pair, Ids <- Shapes,
                          MaxLen <- 1

VARIABLES
    req,    \* request of the master: [write, addr, len, shape, data], or None
    phase,  \* of the request: "addr", "data", "wait", or "rest" without one
    got,    \* beats that the master has received
    x,      \* registers of the AXI adapter
    b,      \* registers of the bridge
    p,      \* registers of the APB adapter of each peripheral
    d,      \* peripherals: registers and the response of the last clock
    golden, \* registers as the answered writes left them
    told,   \* judgement on the answer of the last clock, or None
    clk

vars == <<req, phase, got, x, b, p, d, golden, told, clk>>

BridgeReset ==
    [state |-> "Idle", selidx |-> 0, pvalid |-> FALSE, phalf |-> 0,
     pwdata |-> 0, prdata |-> Zeros, pwrite |-> FALSE, pselx |-> FALSE,
     penable |-> FALSE, pslverr |-> FALSE, size |-> 0]
PslvReset ==
    [state |-> "Idle", req_valid |-> FALSE, req_half |-> 0, req_write |-> FALSE,
     req_wdata |-> 0, resp_valid |-> FALSE, resp_rdata |-> 0]

Init ==
    /\ req = None /\ phase = "rest" /\ got = 0
    /\ x = [S!SlvReset EXCEPT !.req_wdata = Zeros, !.resp_rdata = Zeros]
    /\ b = BridgeReset
    /\ p = [i \in Devices |-> PslvReset]
    /\ d = [i \in Devices |-> [regs |-> Zeros, resp_valid |-> FALSE, resp_rdata |-> 0]]
    /\ golden = [i \in Devices |-> Zeros]
    /\ told = None /\ clk = FALSE

----------------------------------------------------------------------------
\* The adapter of a peripheral, with the bridge at i if it is selected.
Pselx(i) == b.selidx = i /\ b.pselx
Penable(i) == b.selidx = i /\ b.penable

PslvNext(i) ==
    LET y == [p[i] EXCEPT !.req_valid = FALSE]
    IN  CASE p[i].state = "Idle" ->
               IF Pselx(i)
               THEN [y EXCEPT !.state = "Request", !.req_valid = TRUE, !.resp_valid = FALSE,
                              !.req_half = b.phalf, !.req_write = b.pwrite,
                              !.req_wdata = b.pwdata]
               ELSE [y EXCEPT !.resp_valid = FALSE]
          [] p[i].state = "Request" -> [y EXCEPT !.state = "WaitResp"]
          [] p[i].state = "WaitResp" ->
               IF d[i].resp_valid
               THEN [y EXCEPT !.resp_valid = TRUE, !.resp_rdata = d[i].resp_rdata,
                              !.state = "Resp"]
               ELSE [y EXCEPT !.resp_valid = FALSE]
          [] p[i].state = "Resp" ->
               IF Penable(i) THEN [y EXCEPT !.state = "Idle", !.resp_valid = FALSE] ELSE y

\* a peripheral answers in the clock after the request
DeviceNext(i) ==
    [regs |-> IF p[i].req_valid /\ p[i].req_write
              THEN [d[i].regs EXCEPT ![p[i].req_half] = p[i].req_wdata] ELSE d[i].regs,
     resp_valid |-> p[i].req_valid,
     resp_rdata |-> d[i].regs[p[i].req_half]]

----------------------------------------------------------------------------
\* The bridge.  Index ND is the default slave, which is always ready.
Pready(i) == i = ND \/ p[i].resp_valid
Prdata(i) == IF i = ND THEN 0 ELSE p[i].resp_rdata

BridgeIdle ==
    LET half == IF x.req_id = None THEN 0 ELSE x.req_id.half
        y == [b EXCEPT !.pvalid = FALSE, !.pslverr = FALSE, !.penable = FALSE,
                       !.pselx = FALSE, !.selidx = x.req_addr]
    IN  IF ~x.req_valid THEN y
        ELSE IF x.req_last_a
        THEN [y EXCEPT !.pwrite = x.req_write, !.pselx = TRUE, !.state = "setup",
                       !.phalf = half,
                       !.pwdata = x.req_wdata[half], !.size = x.req_id.size]
        ELSE [y EXCEPT !.pwrite = x.req_write, !.pslverr = TRUE, !.state = "out"]

(***************************************************************************)
(* The end of a transfer: lane is where the register is put in the bus     *)
(* word, err the error, more says that the other half follows, and valid   *)
(* that the answer is given otherwise.                                     *)
(***************************************************************************)
Transferred(lane, err, more, valid) ==
    LET y == [b EXCEPT !.pslverr = err, !.penable = FALSE, !.prdata[lane] = Prdata(b.selidx)]
    IN  IF ~Pready(b.selidx) THEN [b EXCEPT !.pvalid = FALSE, !.pslverr = err]
        ELSE IF more
        THEN [y EXCEPT !.pvalid = FALSE, !.size = @ - 4, !.phalf = 1, !.state = "setup",
                       !.pwdata = x.req_wdata[1]]
        ELSE [y EXCEPT !.pvalid = valid, !.state = "out", !.pselx = FALSE, !.pwrite = FALSE]
\* the first half only
BridgeAccess_OneHalf == Transferred(b.phalf, b.selidx = ND, FALSE, TRUE)
\* both halves in the lower lane
BridgeAccess_LowLane == Transferred(0, b.selidx = ND, b.size > 4, TRUE)
\* the default slave gives no answer
BridgeAccess_NoAnswer == Transferred(b.phalf, b.selidx = ND, b.size > 4, b.selidx # ND)
BridgeAccess == Transferred(b.phalf, b.selidx = ND, b.size > 4, TRUE)

BridgeOut == [b EXCEPT !.pvalid = FALSE, !.pslverr = FALSE, !.state = "Idle"]

BridgeNext ==
    CASE b.state = "Idle"   -> BridgeIdle
      [] b.state = "setup"  -> [b EXCEPT !.pvalid = FALSE, !.penable = TRUE, !.state = "access"]
      [] b.state = "access" -> BridgeAccess
      [] b.state = "out"    -> BridgeOut

----------------------------------------------------------------------------
Touched(q) == {h \in Half : h >= q.shape.half /\ h < q.shape.half + q.shape.size \div 4}

Requests ==
    {q \in [write : BOOLEAN, addr : 0 .. ND, len : IF Bursts THEN {0, 1} ELSE {0},
            shape : Shapes, data : Pair] :
        /\ \A h \in Half : ~q.write \/ h \notin Touched(q) => q.data[h] = 0
        /\ q.len > 0 => q.shape.size = 8 /\ q.addr < ND - 1}

Judge(data, err) ==
    IF req.len > 0 THEN IF err THEN "good" ELSE "unrefused"
    ELSE IF err # (req.addr = ND) THEN "misled"
    ELSE IF ~err /\ ~req.write /\ \E h \in Touched(req) : data[h] # golden[req.addr][h]
    THEN "stale" ELSE "good"

Addr(q) == [addr |-> q.addr, len |-> q.len, id |-> q.shape, incr |-> TRUE]

Clock ==
    LET ready == b.state = "Idle"
        resp == IF b.pvalid THEN [data |-> b.prdata, err |-> b.pslverr] ELSE None
        aw == IF phase = "addr" /\ req.write THEN Addr(req) ELSE None
        ar == IF phase = "addr" /\ ~req.write THEN Addr(req) ELSE None
        w == IF phase = "data" THEN [data |-> req.data, strb |-> TRUE] ELSE None
        rr == S!SlvROut(x)      bb == S!SlvBOut(x, resp)
        addr_ok == \/ aw # None /\ S!SlvAwReady(x)
                   \/ ar # None /\ S!SlvArReady(x, aw)
        w_ok == w # None /\ S!SlvWReady(x, ready)
        done == \/ rr # None /\ got = req.len
                \/ bb # None
    IN  /\ x' = S!SlvNext(x, [aw |-> aw, ar |-> ar, w |-> w, b_ready |-> TRUE,
                              r_ready |-> TRUE], ready, resp)
        /\ b' = BridgeNext
        /\ p' = [i \in Devices |-> PslvNext(i)]
        /\ d' = [i \in Devices |-> DeviceNext(i)]
        /\ clk' = ~clk
        /\ told' = IF ~done THEN None
                   ELSE IF bb # None THEN Judge(Zeros, bb.err) ELSE Judge(rr.data, rr.err)
        /\ golden' = IF bb # None /\ ~bb.err /\ req.addr # ND
                     THEN [golden EXCEPT ![req.addr] =
                             [h \in Half |-> IF h \in Touched(req) THEN req.data[h] ELSE @[h]]]
                     ELSE golden
        /\ IF phase = "rest"
           THEN \/ UNCHANGED <<req, phase, got>>
                \/ req' \in Requests /\ phase' = "addr" /\ got' = 0
           ELSE /\ req' = IF done THEN None ELSE req
                /\ phase' = IF done THEN "rest"
                            ELSE IF addr_ok THEN IF req.write THEN "data" ELSE "wait"
                            ELSE IF w_ok /\ got = req.len THEN "wait" ELSE phase
                /\ got' = IF done \/ addr_ok THEN 0
                          ELSE IF (rr # None \/ w_ok) /\ got < req.len THEN got + 1 ELSE got

Next == Clock

Spec == Init /\ [][Next]_vars /\ WF_clk(clk' = ~clk)

----------------------------------------------------------------------------
TypeOK ==
    /\ req \in Requests \cup {None}
    /\ phase \in {"rest", "addr", "data", "wait"} /\ got \in {0, 1}
    /\ x \in S!SlvRegisters
    /\ b \in [state : {"Idle", "setup", "access", "out"}, selidx : 0 .. ND, pvalid : BOOLEAN,
              phalf : Half, pwdata : Reg, prdata : Pair,
              pwrite : BOOLEAN, pselx : BOOLEAN, penable : BOOLEAN, pslverr : BOOLEAN,
              size : {0, 4, 8}]
    /\ b.state \in {"setup", "access"} => b.size # 0
    /\ p \in [Devices -> [state : {"Idle", "Request", "WaitResp", "Resp"}, req_valid : BOOLEAN,
                          req_half : Half, req_write : BOOLEAN, req_wdata : Reg,
                          resp_valid : BOOLEAN, resp_rdata : Reg]]
    /\ d \in [Devices -> [regs : Pair, resp_valid : BOOLEAN, resp_rdata : Reg]]
    /\ golden \in [Devices -> Pair]
    /\ told \in {None, "misled", "unrefused", "stale", "good"}

(***************************************************************************)
(* A read of one or both registers of a bus word gives what was written    *)
(* last, although an access of 8 bytes is two transfers on the peripheral  *)
(* bus and the second half is taken from the adapter between them; an      *)
(* error is answered to an access outside of every peripheral, and only    *)
(* then (State_access of axi2apb_bus1.cpp).                                *)
(***************************************************************************)
ReadsLastWrite == told \notin {"stale", "misled"}

(***************************************************************************)
(* Between requests nothing is left over in the chain of state machines,   *)
(* and every peripheral holds what the answered writes left: no access is  *)
(* executed twice or after its answer.                                     *)
(***************************************************************************)
QuietAtRest ==
    /\ TypeOK
    /\ phase = "rest" /\ told = None =>
        /\ x.state = "Idle" /\ ~x.req_valid /\ b.state = "Idle" /\ ~b.pselx
        /\ \A i \in Devices : /\ p[i].state = "Idle" /\ ~p[i].req_valid
                              /\ d[i].regs = golden[i]

\* the bridge answers every request of the master
RequestAnswered == req # None ~> told # None

(***************************************************************************)
(* A burst, which the bridge does not support, is answered by an error.    *)
(***************************************************************************)
BurstRefused == told # "unrefused"
============================================================================
