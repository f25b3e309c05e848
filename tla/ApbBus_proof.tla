---------------------------- MODULE ApbBus_proof ----------------------------
(***************************************************************************)
(* Proofs about the peripheral bus, for every number of peripherals and    *)
(* every content of their registers, with a master that sends no burst.    *)
(*                                                                         *)
(* The inductive invariant ApbInv follows one request through the chain:   *)
(* the adapter of the bus (AdapterInv), the bridge with the half of the    *)
(* bus word it transfers (BridgeInv), the peripheral (SlaveInv), and what  *)
(* the registers and the response hold by then (RegsInv, ReadInv).  Every  *)
(* stage of a request has a lemma ..Keeps (AccessWaits for the clocks in   *)
(* which the bridge waits): its clock keeps the invariant.                 *)
(***************************************************************************)
EXTENDS ApbBus, TLAPS

\* the halves of the request that come before half h
Before(h) == {g \in Touched(req) : g < h}

\* nothing is under way in the bridge and in a peripheral
BridgeQuiet ==
    b.state = "Idle" /\ ~b.pvalid /\ ~b.pselx /\ ~b.penable /\ ~b.pslverr
SlaveQuiet(i) ==
    p[i].state = "Idle" /\ ~p[i].req_valid /\ ~p[i].resp_valid

\* the request is in the bridge
Under == phase = "wait" /\ x.state \in {"b", "data_r"}

\* types of the registers
Bridges ==
    [state : {"Idle", "setup", "access", "out"}, selidx : 0 .. ND, pvalid : BOOLEAN,
     phalf : Half, pwdata : Reg, prdata : Pair, pwrite : BOOLEAN, pselx : BOOLEAN,
     penable : BOOLEAN, pslverr : BOOLEAN, size : {0, 4, 8}]
Adapters ==
    [state : {"Idle", "Request", "WaitResp", "Resp"}, req_valid : BOOLEAN, req_half : Half,
     req_write : BOOLEAN, req_wdata : Reg, resp_valid : BOOLEAN, resp_rdata : Reg]
Peripherals == [regs : Pair, resp_valid : BOOLEAN, resp_rdata : Reg]

\* types of the variables; the master is told nothing wrong
TypeInv ==
    /\ req \in Requests \cup {None} /\ (req = None <=> phase = "rest")
    /\ phase \in {"rest", "addr", "data", "wait"} /\ got = 0
    /\ x \in S!SlvRegisters
    /\ b \in Bridges
    /\ b.state \in {"setup", "access"} => b.size # 0
    /\ p \in [Devices -> Adapters] /\ d \in [Devices -> Peripherals]
    /\ golden \in [Devices -> Pair]
    /\ told \in {None, "good"}

\* the adapter, by the phase of the request
AdapterInv ==
    /\ phase \in {"rest", "addr"} => x.state = "Idle" /\ ~x.req_valid /\ ~x.resp_valid
    /\ phase = "data" =>
        /\ x.state = "w" /\ ~x.req_valid /\ ~x.resp_valid
        /\ req.write /\ x.req_addr = req.addr /\ x.req_len = 0 /\ x.req_id = req.shape
    /\ phase = "wait" =>
        /\ x.state \in IF req.write THEN {"burst_w", "b"} ELSE {"addr_r", "data_r", "out_r"}
        /\ x.req_valid <=> x.state \in {"burst_w", "addr_r"}
        /\ x.resp_valid <=> x.state = "out_r"
        /\ x.req_id = req.shape /\ (req.write => x.req_wdata = req.data) /\ x.req_len = 0
        /\ x.state \in {"burst_w", "addr_r"} =>
             x.req_addr = req.addr /\ x.req_last_a /\ (x.req_write <=> req.write)
        /\ x.state = "data_r" => x.req_done /\ x.req_last_r

\* the bridge: the half of the request that it works on
BridgeInv ==
    /\ ~Under => BridgeQuiet
    /\ Under =>
        /\ b.state # "Idle" /\ b.selidx = req.addr
        /\ b.state = "out" => /\ b.pvalid /\ ~b.pselx /\ ~b.penable
                              /\ b.pslverr <=> req.addr = ND
        /\ b.state # "out" =>
             /\ ~b.pvalid /\ b.pselx /\ (b.penable <=> b.state = "access")
             /\ b.pwrite <=> req.write
             /\ \/ b.size = req.shape.size /\ b.phalf = req.shape.half
                \/ b.size = 4 /\ b.phalf = 1 /\ req.shape.size = 8
             /\ req.write => b.pwdata = req.data[b.phalf]

\* the peripherals: only the selected one works, in the clocks of an access
SlaveInv ==
    \A i \in Devices :
        IF ~(Under /\ b.state = "access" /\ b.selidx = i) THEN SlaveQuiet(i)
        ELSE /\ p[i].state # "Idle"
             /\ p[i].req_valid <=> p[i].state = "Request"
             /\ p[i].resp_valid <=> p[i].state = "Resp"
             /\ p[i].state = "Request" =>
                  /\ p[i].req_half = b.phalf /\ (p[i].req_write <=> req.write)
                  /\ req.write => p[i].req_wdata = req.data[b.phalf]
             /\ p[i].state = "WaitResp" => d[i].resp_valid

\* the halves that the request has transferred to or from the bridge
Done ==
    IF ~Under THEN IF phase = "wait" /\ x.state = "out_r" THEN Touched(req) ELSE {}
    ELSE IF b.state = "out" THEN Touched(req) ELSE Before(b.phalf)
\* ... and those that it has written in the registers of the peripheral
Written ==
    IF Under /\ b.state = "access" /\ b.selidx # ND
         /\ p[b.selidx].state \in {"WaitResp", "Resp"}
    THEN Done \cup {b.phalf} ELSE Done

(***************************************************************************)
(* The registers hold what the answered writes left and the written part   *)
(* of the one that is under way; what a read has fetched is the same.      *)
(***************************************************************************)
RegsInv ==
    \A i \in Devices, h \in Half :
        d[i].regs[h] = IF phase = "wait" /\ req.write /\ req.addr = i /\ h \in Written
                       THEN req.data[h] ELSE golden[i][h]
\* what a read has fetched, in the bridge, in the response and on its way
ReadInv ==
    phase = "wait" /\ ~req.write /\ req.addr # ND =>
        /\ \A h \in Done : golden[req.addr][h] =
             (IF x.state = "out_r" THEN x.resp_rdata[h] ELSE b.prdata[h])
        /\ Under /\ b.state = "access" =>
             /\ p[req.addr].state = "WaitResp" =>
                  d[req.addr].resp_rdata = golden[req.addr][b.phalf]
             /\ p[req.addr].state = "Resp" =>
                  p[req.addr].resp_rdata = golden[req.addr][b.phalf]
\* an error is for an access outside of every peripheral
ErrInv == phase = "wait" /\ x.state = "out_r" => (x.resp_err <=> req.addr = ND)

ApbInv == TypeInv /\ AdapterInv /\ BridgeInv /\ SlaveInv /\ RegsInv /\ ReadInv /\ ErrInv

----------------------------------------------------------------------------
\* Shapes of a request.

\* the halves that a request touches
LEMMA ShapeFacts ==
    \A q \in Requests :
        /\ q.shape \in Shapes /\ q.shape # None /\ q.addr \in 0 .. ND /\ q.write \in BOOLEAN
        /\ q.data \in Pair /\ q # None /\ (~Bursts => q.len = 0) /\ q.len \in {0, 1}
        /\ q.shape.size \in {4, 8} /\ q.shape.half \in Half
        /\ q.shape.size = 8 => q.shape.half = 0 /\ Touched(q) = {0, 1}
        /\ q.shape.size = 4 => Touched(q) = {q.shape.half}
<1>1. SUFFICES ASSUME NEW q \in Requests
      PROVE  /\ q.shape \in Shapes /\ q.shape # None /\ q.addr \in 0 .. ND /\ q.write \in BOOLEAN
             /\ q.data \in Pair /\ q # None /\ (~Bursts => q.len = 0) /\ q.len \in {0, 1}
             /\ q.shape.size \in {4, 8} /\ q.shape.half \in Half
             /\ q.shape.size = 8 => q.shape.half = 0 /\ Touched(q) = {0, 1}
             /\ q.shape.size = 4 => Touched(q) = {q.shape.half}
  OBVIOUS
<1>2. /\ q \in [write : BOOLEAN, addr : 0 .. ND, len : {0, 1}, shape : Shapes, data : Pair]
      /\ (~Bursts => q.len = 0) /\ q.len \in {0, 1}
  <2>1. q \in [write : BOOLEAN, addr : 0 .. ND, len : IF Bursts THEN {0, 1} ELSE {0},
               shape : Shapes, data : Pair]
    BY DEF Requests
  <2>2. (IF Bursts THEN {0, 1} ELSE {0}) \subseteq {0, 1}
    OBVIOUS
  <2> QED BY <2>1, <2>2
<1>3. /\ q.shape \in Shapes /\ q.addr \in 0 .. ND /\ q.write \in BOOLEAN /\ q.data \in Pair
      /\ q # None /\ q.shape # None
  BY <1>2, NoneAssumption
<1>4. \/ q.shape.size = 8 /\ q.shape.half = 0
      \/ q.shape.size = 4 /\ q.shape.half \in Half
  BY <1>3 DEF Shapes, Half
<1>5. CASE q.shape.size = 8 /\ q.shape.half = 0
  <2>1. Touched(q) = {0, 1}
    BY <1>5 DEF Touched, Half
  <2> QED BY <1>2, <1>3, <1>5, <2>1 DEF Half
<1>6. CASE q.shape.size = 4 /\ q.shape.half \in Half
  <2>1. Touched(q) = {q.shape.half}
    BY <1>6 DEF Touched, Half
  <2> QED BY <1>2, <1>3, <1>6, <2>1 DEF Half
<1> QED BY <1>4, <1>5, <1>6

----------------------------------------------------------------------------
\* The peripherals and their adapters.

\* adapters and registers keep their types
LEMMA SlavesTyped ==
    ASSUME TypeInv, Clock
    PROVE  p' \in [Devices -> Adapters] /\ d' \in [Devices -> Peripherals]
<1>1. /\ p' = [i \in Devices |-> PslvNext(i)] /\ d' = [i \in Devices |-> DeviceNext(i)]
  BY DEF Clock
<1>2. ASSUME NEW i \in Devices PROVE PslvNext(i) \in Adapters
  <2>1. /\ p[i] \in Adapters /\ d[i] \in Peripherals /\ b.phalf \in Half
        /\ b.pwrite \in BOOLEAN /\ b.pwdata \in Reg
    BY DEF TypeInv, Bridges
  <2> QED BY <2>1, ZenonT(60) DEF PslvNext, Adapters, Peripherals
<1>3. ASSUME NEW i \in Devices PROVE DeviceNext(i) \in Peripherals
  <2>1. p[i] \in Adapters /\ d[i] \in Peripherals
    BY DEF TypeInv
  <2>2. d[i].regs \in [Half -> Reg] /\ p[i].req_half \in Half /\ p[i].req_wdata \in Reg
    BY <2>1 DEF Pair, Adapters, Peripherals
  <2> QED BY <2>1, <2>2 DEF DeviceNext, Pair, Adapters, Peripherals
<1> QED BY <1>1, <1>2, <1>3

\* a peripheral that is not selected does nothing
LEMMA SlaveRests ==
    ASSUME TypeInv, Clock, NEW i \in Devices, SlaveQuiet(i), ~Pselx(i)
    PROVE  SlaveQuiet(i)' /\ d'[i].regs = d[i].regs
<1>1. p'[i] = PslvNext(i) /\ d'[i] = DeviceNext(i)
  BY DEF Clock
<1>2. p'[i] = [p[i] EXCEPT !.req_valid = FALSE, !.resp_valid = FALSE]
  BY <1>1 DEF SlaveQuiet, PslvNext
<1>3. d'[i].regs = d[i].regs
  BY <1>1 DEF SlaveQuiet, DeviceNext
<1> QED BY <1>2, <1>3 DEF SlaveQuiet, TypeInv, Adapters

\* the selected peripheral: setup, request, answer, end
LEMMA SlaveWorks ==
    ASSUME TypeInv, Clock, NEW i \in Devices, Pselx(i)
    PROVE  /\ p[i].state = "Idle" /\ ~p[i].req_valid =>
              /\ p'[i].state = "Request" /\ p'[i].req_valid /\ ~p'[i].resp_valid
              /\ p'[i].req_half = b.phalf /\ p'[i].req_write = b.pwrite
              /\ p'[i].req_wdata = b.pwdata /\ d'[i].regs = d[i].regs
           /\ p[i].state = "Request" /\ p[i].req_valid =>
              /\ p'[i].state = "WaitResp" /\ ~p'[i].req_valid /\ p'[i].resp_valid = p[i].resp_valid
              /\ d'[i].resp_valid /\ d'[i].resp_rdata = d[i].regs[p[i].req_half]
              /\ d'[i].regs = IF p[i].req_write
                              THEN [d[i].regs EXCEPT ![p[i].req_half] = p[i].req_wdata]
                              ELSE d[i].regs
           /\ p[i].state = "WaitResp" /\ ~p[i].req_valid /\ d[i].resp_valid =>
              /\ p'[i].state = "Resp" /\ ~p'[i].req_valid /\ p'[i].resp_valid
              /\ p'[i].resp_rdata = d[i].resp_rdata /\ d'[i].regs = d[i].regs
           /\ p[i].state = "Resp" /\ ~p[i].req_valid /\ b.penable =>
              SlaveQuiet(i)' /\ d'[i].regs = d[i].regs
<1>1. p'[i] = PslvNext(i) /\ d'[i] = DeviceNext(i)
  BY DEF Clock
<1>2. p[i] \in Adapters
  BY DEF TypeInv
<1>3. d'[i].regs = IF p[i].req_valid /\ p[i].req_write
                   THEN [d[i].regs EXCEPT ![p[i].req_half] = p[i].req_wdata] ELSE d[i].regs
  BY <1>1 DEF DeviceNext
<1>4. d'[i].resp_valid = p[i].req_valid /\ d'[i].resp_rdata = d[i].regs[p[i].req_half]
  BY <1>1 DEF DeviceNext
<1>5. p[i].state = "Idle" =>
        p'[i] = [p[i] EXCEPT !.req_valid = TRUE, !.state = "Request", !.resp_valid = FALSE,
                    !.req_half = b.phalf, !.req_write = b.pwrite, !.req_wdata = b.pwdata]
  BY <1>1, <1>2 DEF PslvNext, Adapters
<1>6. p[i].state = "Request" => p'[i] = [p[i] EXCEPT !.req_valid = FALSE, !.state = "WaitResp"]
  BY <1>1 DEF PslvNext
<1>7. p[i].state = "WaitResp" /\ d[i].resp_valid =>
        p'[i] = [p[i] EXCEPT !.req_valid = FALSE, !.resp_valid = TRUE,
                    !.resp_rdata = d[i].resp_rdata, !.state = "Resp"]
  BY <1>1 DEF PslvNext
<1>8. p[i].state = "Resp" /\ b.penable =>
        p'[i] = [p[i] EXCEPT !.req_valid = FALSE, !.state = "Idle", !.resp_valid = FALSE]
  BY <1>1 DEF PslvNext, Penable, Pselx
<1> QED BY <1>2, <1>3, <1>4, <1>5, <1>6, <1>7, <1>8, ZenonT(60) DEF SlaveQuiet, Adapters

----------------------------------------------------------------------------
\* The bridge.

\* without a request, and behind the answer
LEMMA BridgeRests ==
    ASSUME TypeInv, Clock,
           \/ b.state = "Idle" /\ ~x.req_valid
           \/ b.state = "out" /\ ~b.pselx /\ ~b.penable
    PROVE  BridgeQuiet' /\ b' \in Bridges
<1>1. b' = BridgeNext /\ b \in Bridges /\ x.req_addr \in 0 .. ND
  BY ApbAssumption DEF Clock, TypeInv, S!SlvRegisters
<1>2. CASE b.state = "Idle" /\ ~x.req_valid
  <2>1. b' = [b EXCEPT !.pvalid = FALSE, !.pslverr = FALSE, !.penable = FALSE, !.pselx = FALSE,
                       !.selidx = x.req_addr]
    BY <1>1, <1>2 DEF BridgeNext, BridgeIdle
  <2> QED BY <1>1, <1>2, <2>1 DEF BridgeQuiet, Bridges
<1>3. CASE b.state = "out" /\ ~b.pselx /\ ~b.penable
  <2>1. b' = [b EXCEPT !.pvalid = FALSE, !.pslverr = FALSE, !.state = "Idle"]
    BY <1>1, <1>3 DEF BridgeNext, BridgeOut
  <2> QED BY <1>1, <1>3, <2>1 DEF BridgeQuiet, Bridges
<1> QED BY <1>2, <1>3

\* a request is taken
LEMMA BridgeStarts ==
    ASSUME TypeInv, Clock, b.state = "Idle", x.req_valid, x.req_last_a, x.req_id \in Shapes
    PROVE  /\ b' \in Bridges
           /\ b'.state = "setup" /\ b'.pselx /\ ~b'.penable /\ ~b'.pvalid
           /\ b'.selidx = x.req_addr /\ b'.pwrite = x.req_write /\ b'.phalf = x.req_id.half
           /\ b'.pwdata = x.req_wdata[x.req_id.half] /\ b'.size = x.req_id.size
<1> DEFINE half == x.req_id.half
           size == x.req_id.size
           data == x.req_wdata[half]
<1>1. /\ b' = BridgeNext /\ b \in Bridges /\ x.req_addr \in 0 .. ND
      /\ x.req_wdata \in [Half -> Reg] /\ x.req_write \in BOOLEAN
  BY ApbAssumption DEF Clock, TypeInv, S!SlvRegisters, Pair
<1>2. x.req_id # None /\ half \in Half /\ size \in {4, 8}
  <2>1. x.req_id # None
    BY NoneAssumption
  <2>2. \A s \in Shapes : s.half \in Half /\ s.size \in {4, 8}
    BY DEF Shapes, Half
  <2> QED BY <2>1, <2>2
<1>3. data \in Reg
  BY <1>1, <1>2
<1>4. b' = [b EXCEPT !.pvalid = FALSE, !.pslverr = FALSE, !.penable = FALSE,
              !.selidx = x.req_addr, !.pwrite = x.req_write, !.pselx = TRUE,
              !.state = "setup", !.phalf = half, !.pwdata = data, !.size = size]
  BY <1>1, <1>2, ZenonT(60) DEF BridgeNext, BridgeIdle, Bridges
<1> HIDE DEF half, size, data
<1>5. b' \in Bridges
  BY <1>1, <1>2, <1>3, <1>4, ZenonT(120) DEF Bridges
<1>6. /\ b'.state = "setup" /\ b'.pselx /\ ~b'.penable /\ ~b'.pvalid
      /\ b'.selidx = x.req_addr /\ b'.pwrite = x.req_write /\ b'.phalf = half
      /\ b'.pwdata = data /\ b'.size = size
  BY <1>1, <1>4, ZenonT(60) DEF Bridges
<1> QED BY <1>5, <1>6 DEF half, size, data

\* what the bridge holds during the transfer of a half
Holds ==
    /\ b'.pselx = b.pselx /\ b'.selidx = b.selidx /\ b'.pwrite = b.pwrite /\ b'.phalf = b.phalf
    /\ b'.pwdata = b.pwdata /\ b'.size = b.size /\ b'.prdata = b.prdata

\* from the setup to the access, and waiting for the peripheral in the access
LEMMA BridgeHolds ==
    ASSUME TypeInv, Clock
    PROVE  /\ b.state = "setup" =>
              b'.state = "access" /\ b'.penable /\ ~b'.pvalid /\ Holds /\ b' \in Bridges
           /\ b.state = "access" /\ ~Pready(b.selidx) =>
              /\ b'.state = "access" /\ ~b'.pvalid /\ b'.penable = b.penable /\ Holds
              /\ b' \in Bridges
<1>1. b' = BridgeNext /\ b \in Bridges
  BY DEF Clock, TypeInv
<1>2. CASE b.state = "setup"
  <2>1. b' = [b EXCEPT !.pvalid = FALSE, !.penable = TRUE, !.state = "access"]
    BY <1>1, <1>2 DEF BridgeNext
  <2> QED BY <1>1, <1>2, <2>1 DEF Bridges, Holds
<1>3. CASE b.state = "access" /\ ~Pready(b.selidx)
  <2> DEFINE err == b.selidx = ND
  <2>1. b' = [b EXCEPT !.pvalid = FALSE, !.pslverr = err]
    BY <1>1, <1>3 DEF BridgeNext, BridgeAccess, Transferred
  <2>2. err \in BOOLEAN
    OBVIOUS
  <2> HIDE DEF err
  <2> QED BY <1>1, <1>3, <2>1, <2>2 DEF Bridges, Holds
<1> QED BY <1>2, <1>3

\* the transfer of a half ends: the other half follows, or the answer
LEMMA BridgeTransfers ==
    ASSUME TypeInv, Clock, b.state = "access", Pready(b.selidx)
    PROVE  /\ b' \in Bridges /\ b'.prdata = [b.prdata EXCEPT ![b.phalf] = Prdata(b.selidx)]
           /\ ~b'.penable /\ b'.selidx = b.selidx
           /\ b.size = 8 =>
              /\ b'.state = "setup" /\ ~b'.pvalid /\ b'.pselx = b.pselx /\ b'.pwrite = b.pwrite
              /\ b'.phalf = 1 /\ b'.pwdata = x.req_wdata[1] /\ b'.size = 4
           /\ b.size = 4 =>
              /\ b'.state = "out" /\ b'.pvalid /\ ~b'.pselx /\ b'.pslverr = (b.selidx = ND)
<1> DEFINE err == b.selidx = ND
           word == [b.prdata EXCEPT ![b.phalf] = Prdata(b.selidx)]
           data == x.req_wdata[1]
<1>1. /\ b' = BridgeNext /\ b \in Bridges /\ b.size # 0
      /\ x.req_wdata \in [Half -> Reg] /\ 0 \in Reg
  BY ApbAssumption DEF Clock, TypeInv, S!SlvRegisters, Pair
<1>2. Prdata(b.selidx) \in Reg
  <2>1. CASE b.selidx = ND
    BY <1>1, <2>1 DEF Prdata
  <2>2. CASE b.selidx # ND
    <3>1. b.selidx \in Devices
      BY <1>1, <2>2, ApbAssumption DEF Devices, Bridges
    <3>2. p[b.selidx] \in Adapters
      BY <3>1 DEF TypeInv
    <3> QED BY <2>2, <3>2 DEF Prdata, Adapters
  <2> QED BY <2>1, <2>2
<1>3. word \in Pair /\ data \in Reg /\ err \in BOOLEAN
  BY <1>1, <1>2 DEF Bridges, Pair, Half
<1>4. CASE b.size = 8
  <2> DEFINE y == [b EXCEPT !.pslverr = err, !.penable = FALSE, !.prdata = word]
  <2>1. b' = [y EXCEPT !.pvalid = FALSE, !.size = y.size - 4, !.phalf = 1, !.state = "setup",
                       !.pwdata = data]
    <3>1. b' = Transferred(b.phalf, err, TRUE, TRUE)
      <4>1. (b.size > 4) = TRUE
        BY <1>4
      <4>2. b' = Transferred(b.phalf, err, b.size > 4, TRUE)
        BY <1>1 DEF BridgeNext, BridgeAccess
      <4> QED BY <4>1, <4>2, Zenon
    <3>2. [b EXCEPT !.pslverr = err, !.penable = FALSE, !.prdata[b.phalf] = Prdata(b.selidx)] = y
      BY <1>1 DEF Bridges
    <3> QED BY <3>1, <3>2, Zenon DEF Transferred
  <2> HIDE DEF err, word, data
  <2>2. /\ y \in Bridges /\ y.prdata = word /\ ~y.penable /\ y.selidx = b.selidx
        /\ y.pselx = b.pselx /\ y.pwrite = b.pwrite /\ y.size = 8
    BY <1>1, <1>3, <1>4 DEF Bridges
  <2> HIDE DEF y
  <2>3. /\ b' \in Bridges /\ b'.prdata = word /\ ~b'.penable /\ b'.selidx = b.selidx
        /\ b'.state = "setup" /\ ~b'.pvalid /\ b'.pselx = b.pselx /\ b'.pwrite = b.pwrite
        /\ b'.phalf = 1 /\ b'.pwdata = data /\ b'.size = 4
    <3>1. y.size - 4 = 4 /\ 1 \in Half
      BY <2>2 DEF Half
    <3>2. b' = [y EXCEPT !.pvalid = FALSE, !.size = 4, !.phalf = 1, !.state = "setup",
                         !.pwdata = data]
      BY <2>1, <3>1, Zenon
    <3> QED BY <1>3, <2>2, <3>1, <3>2 DEF Bridges
  <2> QED BY <1>4, <2>3 DEF word, data
<1>5. CASE b.size = 4
  <2>1. b' = [b EXCEPT !.pslverr = err, !.penable = FALSE, !.prdata = word, !.pvalid = TRUE,
                       !.state = "out", !.pselx = FALSE, !.pwrite = FALSE]
    BY <1>1, <1>5 DEF BridgeNext, BridgeAccess, Transferred, Bridges
  <2> HIDE DEF err, word, data
  <2>2. /\ b' \in Bridges /\ b'.prdata = word /\ ~b'.penable /\ b'.selidx = b.selidx
        /\ b'.state = "out" /\ b'.pvalid /\ ~b'.pselx /\ b'.pslverr = err
    BY <1>1, <1>3, <1>5, <2>1, ZenonT(60) DEF Bridges
  <2> QED BY <1>5, <2>2 DEF word, err
<1> QED BY <1>1, <1>4, <1>5 DEF Bridges

----------------------------------------------------------------------------
\* The clocks, by the progress of the request.

\* no transfer is under way, and none begins
LEMMA QuietClock ==
    ASSUME ApbInv, Clock, ~Under, ~x.req_valid
    PROVE  /\ BridgeQuiet' /\ b' \in Bridges /\ p' \in [Devices -> Adapters]
           /\ d' \in [Devices -> Peripherals]
           /\ \A i \in Devices : SlaveQuiet(i)' /\ d'[i].regs = d[i].regs
<1>1. TypeInv /\ BridgeQuiet /\ \A i \in Devices : SlaveQuiet(i)
  BY DEF ApbInv, BridgeInv, SlaveInv
<1>2. BridgeQuiet' /\ b' \in Bridges
  BY <1>1, BridgeRests DEF BridgeQuiet
<1>3. ASSUME NEW i \in Devices PROVE SlaveQuiet(i)' /\ d'[i].regs = d[i].regs
  BY <1>1, SlaveRests DEF BridgeQuiet, Pselx
<1> QED BY <1>1, <1>2, <1>3, SlavesTyped

\* the master begins a request, or not
LEMMA RestKeeps ==
    ASSUME ~Bursts, ApbInv, Clock, phase = "rest"
    PROVE  ApbInv'
<1>1. /\ TypeInv /\ AdapterInv /\ RegsInv /\ x \in S!SlvRegisters /\ got = 0 /\ req = None
      /\ x.state = "Idle" /\ ~x.req_valid /\ ~x.resp_valid
  BY DEF ApbInv, TypeInv, AdapterInv
<1>2. /\ BridgeQuiet' /\ b' \in Bridges /\ p' \in [Devices -> Adapters]
      /\ d' \in [Devices -> Peripherals]
      /\ \A i \in Devices : SlaveQuiet(i)' /\ d'[i].regs = d[i].regs
  BY <1>1, QuietClock DEF Under
<1>3. x' = [x EXCEPT !.req_done = FALSE, !.req_valid = FALSE, !.req_write = FALSE,
                     !.resp_valid = FALSE, !.resp_last = FALSE, !.resp_err = FALSE]
  BY <1>1 DEF Clock, S!SlvNext, S!SlvIdle
<1>4. x' \in S!SlvRegisters /\ x'.state = "Idle" /\ ~x'.req_valid /\ ~x'.resp_valid
  BY <1>1, <1>3 DEF S!SlvRegisters
<1>5. golden' = golden /\ told' = None
  BY <1>1 DEF Clock, S!SlvROut, S!SlvBOut
<1>6. \/ req' = None /\ phase' = "rest" /\ got' = 0
      \/ req' \in Requests /\ req' # None /\ phase' = "addr" /\ got' = 0
  <2>1. \/ UNCHANGED <<req, phase, got>>
        \/ req' \in Requests /\ phase' = "addr" /\ got' = 0
    BY DEF Clock
  <2> QED BY <1>1, <2>1, ShapeFacts
<1>7. TypeInv'
  BY <1>1, <1>2, <1>4, <1>5, <1>6 DEF TypeInv, BridgeQuiet
<1>8. AdapterInv' /\ BridgeInv' /\ ReadInv' /\ ErrInv'
  BY <1>2, <1>4, <1>6 DEF AdapterInv, BridgeInv, Under, BridgeQuiet, ReadInv, ErrInv
<1>9. SlaveInv'
  BY <1>2, <1>6 DEF SlaveInv, Under
<1>10. RegsInv'
  BY <1>1, <1>2, <1>5, <1>6 DEF RegsInv
<1> QED BY <1>7, <1>8, <1>9, <1>10 DEF ApbInv

\* the address is taken
LEMMA AddrKeeps ==
    ASSUME ~Bursts, ApbInv, Clock, phase = "addr"
    PROVE  ApbInv'
<1>1. /\ TypeInv /\ AdapterInv /\ RegsInv /\ x \in S!SlvRegisters /\ got = 0
      /\ req \in Requests /\ req # None
      /\ x.state = "Idle" /\ ~x.req_valid /\ ~x.resp_valid /\ ND \in Nat
  BY ApbAssumption DEF ApbInv, TypeInv, AdapterInv
<1>2. /\ BridgeQuiet' /\ b' \in Bridges /\ p' \in [Devices -> Adapters]
      /\ d' \in [Devices -> Peripherals]
      /\ \A i \in Devices : SlaveQuiet(i)' /\ d'[i].regs = d[i].regs
  BY <1>1, QuietClock DEF Under
<1>3. /\ req.shape \in Shapes /\ req.addr \in 0 .. ND /\ req.write \in BOOLEAN /\ req.len = 0
  BY <1>1, ShapeFacts
<1>4. Addr(req) # None
  <2>1. Addr(req) \in [addr : 0 .. ND, len : {0, 1}, id : Shapes, incr : {TRUE}]
    BY <1>3 DEF Addr
  <2> QED BY <2>1, NoneAssumption
<1>5. golden' = golden /\ told' = None /\ req' = req
  BY <1>1 DEF Clock, S!SlvROut, S!SlvBOut
<1>6. got' = 0 /\ phase' = IF req.write THEN "data" ELSE "wait"
  BY <1>1, <1>4 DEF Clock, S!SlvROut, S!SlvBOut, S!SlvAwReady, S!SlvArReady
<1>7. /\ Addr(req).addr = req.addr /\ Addr(req).len = 0 /\ Addr(req).id = req.shape
      /\ Addr(req).incr = TRUE
  BY <1>3 DEF Addr
<1> DEFINE y == [x EXCEPT !.req_done = FALSE, !.req_valid = FALSE, !.req_write = FALSE,
                          !.resp_valid = FALSE, !.resp_last = FALSE, !.resp_err = FALSE,
                          !.req_addr = req.addr, !.req_len = 0, !.req_id = req.shape,
                          !.req_incr = TRUE]
<1>8. x' = IF req.write THEN [y EXCEPT !.state = "w"]
           ELSE [y EXCEPT !.state = "addr_r", !.req_valid = TRUE, !.req_last_a = TRUE]
  BY <1>1, <1>3, <1>4, <1>7 DEF Clock, S!SlvNext, S!SlvIdle, S!Started
<1>9. /\ y \in S!SlvRegisters /\ ~y.req_valid /\ ~y.req_write /\ ~y.resp_valid
      /\ y.req_addr = req.addr /\ y.req_len = 0 /\ y.req_id = req.shape
  <2>1. /\ req.addr \in 0 .. (ND + 1) - 1 /\ 0 \in 0 .. 1 /\ req.shape \in Shapes \cup {None}
        /\ TRUE \in BOOLEAN /\ FALSE \in BOOLEAN
    BY <1>1, <1>3
  <2> QED BY <1>1, <2>1, ZenonT(60) DEF S!SlvRegisters
<1> HIDE DEF y
<1>10. /\ x' \in S!SlvRegisters /\ ~x'.req_write /\ ~x'.resp_valid
       /\ x'.req_addr = req.addr /\ x'.req_len = 0 /\ x'.req_id = req.shape
       /\ x'.state = IF req.write THEN "w" ELSE "addr_r"
       /\ req.write => ~x'.req_valid
       /\ ~req.write => x'.req_valid /\ x'.req_last_a
  <2>1. CASE req.write
    BY <1>8, <1>9, <2>1 DEF S!SlvRegisters, S!SlvStates
  <2>2. CASE ~req.write
    BY <1>8, <1>9, <2>2, ZenonT(60) DEF S!SlvRegisters, S!SlvStates
  <2> QED BY <2>1, <2>2
<1>11. TypeInv'
  BY <1>1, <1>2, <1>5, <1>6, <1>10 DEF TypeInv, BridgeQuiet
<1>12. AdapterInv' /\ BridgeInv' /\ ErrInv'
  BY <1>2, <1>5, <1>6, <1>10 DEF AdapterInv, BridgeInv, Under, BridgeQuiet, ErrInv
<1>13. SlaveInv'
  BY <1>2, <1>6, <1>10 DEF SlaveInv, Under
<1>14. Done' = {} /\ Written' = {}
  BY <1>6, <1>10 DEF Done, Written, Under
<1>15. RegsInv'
  BY <1>1, <1>2, <1>5, <1>6, <1>14 DEF RegsInv
<1>16. ReadInv'
  BY <1>10, <1>14 DEF ReadInv, Under
<1> QED BY <1>11, <1>12, <1>13, <1>15, <1>16 DEF ApbInv

\* the data of a write is taken
LEMMA DataKeeps ==
    ASSUME ~Bursts, ApbInv, Clock, phase = "data"
    PROVE  ApbInv'
<1>1. /\ TypeInv /\ AdapterInv /\ RegsInv /\ x \in S!SlvRegisters /\ got = 0
      /\ req \in Requests /\ req # None /\ req.write
      /\ x.state = "w" /\ ~x.req_valid /\ ~x.resp_valid
      /\ x.req_addr = req.addr /\ x.req_len = 0 /\ x.req_id = req.shape
  BY DEF ApbInv, TypeInv, AdapterInv
<1>2. /\ BridgeQuiet' /\ b' \in Bridges /\ p' \in [Devices -> Adapters]
      /\ d' \in [Devices -> Peripherals]
      /\ \A i \in Devices : SlaveQuiet(i)' /\ d'[i].regs = d[i].regs
  BY <1>1, QuietClock DEF Under
<1>3. req.data \in Pair /\ req.len = 0
  BY <1>1, ShapeFacts
<1>4. [data |-> req.data, strb |-> TRUE] # None
  <2>1. [data |-> req.data, strb |-> TRUE] \in [data : Pair, strb : {TRUE}]
    BY <1>3
  <2> QED BY <2>1, NoneAssumption
<1>5. golden' = golden /\ told' = None /\ req' = req /\ phase' = "wait" /\ got' = 0
  BY <1>1, <1>3, <1>4 DEF Clock, S!SlvROut, S!SlvBOut, S!SlvWReady
<1>6. x' = [x EXCEPT !.req_wdata = req.data, !.req_wstrb = TRUE, !.req_valid = TRUE,
                     !.req_write = TRUE, !.req_last_a = TRUE, !.state = "burst_w"]
  BY <1>1, <1>4 DEF Clock, S!SlvNext, S!SlvW, S!LenNext
<1>7. /\ x' \in S!SlvRegisters /\ x'.state = "burst_w" /\ x'.req_valid /\ ~x'.resp_valid
      /\ x'.req_id = req.shape /\ x'.req_wdata = req.data /\ x'.req_len = 0
      /\ x'.req_addr = req.addr /\ x'.req_last_a /\ x'.req_write
  BY <1>1, <1>3, <1>6 DEF S!SlvRegisters, S!SlvStates
<1>8. TypeInv'
  BY <1>1, <1>2, <1>5, <1>7 DEF TypeInv, BridgeQuiet
<1>9. AdapterInv' /\ BridgeInv' /\ ErrInv'
  BY <1>1, <1>2, <1>5, <1>7 DEF AdapterInv, BridgeInv, Under, BridgeQuiet, ErrInv
<1>10. SlaveInv'
  BY <1>2, <1>5, <1>7 DEF SlaveInv, Under
<1>11. Done' = {} /\ Written' = {}
  BY <1>5, <1>7 DEF Done, Written, Under
<1>12. RegsInv'
  BY <1>1, <1>2, <1>5, <1>11 DEF RegsInv
<1>13. ReadInv'
  BY <1>1, <1>5 DEF ReadInv
<1> QED BY <1>8, <1>9, <1>10, <1>12, <1>13 DEF ApbInv

\* the bridge takes the request
LEMMA IssueKeeps ==
    ASSUME ~Bursts, ApbInv, Clock, phase = "wait", x.state \in {"burst_w", "addr_r"}
    PROVE  ApbInv'
<1>1. /\ TypeInv /\ AdapterInv /\ RegsInv /\ SlaveInv /\ BridgeQuiet
      /\ x \in S!SlvRegisters /\ got = 0
      /\ req \in Requests /\ req # None /\ (x.state = "burst_w" <=> req.write)
      /\ x.req_valid /\ ~x.resp_valid /\ x.req_last_a /\ (x.req_write <=> req.write)
      /\ x.req_addr = req.addr /\ x.req_len = 0 /\ x.req_id = req.shape
      /\ (req.write => x.req_wdata = req.data) /\ ~Under
  BY DEF ApbInv, TypeInv, AdapterInv, BridgeInv, Under
<1>2. /\ req.shape \in Shapes /\ req.addr \in 0 .. ND /\ req.len = 0 /\ req.shape.half \in Half
      /\ req.write \in BOOLEAN /\ ND \in Nat
  BY <1>1, ShapeFacts, ApbAssumption
<1>3. /\ b' \in Bridges /\ b'.state = "setup" /\ b'.pselx /\ ~b'.penable /\ ~b'.pvalid
      /\ b'.selidx = req.addr /\ (b'.pwrite <=> req.write) /\ b'.phalf = req.shape.half
      /\ (req.write => b'.pwdata = req.data[req.shape.half]) /\ b'.size = req.shape.size
  BY <1>1, <1>2, BridgeStarts DEF BridgeQuiet
<1>4. \A i \in Devices : SlaveQuiet(i) /\ SlaveQuiet(i)' /\ d'[i].regs = d[i].regs
  BY <1>1, SlaveRests DEF SlaveInv, BridgeQuiet, Pselx
<1>5. golden' = golden /\ told' = None /\ req' = req /\ phase' = "wait" /\ got' = 0
  BY <1>1, <1>2 DEF Clock, S!SlvROut, S!SlvBOut
<1>6. /\ x' \in S!SlvRegisters /\ ~x'.req_valid /\ ~x'.resp_valid /\ x'.req_len = 0
      /\ x'.req_id = req.shape /\ (req.write => x'.req_wdata = req.data)
      /\ x'.state = IF req.write THEN "b" ELSE "data_r"
      /\ ~req.write => x'.req_done /\ x'.req_last_r
  <2> DEFINE a == S!AddrNext(x)
  <2>1. a \in 0 .. (ND + 1) - 1
    BY <1>1, <1>2 DEF S!AddrNext, S!SlvRegisters
  <2>2. CASE req.write
    <3>1. x' = [x EXCEPT !.req_valid = FALSE, !.req_done = TRUE, !.req_addr = a,
                         !.req_last_a = FALSE, !.req_write = FALSE, !.state = "b"]
      BY <1>1, <2>2 DEF Clock, S!SlvNext, S!SlvBurstW, BridgeQuiet
    <3> HIDE DEF a
    <3> QED BY <1>1, <2>1, <2>2, <3>1, ZenonT(60) DEF S!SlvRegisters, S!SlvStates
  <2>3. CASE ~req.write
    <3>1. x' = [x EXCEPT !.req_addr = a, !.req_len = 0, !.req_last_a = TRUE, !.req_last_r = TRUE,
                         !.req_valid = FALSE, !.req_done = TRUE, !.state = "data_r"]
      BY <1>1, <2>3 DEF Clock, S!SlvNext, S!SlvAddrR, S!Advanced, S!LenNext, BridgeQuiet,
         S!SlvRegisters
    <3>2. 0 \in 0 .. 1 /\ "data_r" \in S!SlvStates
      BY DEF S!SlvStates
    <3> HIDE DEF a
    <3>3. /\ x' \in S!SlvRegisters /\ ~x'.req_valid /\ x'.resp_valid = x.resp_valid
          /\ x'.req_len = 0 /\ x'.req_id = x.req_id /\ x'.state = "data_r"
          /\ x'.req_done /\ x'.req_last_r
      BY <1>1, <2>1, <3>1, <3>2, ZenonT(60) DEF S!SlvRegisters
    <3> QED BY <1>1, <2>3, <3>3
  <2> HIDE DEF a
  <2> QED BY <2>2, <2>3
<1>7. Under'
  BY <1>2, <1>5, <1>6 DEF Under
<1>8. TypeInv'
  <2>1. b'.size # 0
    BY <1>1, <1>3, ShapeFacts
  <2> QED BY <1>1, <1>3, <1>5, <1>6, <2>1, SlavesTyped DEF TypeInv
<1>9. AdapterInv'
  BY <1>2, <1>5, <1>6 DEF AdapterInv
<1>10. BridgeInv'
  BY <1>3, <1>5, <1>7 DEF BridgeInv
<1>11. SlaveInv'
  BY <1>3, <1>4 DEF SlaveInv
<1>12. Done' = {} /\ Written' = {}
  <2>1. \A g \in Touched(req) : ~(g < req.shape.half)
    BY <1>2 DEF Touched, Half
  <2>2. Before(req.shape.half)' = {}
    BY <1>5, <2>1 DEF Before, Touched
  <2>3. Done' = {}
    BY <1>3, <1>5, <1>7, <2>2 DEF Done, Before
  <2> QED BY <1>3, <2>3 DEF Written
<1>13. RegsInv'
  <2>1. Done = {} /\ Written = {}
    BY <1>1 DEF Done, Written
  <2> QED BY <1>1, <1>4, <1>5, <1>12, <2>1 DEF RegsInv
<1>14. ReadInv' /\ ErrInv'
  BY <1>2, <1>3, <1>6, <1>12 DEF ReadInv, ErrInv
<1> QED BY <1>8, <1>9, <1>10, <1>11, <1>13, <1>14 DEF ApbInv

\* the adapter waits for the answer of the bridge
LEMMA AdapterWaits ==
    ASSUME ~Bursts, ApbInv, Clock, Under, ~b.pvalid
    PROVE  /\ x' \in S!SlvRegisters /\ AdapterInv' /\ x'.state = x.state
           /\ golden' = golden /\ told' = None /\ req' = req /\ phase' = "wait" /\ got' = 0
<1>1. /\ TypeInv /\ AdapterInv /\ x \in S!SlvRegisters /\ got = 0 /\ phase = "wait"
      /\ req \in Requests /\ req # None /\ x.state \in {"b", "data_r"}
      /\ ~x.req_valid /\ ~x.resp_valid
  BY DEF ApbInv, TypeInv, AdapterInv, Under
<1>2. req.len = 0
  BY <1>1, ShapeFacts
<1>3. golden' = golden /\ told' = None /\ req' = req /\ phase' = "wait" /\ got' = 0
  BY <1>1, <1>2 DEF Clock, S!SlvROut, S!SlvBOut
<1>4. CASE x.state = "b"
  <2>1. x' = x
    BY <1>1, <1>4 DEF Clock, S!SlvNext, S!SlvB
  <2> QED BY <1>1, <1>3, <2>1 DEF AdapterInv
<1>5. CASE x.state = "data_r"
  <2>1. x.req_last_r /\ x.req_done
    BY <1>1, <1>5 DEF AdapterInv
  <2>2. x' = [x EXCEPT !.resp_valid = FALSE, !.req_valid = FALSE]
    BY <1>1, <1>5, <2>1 DEF Clock, S!SlvNext, S!SlvDataR
  <2>3. /\ x' \in S!SlvRegisters /\ x'.state = "data_r" /\ ~x'.req_valid /\ ~x'.resp_valid
        /\ x'.req_id = x.req_id /\ x'.req_wdata = x.req_wdata /\ x'.req_len = x.req_len
        /\ x'.req_done /\ x'.req_last_r
    BY <1>1, <1>5, <2>1, <2>2 DEF S!SlvRegisters
  <2> QED BY <1>1, <1>3, <1>5, <2>3 DEF AdapterInv
<1> QED BY <1>1, <1>4, <1>5

\* what the invariant says while the request is in the bridge
LEMMA UnderFacts ==
    ASSUME ~Bursts, ApbInv, Under
    PROVE  /\ TypeInv /\ AdapterInv /\ BridgeInv /\ SlaveInv /\ RegsInv /\ ReadInv
           /\ req \in Requests /\ phase = "wait" /\ b.selidx = req.addr /\ b.state # "Idle"
           /\ req.addr \in 0 .. ND /\ (req.addr \in Devices <=> req.addr # ND)
           /\ b \in Bridges /\ b.phalf \in Half /\ req.write \in BOOLEAN
           /\ b.state # "out" => /\ ~b.pvalid /\ b.pselx
                                 /\ b.size \in {4, 8} /\ b.phalf \in Touched(req)
                                 /\ Done = Before(b.phalf)
           /\ b.state = "out" => b.pvalid /\ ~b.pselx /\ ~b.penable /\ Done = Touched(req)
           /\ b.state # "access" => Written = Done
<1>1. /\ TypeInv /\ AdapterInv /\ BridgeInv /\ SlaveInv /\ RegsInv /\ ReadInv
      /\ req \in Requests /\ phase = "wait" /\ b.selidx = req.addr /\ b.state # "Idle"
      /\ b \in Bridges
  BY DEF ApbInv, TypeInv, BridgeInv, Under
<1>2. req.addr \in 0 .. ND /\ (req.addr \in Devices <=> req.addr # ND) /\ req.write \in BOOLEAN
  BY <1>1, ShapeFacts, ApbAssumption DEF Devices
<1>3. b.phalf \in Half
  BY <1>1 DEF Bridges
<1>4. b.state # "out" => b.size \in {4, 8} /\ b.phalf \in Touched(req) /\ ~b.pvalid /\ b.pselx
  BY <1>1, ShapeFacts DEF BridgeInv
<1>5. b.state = "out" => b.pvalid /\ ~b.pselx /\ ~b.penable
  BY <1>1 DEF BridgeInv
<1>6. Done = IF b.state = "out" THEN Touched(req) ELSE Before(b.phalf)
  BY DEF Done
<1>7. b.state # "access" => Written = Done
  BY DEF Written
<1> QED BY <1>1, <1>2, <1>3, <1>4, <1>5, <1>6, <1>7

\* the peripheral is selected
LEMMA SetupKeeps ==
    ASSUME ~Bursts, ApbInv, Clock, Under, b.state = "setup"
    PROVE  ApbInv'
<1>1. /\ TypeInv /\ BridgeInv /\ SlaveInv /\ RegsInv /\ ReadInv /\ b.selidx = req.addr
      /\ ~b.pvalid /\ b.pselx /\ Written = Done /\ Done = Before(b.phalf) /\ phase = "wait"
  BY UnderFacts
<1>2. /\ x' \in S!SlvRegisters /\ AdapterInv' /\ x'.state = x.state
      /\ golden' = golden /\ told' = None /\ req' = req /\ phase' = "wait" /\ got' = 0
  BY <1>1, AdapterWaits
<1>3. b'.state = "access" /\ b'.penable /\ ~b'.pvalid /\ Holds /\ b' \in Bridges
  BY <1>1, BridgeHolds
<1>4. Under' /\ (Touched(req))' = Touched(req)
  BY <1>1, <1>2 DEF Under, Touched
<1>5. \A i \in Devices : SlaveQuiet(i)
  BY <1>1 DEF SlaveInv
<1>6. \A i \in Devices : d'[i].regs = d[i].regs
  <2>1. ASSUME NEW i \in Devices PROVE d'[i].regs = d[i].regs
    <3>1. CASE i # req.addr
      BY <1>1, <1>5, <3>1, SlaveRests DEF Pselx
    <3>2. CASE i = req.addr
      BY <1>1, <1>5, <3>2, SlaveWorks DEF Pselx, SlaveQuiet
    <3> QED BY <3>1, <3>2
  <2> QED BY <2>1
<1>7. \A i \in Devices : i # req.addr => SlaveQuiet(i)'
  BY <1>1, <1>5, SlaveRests DEF Pselx
<1>8. req.addr # ND =>
        /\ req.addr \in Devices /\ p'[req.addr].state = "Request" /\ p'[req.addr].req_valid
        /\ ~p'[req.addr].resp_valid /\ p'[req.addr].req_half = b.phalf
        /\ p'[req.addr].req_write = b.pwrite /\ p'[req.addr].req_wdata = b.pwdata
  BY <1>1, <1>5, SlaveWorks, UnderFacts DEF Pselx, SlaveQuiet
<1>9. TypeInv'
  BY <1>1, <1>2, <1>3, SlavesTyped DEF TypeInv, Holds
<1>10. BridgeInv'
  BY <1>1, <1>2, <1>3, <1>4 DEF BridgeInv, Holds
<1>11. SlaveInv'
  <2>1. ASSUME NEW i \in Devices, i # req.addr
        PROVE  ~(Under' /\ b'.state = "access" /\ b'.selidx = i) /\ SlaveQuiet(i)'
    BY <1>1, <1>3, <1>7, <2>1 DEF Holds
  <2>2. ASSUME req.addr \in Devices
        PROVE  LET i == req.addr
               IN  /\ p'[i].state # "Idle"
                   /\ p'[i].req_valid <=> p'[i].state = "Request"
                   /\ p'[i].resp_valid <=> p'[i].state = "Resp"
                   /\ p'[i].state = "Request" =>
                        /\ p'[i].req_half = b'.phalf /\ (p'[i].req_write <=> req'.write)
                        /\ req'.write => p'[i].req_wdata = req'.data[b'.phalf]
                   /\ p'[i].state = "WaitResp" => d'[i].resp_valid
    <3>1. (b.pwrite <=> req.write) /\ (req.write => b.pwdata = req.data[b.phalf])
      BY <1>1 DEF BridgeInv
    <3> QED BY <1>2, <1>3, <1>8, <2>2, <3>1, UnderFacts DEF Holds
  <2> QED BY <1>1, <1>3, <1>4, <2>1, <2>2 DEF SlaveInv, Holds
<1>12. Done' = Done /\ Written' = Written
  <2>1. Done' = Done
    BY <1>1, <1>2, <1>3, <1>4 DEF Done, Before, Holds
  <2>2. Written' = Done'
    BY <1>1, <1>3, <1>8 DEF Written, Holds
  <2> QED BY <1>1, <2>1, <2>2
<1>13. RegsInv'
  BY <1>1, <1>2, <1>6, <1>12 DEF RegsInv
<1>14. ReadInv' /\ ErrInv'
  <2>1. x.state # "out_r"
    BY DEF Under
  <2> QED BY <1>1, <1>2, <1>3, <1>8, <1>12, <2>1 DEF ReadInv, ErrInv, Holds
<1> QED BY <1>2, <1>9, <1>10, <1>11, <1>13, <1>14 DEF ApbInv

\* the peripheral takes the request, and answers
LEMMA AccessWaits ==
    ASSUME ~Bursts, ApbInv, Clock, Under, b.state = "access", ~Pready(b.selidx)
    PROVE  ApbInv'
<1> DEFINE i == req.addr
           h == b.phalf
<1>1. /\ TypeInv /\ BridgeInv /\ SlaveInv /\ RegsInv /\ ReadInv /\ b.selidx = i
      /\ ~b.pvalid /\ b.pselx /\ Done = Before(h) /\ phase = "wait" /\ h \in Half
      /\ req.write \in BOOLEAN /\ h \in Touched(req) /\ (b.pwrite <=> req.write) /\ b.penable
  BY UnderFacts DEF BridgeInv
<1>2. /\ x' \in S!SlvRegisters /\ AdapterInv' /\ x'.state = x.state
      /\ golden' = golden /\ told' = None /\ req' = req /\ phase' = "wait" /\ got' = 0
  BY <1>1, AdapterWaits
<1>3. b'.state = "access" /\ b'.penable /\ ~b'.pvalid /\ Holds /\ b' \in Bridges
  BY <1>1, BridgeHolds
<1>4. Under' /\ (Touched(req))' = Touched(req) /\ x.state # "out_r"
  BY <1>1, <1>2 DEF Under, Touched
<1>5. i \in Devices /\ i # ND /\ ~p[i].resp_valid
  BY <1>1, UnderFacts DEF Pready
<1>6. /\ p[i] \in Adapters /\ p[i].state \in {"Request", "WaitResp"}
      /\ (p[i].req_valid <=> p[i].state = "Request")
      /\ (p[i].state = "WaitResp" => d[i].resp_valid)
      /\ (p[i].state = "Request" => /\ p[i].req_half = h /\ (p[i].req_write <=> req.write)
                                    /\ (req.write => p[i].req_wdata = req.data[h]))
  <2>1. p[i] \in Adapters
    BY <1>1, <1>5 DEF TypeInv
  <2> QED BY <1>1, <1>5, <2>1 DEF SlaveInv, Adapters
<1>7. \A j \in Devices : j # i => SlaveQuiet(j)' /\ d'[j].regs = d[j].regs
  <2>1. SUFFICES ASSUME NEW j \in Devices, j # i PROVE SlaveQuiet(j)' /\ d'[j].regs = d[j].regs
    OBVIOUS
  <2>2. SlaveQuiet(j) /\ ~Pselx(j)
    BY <1>1, <2>1 DEF SlaveInv, Pselx
  <2> QED BY <1>1, <2>2, SlaveRests
<1>8. Pselx(i)
  BY <1>1 DEF Pselx
<1>9. TypeInv'
  BY <1>1, <1>2, <1>3, SlavesTyped DEF TypeInv, Holds
<1>10. BridgeInv'
  BY <1>1, <1>2, <1>3, <1>4 DEF BridgeInv, Holds
<1>11. Done' = Done
  BY <1>1, <1>2, <1>3, <1>4 DEF Done, Before, Holds
<1>12. d[i].regs \in [Half -> Reg]
  BY <1>1, <1>5 DEF TypeInv, Peripherals, Pair
<1>13. CASE p[i].state = "Request"
  <2>1. /\ p'[i].state = "WaitResp" /\ ~p'[i].req_valid /\ ~p'[i].resp_valid
        /\ d'[i].resp_valid /\ d'[i].resp_rdata = d[i].regs[h]
        /\ d'[i].regs = IF req.write THEN [d[i].regs EXCEPT ![h] = req.data[h]] ELSE d[i].regs
    <3>1. /\ p'[i].state = "WaitResp" /\ ~p'[i].req_valid /\ ~p'[i].resp_valid
          /\ d'[i].resp_valid /\ d'[i].resp_rdata = d[i].regs[h]
          /\ d'[i].regs = IF p[i].req_write
                          THEN [d[i].regs EXCEPT ![p[i].req_half] = p[i].req_wdata] ELSE d[i].regs
      BY <1>1, <1>5, <1>6, <1>8, <1>13, SlaveWorks
    <3>2. CASE req.write
      BY <1>6, <1>13, <3>1, <3>2
    <3>3. CASE ~req.write
      BY <1>6, <1>13, <3>1, <3>3
    <3> QED BY <1>1, <3>2, <3>3
  <2>2. SlaveInv'
    BY <1>1, <1>2, <1>3, <1>4, <1>7, <2>1 DEF SlaveInv, Holds
  <2>3. Written = Done /\ Written' = Done \cup {h}
    BY <1>1, <1>3, <1>4, <1>5, <1>11, <1>13, <2>1 DEF Written, Holds
  <2>4. h \notin Done
    BY <1>1 DEF Before, Half
  <2>5. RegsInv'
    <3>1. ASSUME NEW j \in Devices, NEW g \in Half
          PROVE  d'[j].regs[g] = IF req.write /\ i = j /\ g \in Written'
                                 THEN req.data[g] ELSE golden[j][g]
      <4>1. CASE j # i
        BY <1>1, <1>7, <3>1, <4>1 DEF RegsInv
      <4>2. CASE j = i /\ req.write
        BY <1>1, <1>12, <2>1, <2>3, <3>1, <4>2 DEF RegsInv
      <4>3. CASE j = i /\ ~req.write
        BY <1>1, <2>1, <3>1, <4>3 DEF RegsInv
      <4> QED BY <4>1, <4>2, <4>3
    <3> QED BY <1>2, <3>1 DEF RegsInv
  <2>6. ReadInv' /\ ErrInv'
    <3>1. ~req.write => d[i].regs[h] = golden[i][h]
      BY <1>1, <1>5 DEF RegsInv
    <3> QED BY <1>1, <1>2, <1>3, <1>4, <1>11, <2>1, <3>1 DEF ReadInv, ErrInv, Holds
  <2> QED BY <1>2, <1>9, <1>10, <2>2, <2>5, <2>6 DEF ApbInv
<1>14. CASE p[i].state = "WaitResp"
  <2>1. /\ p'[i].state = "Resp" /\ ~p'[i].req_valid /\ p'[i].resp_valid
        /\ p'[i].resp_rdata = d[i].resp_rdata /\ d'[i].regs = d[i].regs
    BY <1>1, <1>5, <1>6, <1>8, <1>14, SlaveWorks
  <2>2. SlaveInv'
    BY <1>1, <1>2, <1>3, <1>4, <1>7, <2>1 DEF SlaveInv, Holds
  <2>3. Written' = Written
    BY <1>1, <1>3, <1>4, <1>5, <1>11, <1>14, <2>1 DEF Written, Holds
  <2>4. RegsInv'
    BY <1>1, <1>2, <1>7, <2>1, <2>3 DEF RegsInv
  <2>5. ReadInv' /\ ErrInv'
    <3>1. ~req.write => d[i].resp_rdata = golden[i][h]
      BY <1>1, <1>5, <1>14 DEF ReadInv
    <3> QED BY <1>1, <1>2, <1>3, <1>4, <1>11, <2>1, <3>1 DEF ReadInv, ErrInv, Holds
  <2> QED BY <1>2, <1>9, <1>10, <2>2, <2>4, <2>5 DEF ApbInv
<1> QED BY <1>6, <1>13, <1>14

\* the halves of a bus word, in their order
LEMMA HalfFacts ==
    ASSUME ~Bursts, ApbInv, Under, b.state \in {"setup", "access"}
    PROVE  /\ b.size = 8 => /\ b.phalf = 0 /\ Touched(req) = {0, 1} /\ Before(0) = {}
                            /\ Before(1) = {0} /\ req.shape.size = 8
           /\ b.size = 4 => Touched(req) = Before(b.phalf) \cup {b.phalf}
<1>1. /\ req \in Requests
      /\ \/ b.size = req.shape.size /\ b.phalf = req.shape.half
         \/ b.size = 4 /\ b.phalf = 1 /\ req.shape.size = 8
  BY UnderFacts DEF BridgeInv
<1>2. CASE req.shape.size = 8
  BY <1>1, <1>2, ShapeFacts DEF Before
<1>3. CASE req.shape.size = 4
  BY <1>1, <1>3, ShapeFacts DEF Before, Half
<1> QED BY <1>1, <1>2, <1>3, ShapeFacts

\* the transfer of a half ends
LEMMA TransferKeeps ==
    ASSUME ~Bursts, ApbInv, Clock, Under, b.state = "access", Pready(b.selidx)
    PROVE  ApbInv'
<1> DEFINE i == req.addr
           h == b.phalf
<1>1. /\ TypeInv /\ BridgeInv /\ SlaveInv /\ RegsInv /\ ReadInv /\ b.selidx = i
      /\ ~b.pvalid /\ b.pselx /\ Done = Before(h) /\ phase = "wait" /\ h \in Half
      /\ req.write \in BOOLEAN /\ (b.pwrite <=> req.write) /\ b.penable /\ b.size \in {4, 8}
      /\ i \in 0 .. ND /\ (i \in Devices <=> i # ND) /\ req \in Requests /\ b \in Bridges
  BY UnderFacts DEF BridgeInv
<1>2. /\ x' \in S!SlvRegisters /\ AdapterInv' /\ x'.state = x.state
      /\ golden' = golden /\ told' = None /\ req' = req /\ phase' = "wait" /\ got' = 0
  BY <1>1, AdapterWaits
<1>3. /\ b' \in Bridges /\ b'.prdata = [b.prdata EXCEPT ![h] = Prdata(i)]
      /\ ~b'.penable /\ b'.selidx = i
      /\ b.size = 8 => /\ b'.state = "setup" /\ ~b'.pvalid /\ b'.pselx = b.pselx
                       /\ b'.pwrite = b.pwrite /\ b'.phalf = 1 /\ b'.pwdata = x.req_wdata[1]
                       /\ b'.size = 4
      /\ b.size = 4 => b'.state = "out" /\ b'.pvalid /\ ~b'.pselx /\ b'.pslverr = (i = ND)
  BY <1>1, BridgeTransfers
<1>4. Under' /\ (Touched(req))' = Touched(req) /\ x.state # "out_r" /\ b'.state # "access"
  BY <1>1, <1>2, <1>3 DEF Under, Touched
<1>5. i # ND => p[i].state = "Resp" /\ ~p[i].req_valid
  BY <1>1, UnderFacts DEF Pready, SlaveInv
<1>6. \A j \in Devices : SlaveQuiet(j)' /\ d'[j].regs = d[j].regs
  <2>1. ASSUME NEW j \in Devices PROVE SlaveQuiet(j)' /\ d'[j].regs = d[j].regs
    <3>1. CASE j # i
      <4>1. SlaveQuiet(j) /\ ~Pselx(j)
        BY <1>1, <3>1 DEF SlaveInv, Pselx
      <4> QED BY <1>1, <4>1, SlaveRests
    <3>2. CASE j = i
      <4>1. Pselx(j) /\ p[j].state = "Resp" /\ ~p[j].req_valid
        BY <1>1, <1>5, <3>2 DEF Pselx
      <4> QED BY <1>1, <4>1, SlaveWorks
    <3> QED BY <3>1, <3>2
  <2> QED BY <2>1
<1>7. TypeInv'
  BY <1>1, <1>2, <1>3, SlavesTyped, ZenonT(60) DEF TypeInv
<1>8. SlaveInv'
  BY <1>4, <1>6 DEF SlaveInv
<1>9. BridgeInv'
  <2>1. CASE b.size = 8
    <3>1. req.write => x.req_wdata = req.data
      BY <1>1, UnderFacts DEF AdapterInv
    <3> QED BY <1>1, <1>2, <1>3, <1>4, <2>1, <3>1, HalfFacts DEF BridgeInv
  <2>2. CASE b.size = 4
    <3>1. b'.pslverr <=> i = ND
      BY <1>3, <2>2
    <3> QED BY <1>2, <1>3, <1>4, <2>2, <3>1 DEF BridgeInv
  <2> QED BY <1>1, <2>1, <2>2
<1>10. Done' = Done \cup {h}
  <2>1. CASE b.size = 8
    <3>1. Done' = Before(1)
      BY <1>2, <1>3, <1>4, <2>1 DEF Done, Before
    <3> QED BY <1>1, <2>1, <3>1, HalfFacts
  <2>2. CASE b.size = 4
    <3>1. Done' = Touched(req)
      BY <1>2, <1>3, <1>4, <2>2 DEF Done
    <3> QED BY <1>1, <2>2, <3>1, HalfFacts
  <2> QED BY <1>1, <2>1, <2>2
<1>11. Written' = Done'
  BY <1>4 DEF Written
<1>12. i # ND => Written = Done \cup {h}
  BY <1>1, <1>5 DEF Written
<1>13. RegsInv'
  <2>1. ASSUME NEW j \in Devices, NEW g \in Half
        PROVE  d'[j].regs[g] = IF req.write /\ i = j /\ g \in Written'
                               THEN req.data[g] ELSE golden[j][g]
    <3>1. CASE j # i
      BY <1>1, <1>6, <2>1, <3>1 DEF RegsInv
    <3>2. CASE j = i
      <4>1. i # ND
        BY <1>1, <2>1, <3>2
      <4> QED BY <1>1, <1>6, <1>10, <1>11, <1>12, <2>1, <3>2, <4>1 DEF RegsInv
    <3> QED BY <3>1, <3>2
  <2> QED BY <1>2, <2>1 DEF RegsInv
<1>14. ReadInv' /\ ErrInv'
  <2>1. ASSUME ~req.write, i # ND, NEW g \in Done' PROVE golden[i][g] = b'.prdata[g]
    <3>1. b.prdata \in [Half -> Reg]
      BY <1>1 DEF Bridges, Pair
    <3>2. CASE g = h
      <4>1. Prdata(i) = golden[i][h]
        BY <1>1, <1>5, <2>1 DEF ReadInv, Prdata
      <4> QED BY <1>1, <1>3, <3>1, <3>2, <4>1
    <3>3. CASE g # h
      <4>1. g \in Done /\ g \in Half
        BY <1>1, <1>10, <2>1, <3>3 DEF Before, Touched
      <4>2. golden[i][g] = b.prdata[g]
        BY <1>1, <1>4, <2>1, <4>1 DEF ReadInv
      <4> QED BY <1>1, <1>3, <3>1, <3>3, <4>1, <4>2
    <3> QED BY <3>2, <3>3
  <2> QED BY <1>2, <1>4, <2>1 DEF ReadInv, ErrInv
<1> QED BY <1>2, <1>7, <1>8, <1>9, <1>13, <1>14 DEF ApbInv

\* the bridge answers: a write ends, the response of a read is offered
LEMMA OutKeeps ==
    ASSUME ~Bursts, ApbInv, Clock, Under, b.state = "out"
    PROVE  ApbInv'
<1> DEFINE i == req.addr
<1>1. /\ TypeInv /\ AdapterInv /\ BridgeInv /\ SlaveInv /\ RegsInv /\ ReadInv /\ b.selidx = i
      /\ b.pvalid /\ ~b.pselx /\ ~b.penable /\ Done = Touched(req) /\ Written = Done
      /\ phase = "wait" /\ got = 0 /\ req # None
      /\ req.write \in BOOLEAN /\ (b.pslverr <=> i = ND) /\ b.pslverr \in BOOLEAN
      /\ i \in 0 .. ND /\ (i \in Devices <=> i # ND) /\ req \in Requests /\ b \in Bridges
      /\ b.prdata \in Pair /\ x \in S!SlvRegisters /\ x.req_id = req.shape /\ ~x.req_valid
      /\ ~x.resp_valid /\ x.state = (IF req.write THEN "b" ELSE "data_r")
      /\ x.req_len = 0
  BY UnderFacts DEF TypeInv, AdapterInv, BridgeInv, Bridges, Under
<1>2. /\ BridgeQuiet' /\ b' \in Bridges
      /\ p' \in [Devices -> Adapters] /\ d' \in [Devices -> Peripherals]
  BY <1>1, BridgeRests, SlavesTyped
<1>3. \A j \in Devices : SlaveQuiet(j)' /\ d'[j].regs = d[j].regs
  BY <1>1, SlaveRests DEF SlaveInv, Pselx
<1>4. req.len = 0 /\ req.shape \in Shapes /\ req.data \in Pair
  BY <1>1, ShapeFacts
<1> DEFINE resp == [data |-> b.prdata, err |-> b.pslverr]
<1>5. resp # None /\ resp.data = b.prdata /\ resp.err = b.pslverr
  <2>1. resp \in [data : Pair, err : BOOLEAN]
    BY <1>1
  <2> QED BY <2>1, NoneAssumption
<1>6. CASE req.write
  <2>1. x' = [x EXCEPT !.req_done = FALSE, !.state = "Idle"]
    BY <1>1, <1>5, <1>6 DEF Clock, S!SlvNext, S!SlvB
  <2>2. x' \in S!SlvRegisters /\ x'.state = "Idle" /\ ~x'.req_valid /\ ~x'.resp_valid
    BY <1>1, <2>1, ZenonT(60) DEF S!SlvRegisters, S!SlvStates
  <2> DEFINE bb == [id |-> x.req_id, err |-> resp.err]
  <2>3. bb # None /\ bb.err = b.pslverr
    <3>1. bb \in [id : Shapes, err : BOOLEAN]
      BY <1>1, <1>4, <1>5
    <3> QED BY <1>5, <3>1, NoneAssumption
  <2>4. S!SlvBOut(x, resp) = bb
    BY <1>1, <1>5, <1>6 DEF S!SlvBOut
  <2> HIDE DEF bb
  <2>5. req' = None /\ phase' = "rest" /\ got' = 0
    BY <1>1, <2>3, <2>4 DEF Clock
  <2>6. told' = Judge(Zeros, bb.err)
    BY <1>1, <2>3, <2>4 DEF Clock
  <2>7. golden' = IF ~bb.err /\ i # ND
                  THEN [golden EXCEPT ![i] = [h \in Half |-> IF h \in Touched(req)
                                              THEN req.data[h] ELSE golden[i][h]]]
                  ELSE golden
    BY <1>1, <2>3, <2>4 DEF Clock, TypeInv
  <2>8. told' = "good"
    BY <1>1, <1>4, <1>6, <2>3, <2>6 DEF Judge
  <2>9. /\ golden' \in [Devices -> Pair]
        /\ \A j \in Devices, h \in Half :
              golden'[j][h] = IF i = j /\ h \in Touched(req) THEN req.data[h] ELSE golden[j][h]
    <3> DEFINE new == [h \in Half |-> IF h \in Touched(req) THEN req.data[h] ELSE golden[i][h]]
    <3>1. golden \in [Devices -> Pair]
      BY <1>1 DEF TypeInv
    <3>2. CASE i = ND
      BY <1>1, <2>3, <2>7, <3>1, <3>2
    <3>3. CASE i # ND
      <4>1. golden[i] \in [Half -> Reg] /\ req.data \in [Half -> Reg] /\ i \in Devices
        BY <1>1, <1>4, <3>1, <3>3 DEF Pair
      <4>2. new \in Pair
        BY <4>1 DEF Pair
      <4>3. golden' = [golden EXCEPT ![i] = new]
        BY <1>1, <2>3, <2>7, <3>3
      <4>4. \A h \in Half : new[h] = IF h \in Touched(req) THEN req.data[h] ELSE golden[i][h]
        OBVIOUS
      <4> HIDE DEF new
      <4> QED BY <3>1, <4>1, <4>2, <4>3, <4>4
    <3> QED BY <3>2, <3>3
  <2>10. TypeInv'
    BY <1>2, <2>2, <2>5, <2>8, <2>9 DEF TypeInv, BridgeQuiet
  <2>11. AdapterInv' /\ BridgeInv' /\ ReadInv' /\ ErrInv'
    BY <1>2, <2>2, <2>5 DEF AdapterInv, BridgeInv, Under, BridgeQuiet, ReadInv, ErrInv
  <2>12. SlaveInv'
    BY <1>3, <2>5 DEF SlaveInv, Under
  <2>13. RegsInv'
    BY <1>1, <1>3, <1>6, <2>5, <2>9 DEF RegsInv
  <2> QED BY <2>10, <2>11, <2>12, <2>13 DEF ApbInv
<1>7. CASE ~req.write
  <2>1. x.req_done /\ x.req_last_r
    BY <1>1, <1>7 DEF AdapterInv
  <2>2. x' = [x EXCEPT !.req_done = FALSE, !.resp_valid = TRUE, !.resp_last = x.req_last_r,
                       !.resp_rdata = b.prdata, !.resp_err = b.pslverr, !.state = "out_r",
                       !.req_valid = FALSE]
    <3>1. x' = S!SlvDataR(x, [aw |-> None, ar |-> None, w |-> None, b_ready |-> TRUE,
                              r_ready |-> TRUE], b.state = "Idle", resp)
      BY <1>1, <1>7 DEF Clock, S!SlvNext
    <3> HIDE DEF resp
    <3>2. x' = [[x EXCEPT !.req_done = FALSE, !.resp_valid = TRUE, !.resp_last = x.req_last_r,
                       !.resp_rdata = resp.data, !.resp_err = resp.err, !.state = "out_r"]
                  EXCEPT !.req_valid = FALSE]
      BY <1>1, <1>5, <2>1, <3>1 DEF S!SlvDataR
    <3> QED BY <1>5, <3>2
  <2>3. /\ x' \in S!SlvRegisters /\ x'.state = "out_r" /\ ~x'.req_valid /\ x'.resp_valid
        /\ x'.req_id = req.shape /\ x'.req_len = 0 /\ x'.resp_rdata = b.prdata
        /\ x'.resp_err = b.pslverr
    <3> DEFINE err == b.pslverr
               word == b.prdata
               last == x.req_last_r
    <3>1. err \in BOOLEAN /\ word \in Pair /\ last \in BOOLEAN /\ "out_r" \in S!SlvStates
      BY <1>1 DEF S!SlvRegisters, S!SlvStates
    <3> HIDE DEF err, word, last
    <3>2. x' = [x EXCEPT !.req_done = FALSE, !.resp_valid = TRUE, !.resp_last = last,
                         !.resp_rdata = word, !.resp_err = err, !.state = "out_r",
                         !.req_valid = FALSE]
      BY <2>2 DEF err, word, last
    <3>3. /\ x' \in S!SlvRegisters /\ x'.state = "out_r" /\ ~x'.req_valid /\ x'.resp_valid
          /\ x'.req_id = x.req_id /\ x'.req_len = x.req_len /\ x'.resp_rdata = word
          /\ x'.resp_err = err
      BY <1>1, <3>1, <3>2, ZenonT(60) DEF S!SlvRegisters
    <3> QED BY <1>1, <3>3 DEF err, word
  <2>4. golden' = golden /\ told' = None /\ req' = req /\ phase' = "wait" /\ got' = 0
    BY <1>1, <1>4, <1>7 DEF Clock, S!SlvROut, S!SlvBOut
  <2>5. TypeInv'
    BY <1>1, <1>2, <2>3, <2>4 DEF TypeInv, BridgeQuiet
  <2>6. AdapterInv' /\ BridgeInv'
    BY <1>1, <1>2, <1>7, <2>3, <2>4 DEF AdapterInv, BridgeInv, Under, BridgeQuiet
  <2>7. SlaveInv'
    BY <1>3, <2>3 DEF SlaveInv, Under
  <2>8. RegsInv'
    BY <1>1, <1>3, <1>7, <2>4 DEF RegsInv
  <2>9. ReadInv' /\ ErrInv'
    <3>1. Done' = Done
      BY <1>1, <2>3, <2>4 DEF Done, Under, Touched
    <3>2. ~Under'
      BY <2>3 DEF Under
    <3> QED BY <1>1, <1>7, <2>3, <2>4, <3>1, <3>2 DEF ReadInv, ErrInv
  <2> QED BY <2>5, <2>6, <2>7, <2>8, <2>9 DEF ApbInv
<1> QED BY <1>1, <1>6, <1>7

\* the master takes the response of its read
LEMMA ReadOutKeeps ==
    ASSUME ~Bursts, ApbInv, Clock, phase = "wait", x.state = "out_r"
    PROVE  ApbInv'
<1> DEFINE i == req.addr
<1>1. /\ TypeInv /\ AdapterInv /\ RegsInv /\ ReadInv /\ ErrInv /\ got = 0 /\ req # None
      /\ x \in S!SlvRegisters /\ x.req_id = req.shape /\ ~x.req_valid /\ x.resp_valid
      /\ ~req.write /\ req \in Requests /\ ~Under
  BY DEF ApbInv, TypeInv, AdapterInv, Under
<1>2. /\ BridgeQuiet' /\ b' \in Bridges /\ p' \in [Devices -> Adapters]
      /\ d' \in [Devices -> Peripherals]
      /\ \A j \in Devices : SlaveQuiet(j)' /\ d'[j].regs = d[j].regs
  BY <1>1, QuietClock
<1>3. req.len = 0 /\ req.shape \in Shapes
  BY <1>1, ShapeFacts
<1> DEFINE rr == [id |-> x.req_id, data |-> x.resp_rdata, last |-> x.resp_last,
                  err |-> x.resp_err]
<1>4. rr # None /\ rr.data = x.resp_rdata /\ rr.err = x.resp_err /\ S!SlvROut(x) = rr
  <2>1. rr \in [id : Shapes, data : Pair, last : BOOLEAN, err : BOOLEAN]
    BY <1>1, <1>3 DEF S!SlvRegisters
  <2>2. S!SlvROut(x) = rr
    BY <1>1 DEF S!SlvROut
  <2> QED BY <2>1, <2>2, NoneAssumption
<1> HIDE DEF rr
<1>5. req' = None /\ phase' = "rest" /\ got' = 0
  BY <1>1, <1>3, <1>4 DEF Clock
<1>6. golden' = golden /\ told' = Judge(rr.data, rr.err)
  BY <1>1, <1>3, <1>4 DEF Clock, S!SlvBOut
<1>7. told' = "good"
  <2>1. (x.resp_err <=> i = ND) /\ x.resp_err \in BOOLEAN
    BY <1>1 DEF ErrInv, S!SlvRegisters
  <2>2. i # ND => \A h \in Touched(req) : x.resp_rdata[h] = golden[i][h]
    BY <1>1 DEF ReadInv, Done
  <2> QED BY <1>1, <1>3, <1>4, <1>6, <2>1, <2>2 DEF Judge
<1>8. x' = [x EXCEPT !.req_last_a = FALSE, !.req_last_r = FALSE, !.resp_last = FALSE,
                     !.resp_valid = FALSE, !.state = "Idle"]
  BY <1>1 DEF Clock, S!SlvNext, S!SlvOutR
<1>9. x' \in S!SlvRegisters /\ x'.state = "Idle" /\ ~x'.req_valid /\ ~x'.resp_valid
  BY <1>1, <1>8 DEF S!SlvRegisters, S!SlvStates
<1>10. TypeInv'
  BY <1>1, <1>2, <1>5, <1>6, <1>7, <1>9 DEF TypeInv, BridgeQuiet
<1>11. AdapterInv' /\ BridgeInv' /\ ReadInv' /\ ErrInv'
  BY <1>2, <1>5, <1>9 DEF AdapterInv, BridgeInv, Under, BridgeQuiet, ReadInv, ErrInv
<1>12. SlaveInv'
  BY <1>2, <1>5 DEF SlaveInv, Under
<1>13. RegsInv'
  BY <1>1, <1>2, <1>5, <1>6 DEF RegsInv
<1> QED BY <1>10, <1>11, <1>12, <1>13 DEF ApbInv

----------------------------------------------------------------------------
\* Every behaviour of a master that sends no burst.

\* the reset state
LEMMA ApbStart == Init => ApbInv
<1>1. SUFFICES ASSUME Init PROVE ApbInv
  OBVIOUS
<1>2. 0 \in Reg /\ ND \in Nat /\ ND # 0
  BY ApbAssumption
<1>3. Zeros \in Pair
  BY <1>2 DEF Zeros, Pair
<1>4. x \in S!SlvRegisters /\ x.state = "Idle" /\ ~x.req_valid /\ ~x.resp_valid
  <2> DEFINE z == Zeros
  <2>1. x = [state |-> "Idle", req_valid |-> FALSE, req_addr |-> 0, req_write |-> FALSE,
             req_wdata |-> z, req_wstrb |-> FALSE, req_len |-> 0, req_id |-> None,
             req_incr |-> FALSE, req_last_a |-> FALSE, req_last_r |-> FALSE,
             req_done |-> FALSE, resp_valid |-> FALSE, resp_last |-> FALSE,
             resp_rdata |-> z, resp_err |-> FALSE]
    BY <1>1 DEF Init, S!SlvReset
  <2>2. 0 \in 0 .. (ND + 1) - 1 /\ 0 \in 0 .. 1 /\ z \in Pair
    BY <1>2, <1>3
  <2> HIDE DEF z
  <2> QED BY <2>1, <2>2 DEF S!SlvRegisters, S!SlvStates
<1>5. BridgeQuiet /\ b \in Bridges
  BY <1>1, <1>2, <1>3 DEF Init, BridgeReset, BridgeQuiet, Bridges, Half
<1>6. p \in [Devices -> Adapters] /\ \A i \in Devices : SlaveQuiet(i)
  BY <1>1, <1>2 DEF Init, PslvReset, SlaveQuiet, Adapters, Half
<1>7. /\ d \in [Devices -> Peripherals] /\ golden \in [Devices -> Pair]
      /\ \A i \in Devices : d[i].regs = golden[i]
  BY <1>1, <1>2, <1>3 DEF Init, Peripherals
<1>8. req = None /\ phase = "rest" /\ got = 0 /\ told = None
  BY <1>1 DEF Init
<1>9. TypeInv
  BY <1>4, <1>5, <1>6, <1>7, <1>8 DEF TypeInv, BridgeQuiet
<1>10. AdapterInv /\ BridgeInv /\ SlaveInv /\ RegsInv /\ ReadInv /\ ErrInv
  BY <1>4, <1>5, <1>6, <1>7, <1>8 DEF AdapterInv, BridgeInv, SlaveInv, RegsInv, ReadInv, ErrInv,
     Under
<1> QED BY <1>9, <1>10 DEF ApbInv

\* every clock keeps the invariant
LEMMA ApbStep == ASSUME ~Bursts PROVE ApbInv /\ [Next]_vars => ApbInv'
<1>1. ASSUME ApbInv, Clock PROVE ApbInv'
  <2>1. /\ phase \in {"rest", "addr", "data", "wait"}
        /\ phase = "wait" => x.state \in {"burst_w", "b", "addr_r", "data_r", "out_r"}
        /\ Under => b.state \in {"setup", "access", "out"}
    BY <1>1 DEF ApbInv, TypeInv, AdapterInv, BridgeInv, Bridges
  <2>2. CASE Under
    BY <1>1, <2>1, <2>2, SetupKeeps, AccessWaits, TransferKeeps, OutKeeps
  <2>3. CASE ~Under
    BY <1>1, <2>1, <2>3, RestKeeps, AddrKeeps, DataKeeps, IssueKeeps, ReadOutKeeps DEF Under
  <2> QED BY <2>2, <2>3
<1>2. ASSUME ApbInv, UNCHANGED vars PROVE ApbInv'
  BY <1>2 DEF vars, ApbInv, TypeInv, AdapterInv, BridgeInv, SlaveInv, RegsInv, ReadInv, ErrInv,
     Under, BridgeQuiet, SlaveQuiet, Done, Written, Before, Touched
<1> QED BY <1>1, <1>2 DEF Next

(***************************************************************************)
(* A read of one or both registers of a bus word gives what was written    *)
(* last, and an error answers an access outside of every peripheral, and   *)
(* only that, for any number of peripherals (State_access of               *)
(* axi2apb_bus1.cpp with the adapters in front and behind).                *)
(***************************************************************************)
THEOREM ReadsLast == ASSUME ~Bursts PROVE Spec => []ReadsLastWrite
<1>1. ApbInv => ReadsLastWrite
  BY NoneAssumption DEF ApbInv, TypeInv, ReadsLastWrite
<1> QED BY <1>1, ApbStart, ApbStep, PTL DEF Spec

(***************************************************************************)
(* Between requests nothing is left over in the chain of state machines,   *)
(* and every peripheral holds what the answered writes left.               *)
(***************************************************************************)
THEOREM NothingLeft == ASSUME ~Bursts PROVE Spec => []QuietAtRest
<1>1. ApbInv => QuietAtRest
  <2>1. SUFFICES ASSUME ApbInv PROVE QuietAtRest
    OBVIOUS
  <2>2. TypeOK
    BY <2>1 DEF ApbInv, TypeInv, TypeOK, Bridges, Adapters, Peripherals
  <2>3. ASSUME phase = "rest"
        PROVE  /\ x.state = "Idle" /\ ~x.req_valid /\ b.state = "Idle" /\ ~b.pselx
               /\ \A i \in Devices : /\ p[i].state = "Idle" /\ ~p[i].req_valid
                                     /\ d[i].regs = golden[i]
    <3>1. x.state = "Idle" /\ ~x.req_valid /\ ~Under /\ BridgeQuiet
      BY <2>1, <2>3 DEF ApbInv, AdapterInv, BridgeInv, Under
    <3>2. ASSUME NEW i \in Devices PROVE SlaveQuiet(i) /\ d[i].regs = golden[i]
      <4>1. SlaveQuiet(i)
        BY <2>1, <3>1 DEF ApbInv, SlaveInv
      <4>2. d[i].regs \in [Half -> Reg] /\ golden[i] \in [Half -> Reg]
        BY <2>1 DEF ApbInv, TypeInv, Peripherals, Pair
      <4>3. \A h \in Half : d[i].regs[h] = golden[i][h]
        BY <2>1, <2>3 DEF ApbInv, RegsInv
      <4> QED BY <4>1, <4>2, <4>3
    <3> QED BY <3>1, <3>2 DEF BridgeQuiet, SlaveQuiet
  <2> QED BY <2>2, <2>3 DEF QuietAtRest
<1> QED BY <1>1, ApbStart, ApbStep, PTL DEF Spec
============================================================================
