----------------------------- MODULE ICacheLru -----------------------------
(***************************************************************************)
(* L1 instruction cache: sc/rtl/riverlib/cache/icache_lru.cpp.  A fetch    *)
(* returns the 32-bit word at its address and the next one, which may be   *)
(* in the next line; both lines have to be present before it is answered.  *)
(***************************************************************************)
EXTENDS TagMemCoupled

CONSTANT None

States == {"Idle", "CheckHit", "TranslateAddress", "WaitGrant", "WaitResp",
           "CheckResp", "SetupReadAdr", "FlushAddr", "FlushCheck", "Reset",
           "ResetWrite"}

\* (1 << (CFG_ILOG2_LINES_PER_WAY + CFG_ILOG2_NWAYS)) - 1
FLUSH_ALL_VALUE == 2 * NSets * Ways - 1

VARIABLE r      \* ICacheLru_registers

ivars == <<linevars, r>>

Contents == [Words -> Values]
Blank == [w \in Words |-> 0]
Ones  == [w \in Words |-> 1]    \* ~0: what a refused fetch returns

Registers ==
    [state : States, req_addr : LineAddrs, req_addr_next : LineAddrs,
     write_addr : LineAddrs, req_mem_valid : BOOLEAN, mem_addr : LineAddrs,
     cached : BOOLEAN, load_fault : BOOLEAN, req_flush : BOOLEAN,
     req_flush_all : BOOLEAN, req_flush_addr : LineAddrs,
     req_flush_cnt : 0 .. FLUSH_ALL_VALUE, flush_cnt : 0 .. FLUSH_ALL_VALUE,
     cache_line_i : Contents]

IInit ==
    /\ LineInit
    /\ r = [state |-> "Reset", req_addr |-> ZeroAddr, req_addr_next |-> ZeroAddr,
            write_addr |-> ZeroAddr, req_mem_valid |-> FALSE, mem_addr |-> ZeroAddr,
            cached |-> FALSE, load_fault |-> FALSE, req_flush |-> TRUE,
            req_flush_all |-> FALSE, req_flush_addr |-> ZeroAddr,
            req_flush_cnt |-> 0, flush_cnt |-> 0, cache_line_i |-> Blank]

LineOf(a) == [a EXCEPT !.word = 0, !.way = 0]
DWordOf(a) == [a EXCEPT !.word = (@ \div 2) * 2, !.way = 0]

----------------------------------------------------------------------------
(***************************************************************************)
(* in is the record of the inputs of a clock:                              *)
(*   req : None or the address of a fetch;  resp_ready : BOOLEAN;          *)
(*   flush : None or [all, addr] (bit 0 and the rest of the address);      *)
(*   pmp_x, cached : BOOLEAN for the address r.req_addr;                   *)
(*   mem_ready : BOOLEAN;  mem : None or [data, fault].                    *)
(***************************************************************************)
\* a counter as long as the lines of one way
FlushRequest_OneWay(q, in) ==
    IF in.flush = None THEN q
    ELSE [q EXCEPT !.req_flush = TRUE, !.req_flush_all = in.flush.all,
                   !.req_flush_cnt = IF in.flush.all THEN 2 * NSets - 1 ELSE 0,
                   !.req_flush_addr = IF in.flush.all THEN ZeroAddr ELSE in.flush.addr]

\* flush request of the fence
FlushRequest(q, in) ==
    IF in.flush = None THEN q
    ELSE [q EXCEPT !.req_flush = TRUE, !.req_flush_all = in.flush.all,
                   !.req_flush_cnt = IF in.flush.all THEN FLUSH_ALL_VALUE ELSE 0,
                   !.req_flush_addr = IF in.flush.all THEN ZeroAddr ELSE in.flush.addr]

\* way by way, then line by line
AddrDirectNext ==
    IF r.req_addr.way = Ways - 1
    THEN LineOf(AddrNext(r.req_addr)) ELSE [r.req_addr EXCEPT !.way = @ + 1]

BothHit == LineHit /\ HitNext

\* the state machine takes the next request
ReadyNext(in) ==
    \/ r.state = "Idle"
    \/ r.state = "CheckHit" /\ BothHit /\ in.resp_ready

ReqReady(in) == ReadyNext(in) /\ ~r.req_flush

\* the line to be loaded: the own line before the next one
Missing ==
    IF ~LineHit THEN [write |-> r.req_addr, mem |-> LineOf(r.req_addr)]
    ELSE [write |-> r.req_addr_next, mem |-> LineOf(r.req_addr_next)]

Uncacheable == ~r.cached \/ r.load_fault

\* the answer of a clock, None without one
Resp(in) ==
    IF r.state = "CheckHit" /\ BothHit
    THEN [data |-> <<RData[r.req_addr.word], RData[r.req_addr.word + 1]>>,
          addr |-> r.req_addr, fault |-> FALSE]
    ELSE IF r.state = "CheckResp" /\ Uncacheable
    THEN LET s == r.req_addr.word % 2
         IN  [data |-> <<r.cache_line_i[s], r.cache_line_i[s + 1]>>,
              addr |-> r.req_addr, fault |-> r.load_fault]
    ELSE None

----------------------------------------------------------------------------

TranslateAddress(in) ==
    IF ~in.pmp_x
    THEN [r EXCEPT !.cache_line_i = Ones, !.state = "CheckResp", !.load_fault = TRUE]
    ELSE LET m == IF in.cached THEN Missing
                  ELSE [write |-> r.req_addr, mem |-> DWordOf(r.req_addr)]
         IN  [r EXCEPT !.req_mem_valid = TRUE, !.state = "WaitGrant",
                       !.write_addr = m.write, !.mem_addr = m.mem,
                       !.load_fault = FALSE, !.cached = in.cached]

WaitResp(in) ==
    IF in.mem = None THEN r
    ELSE [r EXCEPT !.cache_line_i = in.mem.data, !.state = "CheckResp",
                   !.write_addr = r.req_addr, !.req_addr = r.write_addr,
                   !.load_fault = @ \/ in.mem.fault]

\* the address is not put back after the line was written
CheckResp_NotRestored(in) ==
    [r EXCEPT !.state = IF ~Uncacheable THEN "SetupReadAdr"
                        ELSE IF in.resp_ready THEN "Idle" ELSE @]

CheckResp(in) ==
    [r EXCEPT !.req_addr = r.write_addr,
              !.state = IF ~Uncacheable THEN "SetupReadAdr"
                        ELSE IF in.resp_ready THEN "Idle" ELSE @]

FlushCheck ==
    IF r.flush_cnt = 0 THEN [r EXCEPT !.state = "Idle"]
    ELSE [r EXCEPT !.state = "FlushAddr", !.flush_cnt = @ - 1,
                   !.req_addr = IF r.req_flush_all THEN AddrDirectNext
                                ELSE AddrNext(r.req_addr)]

ResetWrite ==
    IF r.flush_cnt = 0 THEN [r EXCEPT !.state = "Idle"]
    ELSE [r EXCEPT !.state = "Reset", !.flush_cnt = @ - 1, !.req_addr = AddrDirectNext]

\* registers after the state machine, before a new request is taken
Worked(in) ==
    CASE r.state = "Idle" -> r
      [] r.state = "CheckHit" ->
            IF ~BothHit THEN [r EXCEPT !.state = "TranslateAddress"]
            ELSE IF in.resp_ready THEN [r EXCEPT !.state = "Idle"] ELSE r
      [] r.state = "TranslateAddress" -> TranslateAddress(in)
      [] r.state = "WaitGrant" ->
            IF in.mem_ready
            THEN [r EXCEPT !.state = "WaitResp", !.req_mem_valid = FALSE] ELSE r
      [] r.state = "WaitResp" -> WaitResp(in)
      [] r.state = "CheckResp" -> CheckResp(in)
      [] r.state = "SetupReadAdr" -> [r EXCEPT !.state = "CheckHit"]
      [] r.state = "FlushAddr" -> [r EXCEPT !.state = "FlushCheck", !.cache_line_i = Blank]
      [] r.state = "FlushCheck" -> FlushCheck
      [] r.state = "Reset" ->
            [r EXCEPT !.state = "ResetWrite",
                      !.flush_cnt = IF r.req_flush THEN FLUSH_ALL_VALUE ELSE @]
      [] r.state = "ResetWrite" -> ResetWrite

\* the flush pulse is stored first, so that Reset, and a flush that starts in
\* the same clock, clear it
Registered(in) ==
    LET f == FlushRequest(r, in)
        q == [Worked(in) EXCEPT
                !.req_flush = IF r.state = "Reset" /\ r.req_flush THEN FALSE ELSE f.req_flush,
                !.req_flush_all = f.req_flush_all, !.req_flush_cnt = f.req_flush_cnt,
                !.req_flush_addr = f.req_flush_addr]
    IN  IF ~ReadyNext(in) THEN q
        ELSE IF r.req_flush
        THEN [q EXCEPT !.state = "FlushAddr", !.req_flush = FALSE,
                       !.cache_line_i = Blank, !.req_addr = LineOf(r.req_flush_addr),
                       !.flush_cnt = r.req_flush_cnt]
        ELSE IF in.req = None THEN q
        ELSE [q EXCEPT !.req_addr = in.req, !.req_addr_next = AddrNext(in.req),
                       !.state = "CheckHit"]

\* inputs of the tag memory; addr is the address bus of the core
LineInputs(in, addr) ==
    LET fills == r.state = "CheckResp" /\ ~Uncacheable
        resets == r.state \in {"Reset", "ResetWrite"}
        flushes == r.state \in {"FlushAddr", "FlushCheck"}
    IN  [direct |-> resets \/ (flushes /\ r.req_flush_all),
         invalidate |-> r.state \in {"FlushAddr", "Reset"},
         re |-> ReqReady(in) /\ in.req # None,
         we |-> \/ fills \/ r.state = "ResetWrite"
                \/ r.state = "FlushCheck" /\ r.req_flush_all,
         addr |-> IF ReqReady(in) THEN addr ELSE r.req_addr,
         wdata |-> r.cache_line_i,
         wstrb |-> IF fills THEN Words ELSE {},
         wflags |-> IF fills THEN {"VALID"} ELSE {}]

IClock(in, addr) ==
    /\ r' = Registered(in)
    /\ LineClock(LineInputs(in, addr))
============================================================================
