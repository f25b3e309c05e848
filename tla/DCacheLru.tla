----------------------------- MODULE DCacheLru -----------------------------
(***************************************************************************)
(* L1 data cache controller: sc/rtl/riverlib/cache/dcache_lru.cpp and .h.  *)
(*                                                                         *)
(* One step of this module is one clock: the combinational process comb()  *)
(* computes the next registers and the controls of the tag memory from the *)
(* registers r and the inputs in.  There is one action per state of the    *)
(* machine; the tail of comb() (acceptance of a snoop, of a flush or of a  *)
(* request, and the tag memory clock) belongs to every action.             *)
(*                                                                         *)
(* i_resp_ready is not an input: MemAccess keeps it high (memaccess.cpp,   *)
(* o_mem_resp_ready = 1) and the MMU passes it on while it waits.          *)
(* The flush port is driven with all-ones by Proc (proc.cpp), so a flush   *)
(* always sweeps the whole cache.                                          *)
(***************************************************************************)
EXTENDS TagMemNWay

CONSTANTS
    Uncached,     \* tags the PMA table declares not cacheable
    NoAccess,     \* tags the PMP table neither lets read nor write
    CoherenceEna, \* coherence_ena_: more than one cache agent
    None          \* an input channel whose valid bit is low

ASSUME PmaAssumption == Uncached \subseteq Tags /\ NoAccess \subseteq Tags
ASSUME CoherenceAssumption == CoherenceEna \in BOOLEAN

\* MemopType bits of a request
MemopTypes == SUBSET {"Store", "Reserve", "Release"}

\* REQ_MEM_TYPE encodings of river_cfg.h
MemTypes == {"ReadNoSnoop", "ReadShared", "ReadMakeUnique",
             "WriteNoSnoop", "WriteLineUnique", "WriteBack"}
CachedType(t) == t \notin {"ReadNoSnoop", "WriteNoSnoop"}

\* SNOOP_REQ_TYPE: only flags, READDATA, READCLEAN
SnoopTypes == {"flags", "data", "clean"}

States == {"Idle", "CheckHit", "TranslateAddress", "WaitGrant", "WaitResp",
           "CheckResp", "SetupReadAdr", "WriteBus", "FlushAddr", "FlushCheck",
           "Reset", "ResetWrite", "SnoopSetupAddr", "SnoopReadData"}

FLUSH_ALL_VALUE_OneWay == NSets - 1     \* the ways are not counted
FLUSH_ALL_VALUE == NSets * Ways - 1

VARIABLE r      \* the registers of the controller

dvars == <<r, ram, lru, rd>>

Requests == [type : MemopTypes, wdata : Values]
Snoops == [type : SnoopTypes, addr : Addr]
Replies == [data : Line, fault : BOOLEAN]

(***************************************************************************)
(* Inputs of one clock: a request of the core and the address on its bus   *)
(* (driven without a request, too), a flush request, acceptance of the     *)
(* memory request, the memory response, a snoop request.                   *)
(***************************************************************************)
Inputs == [req : Requests \cup {None}, addr : Addr, flush : BOOLEAN,
           mem_ready : BOOLEAN, mem : Replies \cup {None},
           snoop : Snoops \cup {None}]

Registers ==
    [state : States, req_type : MemopTypes, req_addr : Addr,
     req_wdata : Values, mem_valid : BOOLEAN, mem_type : MemTypes,
     mem_addr : Addr, load_fault : BOOLEAN, write_first : BOOLEAN,
     write_flush : BOOLEAN, write_share : BOOLEAN,
     req_flush : BOOLEAN, req_flush_all : BOOLEAN,
     flush_cnt : 0 .. FLUSH_ALL_VALUE, line_i : Line, line_o : Line,
     snoop_type : SnoopTypes, snoop_flags_valid : BOOLEAN,
     restore : {"none", "WaitResp", "WriteBus"}, addr_restore : Addr]

DTypeOK == TagTypeOK /\ r \in Registers

\* DCacheLru_r_reset
DInit ==
    /\ TagInit
    /\ r = [state |-> "Reset", req_type |-> {}, req_addr |-> ZeroAddr,
            req_wdata |-> 0, mem_valid |-> FALSE, mem_type |-> "ReadNoSnoop",
            mem_addr |-> ZeroAddr, load_fault |-> FALSE,
            write_first |-> FALSE, write_flush |-> FALSE,
            write_share |-> FALSE, req_flush |-> TRUE,
            req_flush_all |-> FALSE, flush_cnt |-> 0, line_i |-> ZeroLine,
            line_o |-> ZeroLine, snoop_type |-> "flags",
            snoop_flags_valid |-> FALSE, restore |-> "none",
            addr_restore |-> ZeroAddr]

----------------------------------------------------------------------------
\* Small abbreviations of comb()

IsStore   == "Store" \in r.req_type
IsReserve == "Reserve" \in r.req_type
IsRelease == "Release" \in r.req_type

SameLine(a, b) == a.tag = b.tag /\ a.set = b.set
LineAddr(a) == [a EXCEPT !.word = 0, !.way = 0]

\* vb_addr_direct_next: next way, then next line
AddrDirectNext ==
    IF r.req_addr.way = Ways - 1
    THEN [r.req_addr EXCEPT !.way = 0, !.word = 0,
                            !.set = (r.req_addr.set + 1) % NSets]
    ELSE [r.req_addr EXCEPT !.way = @ + 1]

\* vb_cached_data, vb_line_rdata_o_modified, vb_cache_line_i_modified
CachedData == Out.data[r.req_addr.word]
Modified(line) == [line EXCEPT ![r.req_addr.word] = r.req_wdata]

\* a 64-bit value zero-extended to the line
ZeroExtended(x) == [w \in Words |-> IF w = 0 THEN x ELSE 0]

\* a snoop that reads the data memory, not only the flags
SnoopData(in) == CoherenceEna /\ in.snoop # None /\ in.snoop.type # "flags"

\* i_flush_valid latches a flush request in every state
Latched(in) ==
    IF in.flush THEN [r EXCEPT !.req_flush = TRUE, !.req_flush_all = TRUE]
    ELSE r

\* tag memory controls of a clock in which the machine leaves them alone
NoLineAccess ==
    [direct |-> FALSE, invalidate |-> FALSE, re |-> FALSE, we |-> FALSE,
     addr |-> r.req_addr, wdata |-> r.line_i, wstrb |-> {}, wflags |-> {}]

WriteLine(flags, data, strb) ==
    [NoLineAccess EXCEPT !.we = TRUE, !.wflags = flags, !.wdata = data,
                         !.wstrb = strb]

----------------------------------------------------------------------------
(***************************************************************************)
(* In State_Idle these registers are not read before they have been        *)
(* written again; the model gives them their reset values there.           *)
(***************************************************************************)
Rested(v) ==
    IF v.state # "Idle" THEN v
    ELSE [v EXCEPT !.req_type = {}, !.req_wdata = 0, !.mem_type = "ReadNoSnoop",
                   !.mem_addr = ZeroAddr, !.line_o = ZeroLine, !.snoop_type = "flags"]

(***************************************************************************)
(* Tail of comb(): the registers v and line controls c computed by the     *)
(* machine go to the registers and to the tag memory.  The flags-only      *)
(* snoop is served in any state unless the tags are being written.         *)
(***************************************************************************)
Clocked(in, v, c) ==
    /\ r' = [Rested(v) EXCEPT !.snoop_flags_valid =
                /\ in.snoop # None
                /\ in.snoop.type = "flags"
                /\ SnoopReady(c.we)]
    /\ TagClock([direct |-> c.direct, invalidate |-> c.invalidate,
                 re |-> c.re, we |-> c.we, addr |-> c.addr,
                 wdata |-> c.wdata, wstrb |-> c.wstrb, wflags |-> c.wflags,
                 snoop |-> IF in.snoop = None THEN ZeroAddr ELSE in.snoop.addr])

(***************************************************************************)
(* v_ready_next: a data snoop goes first, then a pending flush, then the   *)
(* core.                                                                   *)
(***************************************************************************)
ReadyNext(in, v, c) ==
    IF SnoopData(in) THEN
        Clocked(in, [v EXCEPT !.req_addr = in.snoop.addr,
                              !.snoop_type = in.snoop.type,
                              !.state = "SnoopSetupAddr"], c)
    ELSE IF r.req_flush THEN
        Clocked(in, [v EXCEPT !.req_addr = ZeroAddr, !.req_flush = FALSE,
                              !.line_i = ZeroLine,
                              !.flush_cnt = IF r.req_flush_all
                                            THEN FLUSH_ALL_VALUE ELSE 0,
                              !.state = "FlushAddr"], c)
    ELSE
        Clocked(in, IF in.req = None THEN v
                    ELSE [v EXCEPT !.req_addr = in.addr,
                                   !.req_wdata = in.req.wdata,
                                   !.req_type = in.req.type,
                                   !.state = "CheckHit"],
                [c EXCEPT !.re = (in.req # None), !.addr = in.addr])

----------------------------------------------------------------------------
\* The states of the machine

Idle(in) ==
    /\ r.state = "Idle"
    /\ ReadyNext(in, [Latched(in) EXCEPT !.load_fault = FALSE], NoLineAccess)

ReleaseFails_ValidOnly == IsRelease /\ "VALID" \notin Out.flags

\* store conditional to a line that lost its reservation
ReleaseFails == IsRelease /\ "RESERVED" \notin Out.flags

StoreFlags_NotDirty == {"VALID"}

\* flags of a line that was stored into
StoreFlags == {"VALID", "DIRTY"}

CheckHitStore(in) ==
    /\ r.state = "CheckHit" /\ Hit /\ IsStore
    /\ LET v == [Latched(in) EXCEPT !.req_type = @ \ {"Store"}, !.state = "Idle"]
           c == WriteLine(StoreFlags, Modified(Out.data), {r.req_addr.word})
       IN  IF ReleaseFails THEN Clocked(in, v, NoLineAccess)
           ELSE IF CoherenceEna /\ "SHARED" \in Out.flags
           THEN \* make the line unique with a write request
                Clocked(in, [v EXCEPT !.write_share = TRUE,
                                      !.state = "TranslateAddress"], c)
           ELSE IF SameLine(r.req_addr, in.addr) THEN ReadyNext(in, v, c)
           ELSE Clocked(in, v, c)

CheckHitReserve(in) ==
    /\ r.state = "CheckHit" /\ Hit /\ ~IsStore /\ IsReserve
    /\ Clocked(in, [Latched(in) EXCEPT !.state = "Idle"],
               WriteLine(Out.flags \cup {"RESERVED"}, ZeroExtended(CachedData), Words))

CheckHitLoad(in) ==
    /\ r.state = "CheckHit" /\ Hit /\ ~IsStore /\ ~IsReserve
    /\ ReadyNext(in, [Latched(in) EXCEPT !.state = "Idle"], NoLineAccess)

CheckMiss(in) ==
    /\ r.state = "CheckHit" /\ ~Hit
    /\ Clocked(in, [Latched(in) EXCEPT !.state =
                       IF IsStore /\ IsRelease THEN "Idle"
                       ELSE "TranslateAddress"], NoLineAccess)

TranslateFault(in) ==
    /\ r.state = "TranslateAddress" /\ r.req_addr.tag \in NoAccess
    /\ Clocked(in, [Latched(in) EXCEPT !.load_fault = TRUE, !.line_i = ZeroLine,
                                       !.state = "CheckResp"], NoLineAccess)

\* the displaced line is not looked at
CachedRequest_NoOffload ==
    [type |-> IF IsStore THEN "ReadMakeUnique" ELSE "ReadShared",
     addr |-> LineAddr(r.req_addr), first |-> FALSE]

\* request type and address of a cached access: upgrade, offload, refill
CachedRequest ==
    IF r.write_share
    THEN [type |-> "WriteLineUnique", addr |-> RAddr, first |-> FALSE]
    ELSE IF {"VALID", "DIRTY"} \subseteq Out.flags
    THEN [type |-> "WriteBack", addr |-> RAddr, first |-> TRUE]
    ELSE [type |-> IF IsStore THEN "ReadMakeUnique" ELSE "ReadShared",
          addr |-> LineAddr(r.req_addr), first |-> FALSE]

TranslateCached(in) ==
    /\ r.state = "TranslateAddress"
    /\ r.req_addr.tag \notin NoAccess \cup Uncached
    /\ Clocked(in, [Latched(in) EXCEPT !.mem_valid = TRUE, !.load_fault = FALSE,
                        !.mem_type = CachedRequest.type,
                        !.mem_addr = CachedRequest.addr,
                        !.write_first = @ \/ CachedRequest.first,
                        !.line_o = Out.data, !.line_i = ZeroLine,
                        !.state = "WaitGrant"], NoLineAccess)

TranslateUncached(in) ==
    /\ r.state = "TranslateAddress" /\ r.req_addr.tag \in Uncached \ NoAccess
    /\ Clocked(in, [Latched(in) EXCEPT !.mem_valid = TRUE, !.load_fault = FALSE,
                        !.mem_type = IF IsStore THEN "WriteNoSnoop" ELSE "ReadNoSnoop",
                        !.mem_addr = r.req_addr,
                        !.line_o = ZeroExtended(r.req_wdata), !.line_i = ZeroLine,
                        !.state = "WaitGrant"], NoLineAccess)

\* the sweep of a flush goes on without the response to its write
WaitGrant_FlushGoesOn(in) ==
    /\ r.state = "WaitGrant"
    /\ Clocked(in, IF in.mem_ready
                   THEN [Latched(in) EXCEPT !.mem_valid = FALSE, !.state =
                           IF r.write_flush THEN "FlushAddr"
                           ELSE IF \/ r.write_first \/ r.write_share
                                   \/ IsStore /\ ~CachedType(r.mem_type)
                           THEN "WriteBus" ELSE "WaitResp"]
                   ELSE Latched(in), NoLineAccess)

WaitGrant(in) ==
    /\ r.state = "WaitGrant"
    /\ Clocked(in, IF in.mem_ready
                   THEN [Latched(in) EXCEPT !.mem_valid = FALSE, !.state =
                           IF \/ r.write_flush \/ r.write_first \/ r.write_share
                              \/ IsStore /\ ~CachedType(r.mem_type)
                           THEN "WriteBus" ELSE "WaitResp"]
                   ELSE Latched(in), NoLineAccess)

\* the state to return to is not kept
SnoopOnWait_Forgets(in) ==
    Clocked(in, [Latched(in) EXCEPT !.addr_restore = r.req_addr,
                     !.req_addr = in.snoop.addr, !.snoop_type = in.snoop.type,
                     !.state = "SnoopSetupAddr"], NoLineAccess)

\* a data snoop interrupts the wait for the memory; the address is kept aside
SnoopOnWait(in) ==
    Clocked(in, [Latched(in) EXCEPT !.restore = r.state, !.addr_restore = r.req_addr,
                     !.req_addr = in.snoop.addr, !.snoop_type = in.snoop.type,
                     !.state = "SnoopSetupAddr"], NoLineAccess)

WaitResp(in) ==
    /\ r.state = "WaitResp"
    /\ IF in.mem # None
       THEN Clocked(in, [Latched(in) EXCEPT !.line_i = in.mem.data,
                            !.load_fault = @ \/ in.mem.fault,
                            !.state = "CheckResp"], NoLineAccess)
       ELSE IF SnoopData(in) THEN SnoopOnWait(in)
       ELSE Clocked(in, Latched(in), NoLineAccess)

\* no cache line to fill: uncached read, or a fault
CheckRespDirect(in) ==
    /\ r.state = "CheckResp" /\ (r.load_fault \/ ~CachedType(r.mem_type))
    /\ Clocked(in, [Latched(in) EXCEPT !.state = "Idle"], NoLineAccess)

CheckRespFill(in) ==
    /\ r.state = "CheckResp" /\ ~r.load_fault /\ CachedType(r.mem_type)
    /\ IF IsStore
       THEN Clocked(in, [Latched(in) EXCEPT !.req_type = @ \ {"Store"}, !.state = "Idle"],
                    WriteLine(StoreFlags, Modified(r.line_i), Words))
       ELSE Clocked(in, [Latched(in) EXCEPT !.state = "SetupReadAdr"],
                    WriteLine({"VALID", "SHARED"} \cup
                              (IF IsReserve THEN {"RESERVED"} ELSE {}), r.line_i, Words))

\* the refilled line is not looked up again
SetupReadAdr_ToIdle(in) ==
    /\ r.state = "SetupReadAdr"
    /\ Clocked(in, [Latched(in) EXCEPT !.state = "Idle"], NoLineAccess)

SetupReadAdr(in) ==
    /\ r.state = "SetupReadAdr"
    /\ Clocked(in, [Latched(in) EXCEPT !.state = "CheckHit"], NoLineAccess)

\* the memory acknowledges a write
WriteDone(in) ==
    IF r.write_share THEN [Latched(in) EXCEPT !.write_share = FALSE, !.state = "Idle"]
    ELSE IF r.write_flush THEN [Latched(in) EXCEPT !.state = "FlushAddr"]
    ELSE IF r.write_first
    THEN \* the displaced line was offloaded, now read the new one
         [Latched(in) EXCEPT !.mem_addr = LineAddr(r.req_addr), !.mem_valid = TRUE,
              !.write_first = FALSE,
              !.mem_type = IF IsStore THEN "ReadMakeUnique" ELSE "ReadShared",
              !.state = "WaitGrant"]
    ELSE [Latched(in) EXCEPT !.state = "Idle"]

WriteBus(in) ==
    /\ r.state = "WriteBus"
    /\ IF in.mem # None THEN Clocked(in, WriteDone(in), NoLineAccess)
       ELSE IF SnoopData(in) THEN SnoopOnWait(in)
       ELSE Clocked(in, Latched(in), NoLineAccess)

FlushAddr(in) ==
    /\ r.state = "FlushAddr"
    /\ Clocked(in, [Latched(in) EXCEPT !.write_flush = FALSE, !.line_i = ZeroLine,
                                       !.state = "FlushCheck"],
               [NoLineAccess EXCEPT !.direct = r.req_flush_all, !.invalidate = TRUE])

FlushDirty == {"VALID", "DIRTY"} \subseteq Out.flags

\* o_flush_end
FlushEnd == r.state = "FlushCheck" /\ ~FlushDirty /\ r.flush_cnt = 0

FlushCheck(in) ==
    /\ r.state = "FlushCheck"
    /\ LET swept == [Latched(in) EXCEPT !.line_o = Out.data,
                       !.flush_cnt = IF @ = 0 THEN 0 ELSE @ - 1,
                       !.req_addr = IF r.flush_cnt = 0 THEN @ ELSE AddrDirectNext]
       IN  Clocked(in, IF FlushDirty
                       THEN [swept EXCEPT !.write_flush = TRUE, !.mem_addr = RAddr,
                                !.mem_valid = TRUE, !.mem_type = "WriteBack",
                                !.state = "WaitGrant"]
                       ELSE [swept EXCEPT !.state = IF FlushEnd THEN "Idle"
                                                    ELSE "FlushAddr"],
                   [NoLineAccess EXCEPT !.direct = r.req_flush_all,
                                        !.we = r.req_flush_all])

Reset(in) ==
    /\ r.state = "Reset"
    /\ Clocked(in, [Latched(in) EXCEPT
                     !.req_flush = IF r.req_flush THEN FALSE ELSE @,
                     !.flush_cnt = IF r.req_flush THEN FLUSH_ALL_VALUE ELSE @,
                     !.state = "ResetWrite"],
               [NoLineAccess EXCEPT !.direct = TRUE, !.invalidate = TRUE])

ResetWrite(in) ==
    /\ r.state = "ResetWrite"
    /\ Clocked(in, IF r.flush_cnt = 0 THEN [Latched(in) EXCEPT !.state = "Idle"]
                   ELSE [Latched(in) EXCEPT !.flush_cnt = @ - 1,
                            !.req_addr = AddrDirectNext, !.state = "Reset"],
               [NoLineAccess EXCEPT !.direct = TRUE, !.we = TRUE])

SnoopSetupAddr(in) ==
    /\ r.state = "SnoopSetupAddr"
    /\ Clocked(in, [Latched(in) EXCEPT !.state = "SnoopReadData"],
               [NoLineAccess EXCEPT !.invalidate = (r.snoop_type = "clean")])


SnoopReadData(in) ==
    /\ r.state = "SnoopReadData"
    /\ Clocked(in, IF r.restore = "none" THEN [Latched(in) EXCEPT !.state = "Idle"]
                   ELSE [Latched(in) EXCEPT !.restore = "none", !.state = r.restore,
                                            !.req_addr = r.addr_restore],
               IF r.snoop_type = "clean" THEN NoLineAccess
               ELSE WriteLine((Out.flags \ {"DIRTY", "RESERVED"}) \cup {"SHARED"},
                              Out.data, Words))

Clock(in) ==
    \/ Idle(in) \/ CheckHitStore(in) \/ CheckHitReserve(in) \/ CheckHitLoad(in)
    \/ CheckMiss(in) \/ TranslateFault(in) \/ TranslateCached(in)
    \/ TranslateUncached(in) \/ WaitGrant(in) \/ WaitResp(in)
    \/ CheckRespDirect(in) \/ CheckRespFill(in) \/ SetupReadAdr(in)
    \/ WriteBus(in) \/ FlushAddr(in) \/ FlushCheck(in) \/ Reset(in)
    \/ ResetWrite(in) \/ SnoopSetupAddr(in) \/ SnoopReadData(in)

----------------------------------------------------------------------------
\* Outputs that depend on the inputs of the clock

(***************************************************************************)
(* v_ready_next of the clock.                                              *)
(***************************************************************************)
ReadyNow(in) ==
    \/ r.state = "Idle"
    \/ r.state = "CheckHit" /\ Hit /\ ~IsStore /\ ~IsReserve
    \/ /\ r.state = "CheckHit" /\ Hit /\ IsStore /\ ~ReleaseFails
       /\ ~(CoherenceEna /\ "SHARED" \in Out.flags)
       /\ SameLine(r.req_addr, in.addr)

(***************************************************************************)
(* o_resp_valid, o_resp_data and the fault bits: the answer to the core.   *)
(***************************************************************************)
Resp(in) ==
    CASE r.state = "CheckHit" /\ Hit ->
            [data |-> IF IsStore /\ IsRelease
                      THEN (IF ReleaseFails THEN 1 ELSE 0)
                      ELSE CachedData, fault |-> FALSE]
      [] r.state = "CheckResp" /\ (r.load_fault \/ ~CachedType(r.mem_type)) ->
            [data |-> r.line_i[0], fault |-> r.load_fault]
      [] r.state = "CheckResp" /\ ~r.load_fault /\ CachedType(r.mem_type) /\ IsStore ->
            [data |-> 0, fault |-> FALSE]
      [] /\ r.state = "WriteBus" /\ in.mem # None
         /\ ~(r.write_share \/ r.write_flush \/ r.write_first) ->
            [data |-> 0, fault |-> in.mem.fault]
      [] OTHER -> None

\* o_req_ready: the request of the core is taken in this clock
ReqReady(in) == ReadyNow(in) /\ ~SnoopData(in) /\ ~r.req_flush

\* line_we_i
LineWe ==
    \/ r.state = "CheckHit" /\ Hit /\ IsStore /\ ~ReleaseFails
    \/ r.state = "CheckHit" /\ Hit /\ ~IsStore /\ IsReserve
    \/ r.state = "CheckResp" /\ ~r.load_fault /\ CachedType(r.mem_type)
    \/ r.state = "FlushCheck" /\ r.req_flush_all
    \/ r.state = "ResetWrite"
    \/ r.state = "SnoopReadData" /\ r.snoop_type # "clean"

\* o_req_snoop_ready
SnoopReqReady(in) ==
    IF in.snoop = None \/ in.snoop.type = "flags" THEN SnoopReady(LineWe)
    ELSE /\ CoherenceEna
         /\ \/ ReadyNow(in)
            \/ r.state \in {"WaitResp", "WriteBus"} /\ in.mem = None

\* o_resp_snoop_valid
SnoopRespValid == r.snoop_flags_valid \/ r.state = "SnoopReadData"
============================================================================
