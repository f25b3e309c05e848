----------------------------- MODULE L2CacheLru ----------------------------
(***************************************************************************)
(* The L2 cache: sc/rtl/riverlib/l2cache/l2cache_lru.cpp and .h, with the  *)
(* same tag memory as the L1 data cache.  One step is one clock of comb(); *)
(* there is one action per state and outcome, and the tail of comb()       *)
(* (acceptance of a flush or of a request, and the tag memory clock)       *)
(* belongs to every action.                                                *)
(*                                                                         *)
(* Lines of both levels have the same size (river_cfg.h), so a request     *)
(* carries a whole line, with strobes.  L2Top ties the flush address to    *)
(* all-ones: a flush always sweeps the whole cache.                        *)
(***************************************************************************)
EXTENDS TagMemNWay

CONSTANT None     \* an input channel whose valid bit is low

\* L2_REQ_TYPE bits of a request, made by the destination port
ReqTypes == SUBSET {"WRITE", "CACHED", "UNIQUE", "SNOOP"}
MemTypes == {"ReadNoSnoop", "ReadShared", "ReadMakeUnique", "WriteNoSnoop", "WriteBack"}
CachedType(t) == t \notin {"ReadNoSnoop", "WriteNoSnoop"}

States == {"Idle", "CheckHit", "TranslateAddress", "WaitGrant", "WaitResp",
           "CheckResp", "SetupReadAdr", "WriteBus", "FlushAddr", "FlushCheck",
           "Reset", "ResetWrite"}

FLUSH_ALL_VALUE_OneWay == NSets - 1     \* the ways are not counted
FLUSH_ALL_VALUE == NSets * Ways - 1

VARIABLE r      \* the registers

l2vars == <<r, ram, lru, rd>>

(***************************************************************************)
(* Inputs of one clock: in.req = [type, wdata, strb] or None, and the      *)
(* address on the bus of the port, driven without a request, too; a flush  *)
(* request; acceptance and response [data, fault] of the memory.           *)
(***************************************************************************)
Registers ==
    [state : States, req_type : ReqTypes, req_addr : Addr, req_wdata : Line,
     req_strb : SUBSET Words, mem_valid : BOOLEAN, mem_type : MemTypes,
     mem_addr : Addr, mem_strb : SUBSET Words, fault : BOOLEAN,
     write_first : BOOLEAN, write_flush : BOOLEAN, req_flush : BOOLEAN,
     req_flush_all : BOOLEAN, flush_cnt : 0 .. FLUSH_ALL_VALUE,
     line_i : Line, line_o : Line]

L2TypeOK == TagTypeOK /\ r \in Registers

\* L2CacheLru_r_reset
L2Init ==
    /\ TagInit
    /\ r = [state |-> "Reset", req_type |-> {}, req_addr |-> ZeroAddr,
            req_wdata |-> ZeroLine, req_strb |-> {}, mem_valid |-> FALSE,
            mem_type |-> "ReadNoSnoop", mem_addr |-> ZeroAddr, mem_strb |-> {},
            fault |-> FALSE, write_first |-> FALSE, write_flush |-> FALSE,
            req_flush |-> TRUE, req_flush_all |-> FALSE, flush_cnt |-> 0,
            line_i |-> ZeroLine, line_o |-> ZeroLine]

----------------------------------------------------------------------------
\* Small abbreviations of comb()

IsWrite  == "WRITE" \in r.req_type
IsCached == "CACHED" \in r.req_type
IsUnique == "UNIQUE" \in r.req_type

SameLine(a, b) == a.tag = b.tag /\ a.set = b.set
LineAddr(a) == [a EXCEPT !.word = 0, !.way = 0]

\* vb_addr_direct_next: next way, then next line
AddrDirectNext ==
    IF r.req_addr.way = Ways - 1
    THEN [r.req_addr EXCEPT !.way = 0, !.word = 0,
                            !.set = (r.req_addr.set + 1) % NSets]
    ELSE [r.req_addr EXCEPT !.way = @ + 1]

\* vb_line_rdata_o_modified, vb_cache_line_i_modified
Modified(line) == [w \in Words |-> IF w \in r.req_strb THEN r.req_wdata[w] ELSE line[w]]

\* i_flush_valid latches a flush request in every state
Latched(in) ==
    IF in.flush THEN [r EXCEPT !.req_flush = TRUE, !.req_flush_all = TRUE] ELSE r

NoLineAccess ==
    [direct |-> FALSE, invalidate |-> FALSE, re |-> FALSE, we |-> FALSE,
     addr |-> r.req_addr, wdata |-> r.line_i, wstrb |-> {}, wflags |-> {},
     snoop |-> ZeroAddr]

WriteLine(flags, data, strb) ==
    [NoLineAccess EXCEPT !.we = TRUE, !.wflags = flags, !.wdata = data, !.wstrb = strb]

(***************************************************************************)
(* In State_Idle these registers are not read before they have been        *)
(* written again (line_i only for the contents of a line that is made      *)
(* invalid); the model gives them their reset values there.                *)
(***************************************************************************)
Rested(v) ==
    IF v.state # "Idle" THEN v
    ELSE [v EXCEPT !.req_type = {}, !.req_wdata = ZeroLine, !.req_strb = {},
                   !.mem_type = "ReadNoSnoop", !.mem_addr = ZeroAddr,
                   !.mem_strb = {}, !.fault = FALSE, !.line_i = ZeroLine,
                   !.line_o = ZeroLine]

Clocked(v, c) == r' = Rested(v) /\ TagClock(c)

\* v_ready_next: a pending flush goes first
Takes == ~r.req_flush

ReadyNext(in, v, c) ==
    IF ~Takes THEN
        Clocked([v EXCEPT !.req_addr = ZeroAddr, !.req_flush = FALSE,
                          !.line_i = ZeroLine,
                          !.flush_cnt = IF r.req_flush_all THEN FLUSH_ALL_VALUE ELSE 0,
                          !.state = "FlushAddr"], c)
    ELSE
        Clocked(IF in.req = None THEN v
                ELSE [v EXCEPT !.req_addr = in.addr, !.req_wdata = in.req.wdata,
                               !.req_strb = in.req.strb, !.req_type = in.req.type,
                               !.fault = FALSE, !.state = "CheckHit"],
                [c EXCEPT !.re = (in.req # None), !.addr = in.addr])

----------------------------------------------------------------------------
\* The states of the machine

Idle(in) == r.state = "Idle" /\ ReadyNext(in, Latched(in), NoLineAccess)

(***************************************************************************)
(* A unique request, and an uncached one, which should not find its line   *)
(* here: the line is given away.  The tag memory invalidates it in the     *)
(* clock after this one, in the set addressed then.                        *)
(***************************************************************************)
HitGiveAway(in) ==
    /\ r.state = "CheckHit" /\ Hit /\ (~IsCached \/ IsUnique)
    /\ Clocked([Latched(in) EXCEPT !.state = "Idle"],
               [NoLineAccess EXCEPT !.invalidate = TRUE])

HitWrite(in) ==
    /\ r.state = "CheckHit" /\ Hit /\ IsCached /\ ~IsUnique /\ IsWrite
    /\ LET v == [Latched(in) EXCEPT !.req_type = @ \ {"WRITE"}, !.state = "Idle"]
           c == WriteLine({"VALID", "DIRTY"}, Modified(Out.data), r.req_strb)
       IN  IF SameLine(r.req_addr, in.addr) THEN ReadyNext(in, v, c)
           ELSE Clocked(v, c)

HitRead(in) ==
    /\ r.state = "CheckHit" /\ Hit /\ IsCached /\ ~IsUnique /\ ~IsWrite
    /\ ReadyNext(in, [Latched(in) EXCEPT !.state = "Idle"], NoLineAccess)

\* a write that makes a line unique needs nothing from the memory
MissIsDone == IsWrite /\ IsUnique

\* a read whose data came from another L1 cache is kept as it came
MissIsSnooped == ~IsWrite /\ ~IsUnique /\ "SNOOP" \in r.req_type

Miss(in) ==
    /\ r.state = "CheckHit" /\ ~Hit
    /\ Clocked([Latched(in) EXCEPT !.state = IF MissIsDone \/ MissIsSnooped THEN "Idle"
                                             ELSE "TranslateAddress"],
               IF ~MissIsDone /\ MissIsSnooped
               THEN WriteLine({"VALID", "DIRTY"}, Modified(Out.data), r.req_strb)
               ELSE NoLineAccess)

ReadType == IF IsWrite THEN "ReadMakeUnique" ELSE "ReadShared"

\* the displaced line is not looked at
Offload_Never == FALSE

\* the line to displace has to be written to the memory first
Offload == {"VALID", "DIRTY"} \subseteq Out.flags

TranslateAddress(in) ==
    /\ r.state = "TranslateAddress"
    /\ LET v == [Latched(in) EXCEPT !.mem_valid = TRUE, !.line_i = ZeroLine,
                                    !.fault = FALSE, !.state = "WaitGrant"]
       IN  Clocked(IF ~IsCached
                   THEN [v EXCEPT !.mem_addr = r.req_addr, !.mem_strb = r.req_strb,
                            !.mem_type = IF IsWrite THEN "WriteNoSnoop" ELSE "ReadNoSnoop",
                            !.line_o = [w \in Words |-> IF w = 0 THEN r.req_wdata[0] ELSE 0]]
                   ELSE [v EXCEPT !.mem_addr = IF Offload THEN RAddr ELSE LineAddr(r.req_addr),
                            !.mem_type = IF Offload THEN "WriteBack" ELSE ReadType,
                            !.write_first = @ \/ Offload,
                            !.mem_strb = Words, !.line_o = Out.data],
                   NoLineAccess)

WaitGrant(in) ==
    /\ r.state = "WaitGrant"
    /\ Clocked(IF ~in.mem_ready THEN Latched(in)
               ELSE [Latched(in) EXCEPT !.mem_valid = FALSE, !.state =
                        IF r.write_flush \/ r.write_first \/ (IsWrite /\ ~IsCached)
                        THEN "WriteBus" ELSE "WaitResp"], NoLineAccess)

WaitResp(in) ==
    /\ r.state = "WaitResp"
    /\ Clocked(IF in.mem = None THEN Latched(in)
               ELSE [Latched(in) EXCEPT !.line_i = in.mem.data,
                        !.fault = @ \/ in.mem.fault, !.state = "CheckResp"], NoLineAccess)

\* the answer goes on without a line to fill: uncached read, or a fault
Direct == ~CachedType(r.mem_type) \/ r.fault

CheckResp(in) ==
    /\ r.state = "CheckResp"
    /\ IF Direct THEN Clocked([Latched(in) EXCEPT !.state = "Idle"], NoLineAccess)
       ELSE IF IsWrite
       THEN Clocked([Latched(in) EXCEPT !.req_type = @ \ {"WRITE"}, !.state = "Idle"],
                    WriteLine({"VALID", "DIRTY"}, Modified(r.line_i), Words))
       ELSE Clocked([Latched(in) EXCEPT !.state = "SetupReadAdr"],
                    WriteLine({"VALID"}, r.line_i, Words))

SetupReadAdr(in) ==
    /\ r.state = "SetupReadAdr"
    /\ Clocked([Latched(in) EXCEPT !.state = "CheckHit"], NoLineAccess)

\* the refill behind a displaced line is forgotten
WriteDone_NoRefill ==
    IF r.write_flush THEN "FlushAddr" ELSE "Idle"

\* what follows a write the memory has acknowledged
WriteDone ==
    IF r.write_flush THEN "FlushAddr" ELSE IF r.write_first THEN "WaitGrant" ELSE "Idle"

WriteBus(in) ==
    /\ r.state = "WriteBus"
    /\ Clocked(IF in.mem = None THEN Latched(in)
               ELSE IF r.write_first /\ ~r.write_flush
               THEN [Latched(in) EXCEPT !.mem_addr = LineAddr(r.req_addr),
                        !.mem_valid = (WriteDone = "WaitGrant"), !.write_first = FALSE,
                        !.mem_type = ReadType, !.state = WriteDone]
               ELSE [Latched(in) EXCEPT !.state = WriteDone], NoLineAccess)

FlushAddr(in) ==
    /\ r.state = "FlushAddr"
    /\ Clocked([Latched(in) EXCEPT !.write_flush = FALSE, !.line_i = ZeroLine,
                                   !.state = "FlushCheck"],
               [NoLineAccess EXCEPT !.direct = r.req_flush_all, !.invalidate = TRUE])

\* o_flush_end
FlushEnd == r.state = "FlushCheck" /\ ~Offload /\ r.flush_cnt = 0

FlushCheck(in) ==
    /\ r.state = "FlushCheck"
    /\ LET swept == [Latched(in) EXCEPT !.line_o = Out.data,
                       !.flush_cnt = IF @ = 0 THEN 0 ELSE @ - 1,
                       !.req_addr = IF r.flush_cnt = 0 THEN @ ELSE AddrDirectNext]
       IN  Clocked(IF Offload
                   THEN [swept EXCEPT !.write_flush = TRUE, !.mem_addr = RAddr,
                            !.mem_valid = TRUE, !.mem_type = "WriteBack",
                            !.mem_strb = Words, !.state = "WaitGrant"]
                   ELSE [swept EXCEPT !.state = IF FlushEnd THEN "Idle" ELSE "FlushAddr"],
                   [NoLineAccess EXCEPT !.direct = r.req_flush_all,
                                        !.we = r.req_flush_all])

Reset(in) ==
    /\ r.state = "Reset"
    /\ Clocked([Latched(in) EXCEPT
                  !.req_flush = IF r.req_flush THEN FALSE ELSE @,
                  !.flush_cnt = IF r.req_flush THEN FLUSH_ALL_VALUE ELSE @,
                  !.state = "ResetWrite"],
               [NoLineAccess EXCEPT !.direct = TRUE, !.invalidate = TRUE])

ResetWrite(in) ==
    /\ r.state = "ResetWrite"
    /\ Clocked(IF r.flush_cnt = 0 THEN [Latched(in) EXCEPT !.state = "Idle"]
               ELSE [Latched(in) EXCEPT !.flush_cnt = @ - 1,
                        !.req_addr = AddrDirectNext, !.state = "Reset"],
               [NoLineAccess EXCEPT !.direct = TRUE, !.we = TRUE])

L2Clock(in) ==
    \/ Idle(in) \/ HitGiveAway(in) \/ HitWrite(in) \/ HitRead(in) \/ Miss(in)
    \/ TranslateAddress(in) \/ WaitGrant(in) \/ WaitResp(in) \/ CheckResp(in)
    \/ SetupReadAdr(in) \/ WriteBus(in) \/ FlushAddr(in) \/ FlushCheck(in)
    \/ Reset(in) \/ ResetWrite(in)

----------------------------------------------------------------------------
\* Outputs

\* o_req_ready
L2ReqReady(in) ==
    /\ Takes
    /\ \/ r.state = "Idle"
       \/ /\ r.state = "CheckHit" /\ Hit /\ IsCached /\ ~IsUnique
          /\ IsWrite => SameLine(r.req_addr, in.addr)

\* o_resp_*
L2Resp(in) ==
    CASE r.state = "CheckHit" /\ Hit -> [data |-> Out.data, fault |-> r.fault]
      [] r.state = "CheckHit" /\ ~Hit /\ (MissIsDone \/ MissIsSnooped) ->
            [data |-> ZeroLine, fault |-> FALSE]
      [] r.state = "CheckResp" /\ Direct -> [data |-> r.line_i, fault |-> r.fault]
      [] r.state = "CheckResp" /\ ~Direct /\ IsWrite -> [data |-> ZeroLine, fault |-> FALSE]
      [] r.state = "WriteBus" /\ in.mem # None /\ ~r.write_flush /\ ~r.write_first ->
            [data |-> ZeroLine, fault |-> in.mem.fault]
      [] OTHER -> None
============================================================================
