--------------------------- MODULE L2Destination ---------------------------
(***************************************************************************)
(* Port of the L2 cache towards the cores: sc/rtl/riverlib/l2cache/        *)
(* l2_dst.cpp and .h.  It takes one request of one slot at a time, asks    *)
(* the other slots for newer data with the ACE snoop channels where the    *)
(* request is cached, and passes the request on to the L2 cache.           *)
(*                                                                         *)
(* Inputs of a clock: l1o, for every slot                                  *)
(*    [ar, aw : a request or None; ac_ready, cr_valid, cr_resp : BOOLEAN;  *)
(*     cd : a line or None]                                                *)
(* where a request is [addr, cached, unique, instr, data], and from the L2 *)
(* cache req_ready and resp = [data, fault] or None.                       *)
(***************************************************************************)
EXTENDS Integers

CONSTANTS
    None,
    Slots,          \* 0 .. CFG_SLOT_L1_TOTAL - 1
    Addrs, Lines

VARIABLE d          \* the registers

ReqTypes == SUBSET {"WRITE", "CACHED", "UNIQUE", "SNOOP"}

DstTypeOK ==
    d \in [state : {"Idle", "CacheReadReq", "CacheWriteReq", "ReadMem",
                    "WriteMem", "snoop_ac", "snoop_cr", "snoop_cd"},
           srcid : Slots \cup {None}, addr : Addrs \cup {None},
           type : ReqTypes, wdata : Lines \cup {None},
           ac_valid : SUBSET Slots, cr_ready : SUBSET Slots,
           cd_ready : SUBSET Slots]

(***************************************************************************)
(* L2Destination_r_reset.  In Idle no register is read before it has been  *)
(* written; the model gives them their reset values when it returns there. *)
(***************************************************************************)
DstReset ==
        [state |-> "Idle", srcid |-> None, addr |-> None, type |-> {},
         wdata |-> None, ac_valid |-> {}, cr_ready |-> {}, cd_ready |-> {}]

DstInit == d = DstReset

----------------------------------------------------------------------------
Writing(l1o) == {i \in Slots : l1o[i].aw # None}
Reading(l1o) == {i \in Slots : l1o[i].ar # None}
Lowest(S) == CHOOSE i \in S : \A j \in S : i <= j

\* vb_srcid: writes first, the lowest slot first
SrcId(l1o) ==
    IF Writing(l1o) # {} THEN Lowest(Writing(l1o))
    ELSE IF Reading(l1o) # {} THEN Lowest(Reading(l1o))
    ELSE None

\* aw_ready with w_ready, and ar_ready
AwReady(l1o, i) == d.state = "Idle" /\ Writing(l1o) # {} /\ i = SrcId(l1o)
ArReady(l1o, i) == d.state = "Idle" /\ Writing(l1o) = {} /\ i = SrcId(l1o)

IdleWrite(l1o) ==
    /\ d.state = "Idle" /\ Writing(l1o) # {}
    /\ LET i == SrcId(l1o)
           q == l1o[i].aw
           snoops == q.cached /\ q.unique
       IN  d' = [d EXCEPT !.srcid = i, !.addr = q.addr, !.wdata = q.data,
                    !.type = {"WRITE"} \cup (IF q.cached THEN {"CACHED"} ELSE {})
                                       \cup (IF snoops THEN {"UNIQUE"} ELSE {}),
                    !.ac_valid = IF snoops THEN Slots \ {i} ELSE @,
                    !.cr_ready = IF snoops THEN {} ELSE @,
                    !.cd_ready = IF snoops THEN {} ELSE @,
                    !.state = IF snoops THEN "snoop_ac" ELSE "CacheWriteReq"]

\* an instruction fetch asks the data cache of its own core, too
IdleRead(l1o) ==
    /\ d.state = "Idle" /\ Writing(l1o) = {} /\ Reading(l1o) # {}
    /\ LET i == SrcId(l1o)
           q == l1o[i].ar
       IN  d' = [d EXCEPT !.srcid = i, !.addr = q.addr, !.wdata = None,
                    !.type = (IF q.cached THEN {"CACHED"} ELSE {})
                             \cup (IF q.cached /\ q.unique THEN {"UNIQUE"} ELSE {}),
                    !.ac_valid = IF ~q.cached THEN @
                                 ELSE IF q.instr THEN Slots ELSE Slots \ {i},
                    !.cr_ready = IF q.cached THEN {} ELSE @,
                    !.cd_ready = IF q.cached THEN {} ELSE @,
                    !.state = IF q.cached THEN "snoop_ac" ELSE "CacheReadReq"]

IdleWait(l1o) ==
    /\ d.state = "Idle" /\ SrcId(l1o) = None
    /\ d' = d

CacheReq(ready) ==
    /\ d.state \in {"CacheReadReq", "CacheWriteReq"}
    /\ d' = IF ~ready THEN d
            ELSE [d EXCEPT !.state = IF d.state = "CacheReadReq" THEN "ReadMem"
                                     ELSE "WriteMem"]

\* the L1 cache is always ready to take the response
Mem(resp) ==
    /\ d.state \in {"ReadMem", "WriteMem"}
    /\ d' = IF resp = None THEN d ELSE DstReset

SnoopAc(l1o) ==
    /\ d.state = "snoop_ac"
    /\ LET taken == {i \in d.ac_valid : l1o[i].ac_ready}
       IN  d' = [d EXCEPT !.ac_valid = @ \ taken, !.cr_ready = @ \cup taken,
                          !.state = IF d.ac_valid = taken THEN "snoop_cr" ELSE @]

\* decided by the type after the snoop, which is always a write
AfterSnoop_NewType ==
    IF "WRITE" \in d.type \/ d.state = "snoop_cd" THEN "CacheWriteReq" ELSE "CacheReadReq"

\* where the request goes once the snoop is over
AfterSnoop == IF "WRITE" \in d.type THEN "CacheWriteReq" ELSE "CacheReadReq"

SnoopCr(l1o) ==
    /\ d.state = "snoop_cr"
    /\ LET told == {i \in d.cr_ready : l1o[i].cr_valid}
           wait == d.cd_ready \cup {i \in told : l1o[i].cr_resp}
       IN  d' = [d EXCEPT !.cr_ready = @ \ told, !.cd_ready = wait,
                          !.state = IF d.cr_ready # told THEN @
                                    ELSE IF wait # {} THEN "snoop_cd" ELSE AfterSnoop]

\* the data of the highest slot that answers in a clock is kept
SnoopCd(l1o) ==
    /\ d.state = "snoop_cd"
    /\ LET given == {i \in d.cd_ready : l1o[i].cd # None}
           all == d.cd_ready = given
       IN  d' = [d EXCEPT !.cd_ready = @ \ given,
                    !.wdata = IF given = {} THEN @
                              ELSE l1o[CHOOSE i \in given : \A j \in given : j <= i].cd,
                    !.type = IF all THEN @ \cup {"WRITE", "SNOOP"} ELSE @,
                    !.state = IF all THEN AfterSnoop ELSE @]

DstClock(l1o, ready, resp) ==
    \/ IdleWrite(l1o) \/ IdleRead(l1o) \/ IdleWait(l1o)
    \/ CacheReq(ready) \/ Mem(resp)
    \/ SnoopAc(l1o) \/ SnoopCr(l1o) \/ SnoopCd(l1o)

----------------------------------------------------------------------------
\* Outputs: the request to the L2 cache and, to slot i, AC, CR, CD, R and B

L2Req == IF d.state \in {"CacheReadReq", "CacheWriteReq"}
         THEN [type |-> d.type, addr |-> d.addr, wdata |-> d.wdata] ELSE None

Ac(i) == IF d.state = "snoop_ac" /\ i \in d.ac_valid
         THEN [addr |-> d.addr, unique |-> "UNIQUE" \in d.type] ELSE None

\* a slot that is not addressed sees the ready bits of axi4_l1_in_none, set
CrReady(i) == d.state = "snoop_cr" => i \in d.cr_ready
CdReady(i) == d.state = "snoop_cd" => i \in d.cd_ready

\* a read that was answered by a snoop returns the snooped line
R(i, resp) ==
    IF d.state # "ReadMem" \/ i # d.srcid \/ resp = None THEN None
    ELSE IF "SNOOP" \in d.type THEN [resp EXCEPT !.data = d.wdata] ELSE resp

B(i, resp) == IF d.state = "WriteMem" /\ i = d.srcid THEN resp ELSE None
============================================================================
