-------------------------------- MODULE Mmu --------------------------------
(***************************************************************************)
(* Memory management unit: sc/rtl/riverlib/core/mmu.cpp and .h, with the   *)
(* translation buffer of techmap/mem/ram_mmu_tech.h, as it stands between  *)
(* the memory access stage and the data cache.                             *)
(*                                                                         *)
(* A page number is a function from 0 .. Levels - 1 to digits; digit 0 is  *)
(* the least significant one.  A page of size p covers all values of the   *)
(* digits below p (4 KB for p = 0, 2 MB for p = 1 ..).  tlb_level and      *)
(* tlb_page_size of the code move together and are one number here.        *)
(*                                                                         *)
(* i_mprv is zero, and i_core_resp_ready is one (memaccess.cpp).           *)
(***************************************************************************)
EXTENDS Integers

CONSTANTS
    Levels,     \* 3 for sv39, 4 for sv48
    NDigits,    \* digits of a page number: 0 .. NDigits - 1
    NTlb,       \* entries of the translation buffer
    Root,       \* page number of the first table, i_mmu_ppn
    None        \* an input whose valid bit is low; an entry whose bits are zero

Sizes == 0 .. Levels - 1
Page == [Sizes -> 0 .. NDigits - 1]

\* the page of the address ~0
Top == [q \in Sizes |-> NDigits - 1]

PteFlags == {"V", "R", "W", "X", "A", "D"}

MmuStates == {"Idle", "WaitRespNoMmu", "WaitRespLast", "CheckTlb", "CacheReq", "WaitResp",
              "HandleResp", "UpdateTlb", "AcceptCore", "FlushTlb"}

\* where a request to the memory goes: the data of a page, or an entry of the
\* table in that page
DataAt(pa) == [page |-> pa, entry |-> None]
PteAt(ppn, va, p) == [page |-> ppn, entry |-> va[p]]

MmuReset == [state |-> "FlushTlb", req |-> None, req_pa |-> DataAt(Root),
             req_flush |-> FALSE, last_mmu_ena |-> FALSE, last_va |-> Top, last_pa |-> Top,
             last_permission |-> {}, last_page_size |-> 0, resp |-> None,
             ex_page_fault |-> FALSE, tlb_hit |-> FALSE, tlb_page_size |-> 0,
             tlb_wdata |-> None, tlb_flush_cnt |-> NTlb - 1, tlb_flush_adr |-> 0]

----------------------------------------------------------------------------
(***************************************************************************)
(* u : the registers;  in : the inputs of a clock:                         *)
(*   req : None or [page, write, wdata];  ena : i_mmu_ena;  mem_ready,     *)
(*   fence : BOOLEAN;  mem : None or [data, pte, fault];                   *)
(*   tlb : the entry read from the translation buffer in the last clock.   *)
(***************************************************************************)
SamePage(p, a, b) == \A q \in p .. Levels - 1 : a[q] = b[q]
\* the page va in the page of size p at pa
Within(p, pa, va) == [q \in Sizes |-> IF q < p THEN va[q] ELSE pa[q]]

\* only the digit of the page size is compared
LastValid_OneDigit(u, in) ==
    in.req # None /\ in.req.page[u.last_page_size] = u.last_va[u.last_page_size]

LastValid(u, in) == in.req # None /\ SamePage(u.last_page_size, in.req.page, u.last_va)
LastPaReq(u, in) == Within(u.last_page_size, u.last_pa, in.req.page)

\* index of the translation buffer: the low bits of the digit of the page size
TlbIndex(u, va) == va[u.last_page_size] % NTlb

TlbHit(u, in) == in.tlb # None /\ SamePage(in.tlb.size, u.last_va, in.tlb.va)

\* flags that do not allow an access
Forbids(flags, write) ==
    \/ "A" \notin flags
    \/ IF write THEN ~({"W", "D"} \subseteq flags) ELSE "R" \notin flags

\* Idle connects the stage and the cache: translation is off, or the page is
\* the last one
DirectLast(u, in) == in.ena /\ u.last_mmu_ena /\ LastValid(u, in)
Direct(u, in) == ~u.req_flush /\ (~in.ena \/ DirectLast(u, in))

----------------------------------------------------------------------------
\* Outputs

\* o_core_resp_*
CoreResp(u, mem) ==
    IF u.state \in {"WaitRespNoMmu", "WaitRespLast"} /\ mem # None
    THEN [data |-> mem.data, fault |-> mem.fault, page_fault |-> FALSE]
    ELSE IF u.state = "AcceptCore"
    THEN [data |-> u.resp.data, fault |-> u.resp.fault, page_fault |-> u.ex_page_fault]
    ELSE None

\* the wait for the response of a direct access takes the next request with it
Chains(u, in) ==
    \/ u.state = "WaitRespNoMmu" /\ ~(in.mem # None /\ in.ena)
    \/ u.state = "WaitRespLast" /\ (in.mem # None => LastValid(u, in))

Connected(u, in) == (u.state = "Idle" /\ Direct(u, in)) \/ Chains(u, in)

CoreReqReady(u, in) ==
    \/ Connected(u, in) /\ in.mem_ready
    \/ u.state = "Idle" /\ ~u.req_flush /\ ~Direct(u, in)

\* o_mem_req_*
MemReq(u, in) ==
    IF u.state = "CacheReq"
    THEN [at |-> u.req_pa, write |-> u.tlb_hit /\ u.req.write, wdata |-> u.req.wdata]
    ELSE IF in.req # None /\ Connected(u, in)
    THEN [at |-> DataAt(IF u.state = "WaitRespLast" \/ (u.state = "Idle" /\ in.ena)
                        THEN LastPaReq(u, in) ELSE in.req.page),
          write |-> in.req.write, wdata |-> in.req.wdata]
    ELSE None

\* o_mem_resp_ready
MemRespReady(u, in) ==
    \/ u.state \in {"WaitRespNoMmu", "WaitRespLast", "WaitResp"}
    \/ u.state = "Idle" /\ Direct(u, in)

----------------------------------------------------------------------------
\* Next state, by state

\* the request of a flush stays set
Idle_FlushAgain(u, in) ==
    IF u.req_flush THEN [u EXCEPT !.tlb_wdata = None, !.state = "FlushTlb"]
    ELSE IF Direct(u, in)
    THEN IF in.req # None /\ in.mem_ready
         THEN [u EXCEPT !.state = IF in.ena THEN "WaitRespLast" ELSE "WaitRespNoMmu"]
         ELSE u
    ELSE IF in.req = None THEN u
    ELSE [u EXCEPT !.tlb_hit = FALSE, !.ex_page_fault = FALSE, !.last_mmu_ena = in.ena,
                   !.last_va = in.req.page, !.req = in.req, !.state = "CheckTlb"]

Idle_Next(u, in) ==
    LET got == [u EXCEPT !.tlb_hit = FALSE, !.ex_page_fault = FALSE,
                         !.resp = IF @ = None THEN None ELSE [@ EXCEPT !.fault = FALSE]]
        asked == IF in.req = None THEN got
                 ELSE [got EXCEPT !.last_mmu_ena = in.ena, !.last_va = in.req.page,
                                  !.req = in.req]
    IN  IF u.req_flush
        THEN [asked EXCEPT !.req_flush = FALSE, !.tlb_wdata = None, !.state = "FlushTlb"]
        ELSE IF Direct(u, in)
        THEN IF in.req # None /\ in.mem_ready
             THEN [asked EXCEPT !.state = IF in.ena THEN "WaitRespLast" ELSE "WaitRespNoMmu"]
             ELSE asked
        ELSE IF in.req # None THEN [asked EXCEPT !.state = "CheckTlb"] ELSE asked

WaitRespNoMmu_Next(u, in) ==
    IF in.mem # None /\ ~(Chains(u, in) /\ in.mem_ready /\ in.req # None)
    THEN [u EXCEPT !.state = "Idle"] ELSE u

WaitRespLast_Next(u, in) ==
    IF in.mem = None THEN u
    ELSE IF ~(Chains(u, in) /\ in.mem_ready) THEN [u EXCEPT !.state = "Idle"]
    ELSE LET next == [u EXCEPT !.last_va = in.req.page, !.req = in.req]
         IN  IF Forbids(u.last_permission, in.req.write)
             THEN [next EXCEPT !.ex_page_fault = TRUE, !.state = "AcceptCore"] ELSE next

\* a hit leaves the last page as it was
CheckTlb_KeepsLast(u, in) ==
    IF TlbHit(u, in)
    THEN [u EXCEPT !.tlb_hit = TRUE, !.state = "CacheReq",
                   !.req_pa = DataAt(Within(in.tlb.size, in.tlb.pa, u.last_va))]
    ELSE [u EXCEPT !.tlb_page_size = Levels - 1, !.state = "CacheReq",
                   !.req_pa = PteAt(Root, u.last_va, Levels - 1)]

CheckTlb_Next(u, in) ==
    IF TlbHit(u, in)
    THEN [u EXCEPT !.tlb_hit = TRUE, !.state = "CacheReq",
                   !.last_pa = in.tlb.pa, !.last_permission = in.tlb.flags,
                   !.req_pa = DataAt(Within(in.tlb.size, in.tlb.pa, u.last_va))]
    ELSE [u EXCEPT !.tlb_page_size = Levels - 1, !.state = "CacheReq",
                   !.req_pa = PteAt(Root, u.last_va, Levels - 1)]

WaitResp_Next(u, in) ==
    IF in.mem = None THEN u
    ELSE [u EXCEPT !.resp = in.mem,
                   !.state = IF u.tlb_hit \/ in.mem.fault THEN "AcceptCore" ELSE "HandleResp"]

HandleResp_Next(u) ==
    LET pte == u.resp.pte
        p == u.tlb_page_size
        refused == [u EXCEPT !.ex_page_fault = TRUE, !.state = "AcceptCore"]
        base == Within(p, pte.ppn, [q \in Sizes |-> 0])
    IN  IF "V" \notin pte.flags \/ ("R" \notin pte.flags /\ "W" \in pte.flags) THEN refused
        ELSE IF {"R", "W", "X"} \cap pte.flags = {}
        THEN IF p = 0 THEN refused
             ELSE [u EXCEPT !.state = "CacheReq", !.tlb_page_size = p - 1,
                            !.req_pa = PteAt(pte.ppn, u.last_va, p - 1)]
        ELSE [(IF Forbids(pte.flags, u.req.write) THEN refused
               ELSE [u EXCEPT !.state = "UpdateTlb"])
              EXCEPT !.last_permission = pte.flags, !.last_page_size = p,
                     !.tlb_wdata = [va |-> u.last_va, pa |-> pte.ppn, size |-> p,
                                    flags |-> pte.flags],
                     !.req_pa = DataAt(Within(p, pte.ppn, u.last_va)),
                     !.last_pa = base]

AcceptCore_Next(u) ==
    [u EXCEPT !.state = "Idle",
              !.last_va = IF u.ex_page_fault THEN Top ELSE @,
              !.last_pa = IF u.ex_page_fault THEN Top ELSE @]

FlushTlb_Next(u) ==
    LET n == [u EXCEPT !.last_va = Top, !.last_pa = Top, !.last_mmu_ena = FALSE]
    IN  IF u.tlb_flush_cnt = 0 THEN [n EXCEPT !.state = "Idle"]
        ELSE [n EXCEPT !.tlb_flush_cnt = @ - 1, !.tlb_flush_adr = (@ + 1) % NTlb]

\* i_fence in any state
MmuNext(u, in) ==
    LET n == CASE u.state = "Idle" -> Idle_Next(u, in)
               [] u.state = "WaitRespNoMmu" -> WaitRespNoMmu_Next(u, in)
               [] u.state = "WaitRespLast" -> WaitRespLast_Next(u, in)
               [] u.state = "CheckTlb" -> CheckTlb_Next(u, in)
               [] u.state = "CacheReq" -> IF in.mem_ready THEN [u EXCEPT !.state = "WaitResp"]
                                          ELSE u
               [] u.state = "WaitResp" -> WaitResp_Next(u, in)
               [] u.state = "HandleResp" -> HandleResp_Next(u)
               [] u.state = "UpdateTlb" -> [u EXCEPT !.state = "CacheReq", !.tlb_hit = TRUE]
               [] u.state = "AcceptCore" -> AcceptCore_Next(u)
               [] u.state = "FlushTlb" -> FlushTlb_Next(u)
    IN  IF in.fence THEN [n EXCEPT !.req_flush = TRUE, !.tlb_flush_cnt = NTlb - 1,
                                   !.tlb_flush_adr = 0]
        ELSE n

\* the translation buffer: written in UpdateTlb and FlushTlb, read otherwise,
\* at the address on the bus
TlbWrites(u) == u.state \in {"UpdateTlb", "FlushTlb"}
TlbNext(u, tlb) ==
    IF TlbWrites(u)
    THEN [tlb EXCEPT ![IF u.state = "FlushTlb" THEN u.tlb_flush_adr
                       ELSE TlbIndex(u, u.last_va)] = u.tlb_wdata]
    ELSE tlb
TlbRead(u, tlb, rdata, page) == IF TlbWrites(u) THEN rdata ELSE tlb[TlbIndex(u, page)]
============================================================================
