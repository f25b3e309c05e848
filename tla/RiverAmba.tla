----------------------------- MODULE RiverAmba -----------------------------
(***************************************************************************)
(* Bridge between the caches of one core and the L2 cache:                 *)
(* sc/rtl/riverlib/river_amba.cpp and .h.  Two machines share one clock:   *)
(* the request machine turns a memory request of the caches into AXI       *)
(* channels, the snoop machine turns the ACE snoop channels AC, CR and CD  *)
(* into one or two snoop requests to the data cache.                       *)
(*                                                                         *)
(* An absent message on a channel is None.  A request keeps the request    *)
(* type of the cache; req_cached, req_ar_snoop and req_aw_snoop, which     *)
(* encode it for the bus, are the operators Cached and Unique.  A machine  *)
(* that returns to idle reads none of its registers again before it has    *)
(* written them; the model gives them their reset values there.            *)
(***************************************************************************)
CONSTANTS
    None,           \* a channel whose valid bit is low
    Requests,       \* records [type, addr, data] of the caches
    Addrs, Lines,   \* addresses and cache lines
    CoherenceEna    \* coherence_ena_

VARIABLES
    a,      \* registers of the request machine: [state, req]
    s       \* registers of the snoop machine

avars == <<a, s>>

WriteTypes == {"WriteNoSnoop", "WriteLineUnique", "WriteBack"}

\* ARCACHE/AWCACHE bit 0; reqtype2arsnoop and reqtype2awsnoop
Cached(t) == t \notin {"ReadNoSnoop", "WriteNoSnoop"}
Unique(t) == CoherenceEna /\ t \in {"ReadMakeUnique", "WriteLineUnique"}

AmbaTypeOK ==
    /\ a \in [state : {"idle", "ar", "r", "aw", "w", "b"},
              req : Requests \cup {None}]
    /\ s \in [state : {"idle", "ac_wait_accept", "cr", "cr_wait_accept",
                       "cd", "cd_wait_accept"},
              ac : [addr : Addrs, unique : BOOLEAN] \cup {None},
              type : {"flags", "data", "clean"}, cache_access : BOOLEAN,
              cr_resp : BOOLEAN, data : Lines \cup {None}]

\* RiverAmba_r_reset
RequestReset == [state |-> "idle", req |-> None]
SnoopReset == [state |-> "idle", ac |-> None, type |-> "flags",
               cache_access |-> FALSE, cr_resp |-> FALSE, data |-> None]

AmbaInit == a = RequestReset /\ s = SnoopReset

----------------------------------------------------------------------------
(***************************************************************************)
(* The request machine.  req is the request of the caches; msti the inputs *)
(* from the bus: [ar_ready, aw_ready, w_ready : BOOLEAN; r, b : a response *)
(* or None; ac; cr_ready, cd_ready : BOOLEAN].                             *)
(***************************************************************************)
RequestIdle(req) ==
    /\ a.state = "idle"
    /\ a' = IF req = None THEN a
            ELSE IF req.type \in WriteTypes THEN [state |-> "aw", req |-> req]
            ELSE [state |-> "ar", req |-> [req EXCEPT !.data = None]]

RequestAr(msti) ==
    /\ a.state = "ar"
    /\ a' = IF msti.ar_ready THEN [a EXCEPT !.state = "r"] ELSE a

\* the read response is taken for the whole line: r_last comes with r_valid
RequestR(msti) ==
    /\ a.state = "r"
    /\ a' = IF msti.r # None THEN RequestReset ELSE a

RequestAw(msti) ==
    /\ a.state = "aw"
    /\ a' = IF ~msti.aw_ready THEN a
            ELSE [a EXCEPT !.state = IF msti.w_ready THEN "b" ELSE "w"]

RequestW(msti) ==
    /\ a.state = "w"
    /\ a' = IF msti.w_ready THEN [a EXCEPT !.state = "b"] ELSE a

RequestB(msti) ==
    /\ a.state = "b"
    /\ a' = IF msti.b # None THEN RequestReset ELSE a

RequestClock(req, msti) ==
    \/ RequestIdle(req) \/ RequestAr(msti) \/ RequestR(msti)
    \/ RequestAw(msti) \/ RequestW(msti) \/ RequestB(msti)

\* ar_valid, aw_valid and w_valid with their bits
Ar == IF a.state = "ar" THEN a.req ELSE None
Aw == IF a.state = "aw" THEN a.req ELSE None

\* req_mem_ready_i and the response to the caches
MemReady == a.state = "idle"
MemResp(msti) == IF a.state = "r" THEN msti.r
                 ELSE IF a.state = "b" THEN msti.b ELSE None

----------------------------------------------------------------------------
\* an address is taken from the AC channel in this clock
Accepts(ac) == CoherenceEna /\ s.state = "idle" /\ ac # None

(***************************************************************************)
(* req_snoop_*_i: the snoop request that the data cache sees.  The first   *)
(* request of a snoop only reads the flags of the line.                    *)
(***************************************************************************)
SnoopReq(ac) ==
    IF s.state = "ac_wait_accept" THEN [type |-> s.type, addr |-> s.ac.addr]
    ELSE IF Accepts(ac) THEN [type |-> "flags", addr |-> ac.addr]
    ELSE None

\* the line has to be read from the data cache, by a second request
NeedsData(flags) ==
    /\ "VALID" \in flags
    /\ "SHARED" \notin flags \/ s.ac.unique

\* the snoop machine: resp = [flags, data] of the data cache, or None
SnoopIdle ==
    /\ s.state = "idle"
    /\ s' = s

SnoopAcWait(ready) ==
    /\ s.state = "ac_wait_accept"
    /\ s' = IF ready THEN [s EXCEPT !.state = IF s.cache_access THEN "cd" ELSE "cr"]
            ELSE s

SnoopCr(msti, resp) ==
    /\ s.state = "cr"
    /\ s' = IF resp = None THEN s
            ELSE IF NeedsData(resp.flags)
            THEN [s EXCEPT !.cache_access = TRUE, !.cr_resp = TRUE,
                           !.type = IF s.ac.unique THEN "clean" ELSE "data",
                           !.state = IF msti.cr_ready THEN "ac_wait_accept"
                                     ELSE "cr_wait_accept"]
            ELSE IF msti.cr_ready THEN SnoopReset
            ELSE [s EXCEPT !.cr_resp = FALSE, !.state = "cr_wait_accept"]

SnoopCrWait(msti) ==
    /\ s.state = "cr_wait_accept"
    /\ s' = IF ~msti.cr_ready THEN s
            ELSE IF s.cache_access THEN [s EXCEPT !.state = "ac_wait_accept"]
            ELSE SnoopReset

SnoopCd(msti, resp) ==
    /\ s.state = "cd"
    /\ s' = IF resp = None THEN s
            ELSE IF msti.cd_ready THEN SnoopReset
            ELSE [s EXCEPT !.data = resp.data, !.state = "cd_wait_accept"]

SnoopCdWait(msti) ==
    /\ s.state = "cd_wait_accept"
    /\ s' = IF msti.cd_ready THEN SnoopReset ELSE s

SnoopAccept(msti, ready) ==
    /\ Accepts(msti.ac)
    /\ s' = [s EXCEPT !.cache_access = FALSE, !.type = "flags", !.ac = msti.ac,
                      !.state = IF ready THEN "cr" ELSE "ac_wait_accept"]

SnoopClock(msti, ready, resp) ==
    \/ SnoopAccept(msti, ready)
    \/ /\ ~Accepts(msti.ac)
       /\ \/ SnoopIdle \/ SnoopAcWait(ready) \/ SnoopCr(msti, resp)
          \/ SnoopCrWait(msti) \/ SnoopCd(msti, resp) \/ SnoopCdWait(msti)

(***************************************************************************)
(* Outputs of the snoop machine.  The last branch of comb() raises         *)
(* ac_ready and cr_valid in every clock that takes no address, whatever    *)
(* the machine is doing; ac_ready is thus always high.                     *)
(***************************************************************************)
AcReady == TRUE
CrValid(ac) == ~Accepts(ac)
CrResp(resp) ==
    \/ s.state = "cr" /\ resp # None /\ NeedsData(resp.flags)
    \/ s.state = "cr_wait_accept" /\ s.cr_resp
Cd(resp) ==
    IF s.state = "cd" /\ resp # None THEN resp.data
    ELSE IF s.state = "cd_wait_accept" THEN s.data
    ELSE None

AmbaClock(req, msti, ready, resp) ==
    RequestClock(req, msti) /\ SnoopClock(msti, ready, resp)
============================================================================
