------------------------------- MODULE Ports -------------------------------
(***************************************************************************)
(* The two places at which several caches share one port: the L2 cache     *)
(* with its destination port (L2Top), and the top level of a core, where   *)
(* the instruction and the data cache share the bus (CacheTop).  A         *)
(* behaviour is one of either kind.                                        *)
(***************************************************************************)
EXTENDS L2Top

CONSTANTS
    Depth,      \* places of the queue of CacheTop
    TopAddrs,   \* addresses and
    TopValues   \* write data of the L1 caches

\* a request of an L1 cache on the bus, with its data
TopRequest == [path : {"ctrl", "data"}, type : {"read", "write"},
               addr : TopAddrs, data : TopValues]

\* the queue has a place for each L1 cache, and None is no request
ASSUME PortsAssumption ==
    /\ Depth \in Nat /\ Depth >= 2
    /\ TopAddrs # {} /\ TopValues # {}
    /\ None \notin TopRequest

VARIABLES
    level,      \* "L1" or "L2"
    ci, cd, cwdata, cwcnt, cqueued, cgot, cbus, csent, cjudged, cclk   \* of CacheTop

Top == INSTANCE CacheTop WITH Addrs <- TopAddrs, Values <- TopValues,
           i <- ci, d <- cd, wdata <- cwdata, wcnt <- cwcnt, mem <- cqueued,
           got <- cgot, bus <- cbus, sent <- csent, judged <- cjudged, clk <- cclk

cvars == <<ci, cd, cwdata, cwcnt, cqueued, cgot, cbus, csent, cjudged, cclk>>
pvars == <<vars, cvars, level>>

CacheTopStep == level = "L1" /\ Top!Next /\ UNCHANGED <<vars, level>>
L2TopStep == level = "L2" /\ Next /\ UNCHANGED <<cvars, level>>

\* the level that stands still is at rest, and meets the other's conditions
PortsInit == Init /\ Top!Init /\ level \in {"L1", "L2"}
PortsSpec ==
    /\ PortsInit
    /\ [][CacheTopStep \/ L2TopStep]_pvars
    /\ []<><<TRUE>>_pvars /\ MemoryFair /\ Top!BusFair

----------------------------------------------------------------------------
(***************************************************************************)
(* An answer of the bus reaches the L1 cache that made the request, with   *)
(* the write data of that request (cache_top.cpp, i_resp_mem_path).        *)
(***************************************************************************)
AnswerReachesRequester == Top!AnswerReachesRequester

(***************************************************************************)
(* Every request of each L1 cache is answered: none is lost when both ask  *)
(* in the same clock (w_ctrl_req_ready, w_data_req_ready).                 *)
(***************************************************************************)
CachesAnswered == Top!CachesAnswered
============================================================================
