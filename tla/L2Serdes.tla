------------------------------ MODULE L2Serdes ------------------------------
(***************************************************************************)
(* The path of the L2 cache to the system bus: the bus adapter             *)
(* l2cache/l2_amba.cpp and the serializer l2cache/l2serdes.cpp, which cuts *)
(* a line into the beats of a burst and puts it together again.            *)
(*                                                                         *)
(* job is the request on the memory port of the L2 cache, [write, slv,     *)
(* addr, len, data, strb] or None; z holds the registers of both blocks.   *)
(***************************************************************************)
EXTENDS Integers

CONSTANTS
    Beats,      \* SERDES_BURST_LEN: bus words of a line
    Values,
    None

Beat == 0 .. Beats - 1
Lines == [Beat -> Values]
Strobes == [Beat -> BOOLEAN]

SerdesRegisters ==
    [amba : {"idle", "reading", "writing", "wack"}, state : {"Idle", "Read", "Write"},
     req_len : Beat, b_wait : BOOLEAN, line : Lines, wstrb : Strobes, rmux : 0 .. Beats]

SerdesReset ==
    [amba |-> "idle", state |-> "Idle", req_len |-> 0, b_wait |-> FALSE,
     line |-> [i \in Beat |-> 0], wstrb |-> [i \in Beat |-> FALSE], rmux |-> Beats]

----------------------------------------------------------------------------
(***************************************************************************)
(* Combinational signals.  r, b: the answers the bus gives this master.    *)
(***************************************************************************)

\* the line with the word of this beat put in; rmux is the position of the
\* one bit of the register rmux, Beats when the bit is shifted out
LineO(z, r) == [i \in Beat |-> IF i = z.rmux THEN r.data ELSE z.line[i]]

LastR(z, r) == z.state = "Read" /\ r # None /\ z.req_len = 0
LastW(z, w_ready) == z.state = "Write" /\ w_ready /\ z.req_len = 0
BValid(z, b) == b # None /\ z.b_wait

\* v_next_ready of the adapter
NextReady(z, r, b) ==
    \/ z.amba = "idle"
    \/ z.amba = "reading" /\ LastR(z, r)
    \/ z.amba = "wack" /\ BValid(z, b)

\* the address channels of this master
ArOut(z, job, r, b) == IF NextReady(z, r, b) /\ job # None /\ ~job.write THEN job ELSE None
AwOut(z, job, r, b) == IF NextReady(z, r, b) /\ job # None /\ job.write THEN job ELSE None
\* the word on the W channel
WOut(z) == IF z.state = "Write"
           THEN [data |-> z.line[0], strb |-> z.wstrb[0], last |-> z.req_len = 0] ELSE None

\* what the L2 cache sees: o_req_ready, and the response with its data
ReqTaken(z, job, r, b, ar_ready, aw_ready) ==
    \/ ArOut(z, job, r, b) # None /\ ar_ready
    \/ AwOut(z, job, r, b) # None /\ aw_ready
Response(z, r, b) ==
    IF z.amba = "reading" /\ LastR(z, r) THEN [data |-> LineO(z, r), err |-> r.err]
    ELSE IF z.amba = "wack" /\ BValid(z, b) THEN [data |-> None, err |-> b.err]
    ELSE None

----------------------------------------------------------------------------
\* The registers after a clock.

Amba(z, job, r, b, ar_ready, aw_ready, w_ready) ==
    IF ArOut(z, job, r, b) # None /\ ar_ready THEN "reading"
    ELSE IF AwOut(z, job, r, b) # None /\ aw_ready THEN "writing"
    ELSE IF NextReady(z, r, b) THEN "idle"
    ELSE IF z.amba = "writing" /\ LastW(z, w_ready) THEN "wack" ELSE z.amba

\* the word with the highest address leaves first
Shifted_Down(f, zero) == [i \in Beat |-> IF i > 0 THEN f[i - 1] ELSE zero]
Shifted(f, zero) == [i \in Beat |-> IF i + 1 \in Beat THEN f[i + 1] ELSE zero]

Transfer(z, r, w_ready) ==
    IF z.state = "Read" /\ r # None
    THEN [z EXCEPT !.line = LineO(z, r), !.rmux = IF @ = Beats THEN @ ELSE @ + 1,
                   !.req_len = IF @ = 0 THEN 0 ELSE @ - 1]
    ELSE IF z.state = "Write" /\ w_ready
    THEN [z EXCEPT !.line = Shifted(@, 0), !.wstrb = Shifted(@, FALSE),
                   !.req_len = IF @ = 0 THEN 0 ELSE @ - 1]
    ELSE z

\* v_req_mem_ready of the serializer: a new burst may begin behind this beat
Begins(z, y, job, r, b, ar_ready, aw_ready) ==
    IF ArOut(z, job, r, b) # None /\ ar_ready
    THEN [y EXCEPT !.state = "Read", !.rmux = 0, !.req_len = job.len]
    ELSE IF AwOut(z, job, r, b) # None /\ aw_ready
    THEN [y EXCEPT !.state = "Write", !.line = job.data, !.wstrb = job.strb,
                   !.req_len = job.len]
    ELSE [y EXCEPT !.state = "Idle", !.req_len = 0]

SerdesNext(z, job, r, b, ar_ready, aw_ready, w_ready) ==
    LET y == [Transfer(z, r, w_ready) EXCEPT
                !.amba = Amba(z, job, r, b, ar_ready, aw_ready, w_ready),
                !.b_wait = LastW(z, w_ready) \/ (@ /\ b = None)]
    IN  IF z.state = "Idle" \/ LastR(z, r) \/ LastW(z, w_ready)
        THEN Begins(z, y, job, r, b, ar_ready, aw_ready) ELSE y
============================================================================
