----------------------------- MODULE AcpBridge -----------------------------
(***************************************************************************)
(* The bridge from the AXI4 port of an accelerator to the port of an L1    *)
(* cache at the L2 cache: sc/rtl/riverlib/ic_axi4_to_l1.cpp and .h.  A     *)
(* write of a word is a read of its line followed by a write of the line.  *)
(*                                                                         *)
(* The accelerator has a read engine and a write engine.  The L2 cache     *)
(* takes one request at a time, of the bridge or of a core, and answers    *)
(* the bridge by a pulse of one clock.  What a request does to the copies  *)
(* in the L2 cache (l2cache_lru.cpp) and in the L1 caches that it snoops   *)
(* (l2_dst.cpp) is done at the answer; the modules L2CacheLru and          *)
(* L2Destination have the clocks in between.                               *)
(***************************************************************************)
EXTENDS Integers

CONSTANTS
    NLines,     \* lines of the page
    NWords,     \* bus words of a line
    Vals,       \* contents of a word
    MaxLen,     \* longest burst, in beats after the first
    Duplex,     \* whether both engines work at the same time
    Cores,      \* the lines that the cores load from and store to
    None

ASSUME AcpAssumption ==
    /\ NLines \in Nat \ {0} /\ NWords \in Nat \ {0} /\ MaxLen \in Nat
    /\ 0 \in Vals /\ Duplex \in BOOLEAN /\ Cores \subseteq 0 .. NLines - 1

PageWords == NLines * NWords
Words == 0 .. PageWords - 1
Idx == 0 .. NWords - 1
Lines == [Idx -> Vals]
ZeroLine == [i \in Idx |-> 0]
Copies == [data : Lines, dirty : BOOLEAN]     \* a line in a cache

\* None is told from a burst, a request, an answer, a line, a copy and the words
ASSUME NoneAssumption ==
    /\ None \notin [addr : Words, len : 0 .. MaxLen, got : 0 .. MaxLen, taken : BOOLEAN]
    /\ None \notin [addr : Words, len : 0 .. MaxLen, data : Vals, sent : 0 .. MaxLen + 1,
                    taken : BOOLEAN]
    /\ None \notin [line : 0 .. NLines - 1, data : Lines \cup {None}]
    /\ None \notin [line : Lines] \cup [data : Vals, strb : BOOLEAN]
    /\ None \notin Lines \cup Copies \cup [Words -> Vals]

VARIABLES
    r,      \* registers of the bridge
    rd,     \* read engine: [addr, len, got, taken], or None
    wr,     \* write engine: [addr, len, data, sent, taken], or None
    port,   \* request of the bridge inside the L2 cache, or None
    mem,    \* words of the memory
    l2,     \* copy of each line in the L2 cache, or None
    l1,     \* copy of each line in an L1 cache, or None
    out,    \* line that an L1 cache has begun to write back, or None
    seen,   \* all words as the caches would have answered them when the line of
            \* a beat was read, until the bridge hands that beat on; then None
    done,   \* lines of the write burst that the L2 cache has answered
    clk

vars == <<r, rd, wr, port, mem, l2, l1, out, seen, done, clk>>

States == {"Idle", "ReadLineRequest", "WaitReadLineResponse", "WriteDataAccept",
           "WriteLineRequest", "WaitWriteConfirmResponse", "WaitWriteAccept",
           "WaitReadAccept", "CheckBurst"}

Registers == [state : States, req_addr : Words, req_wstrb : BOOLEAN, req_wdata : Vals,
              req_len : 0 .. MaxLen, writing : BOOLEAN, rmw : BOOLEAN,
              line_data : Lines, resp_data : Vals]

Init ==
    /\ r = [state |-> "Idle", req_addr |-> 0, req_wstrb |-> FALSE, req_wdata |-> 0,
            req_len |-> 0, writing |-> FALSE, rmw |-> FALSE,
            line_data |-> ZeroLine, resp_data |-> 0]
    /\ rd = None /\ wr = None /\ port = None /\ seen = None /\ done = 0 /\ clk = FALSE
    /\ mem \in [Words -> Vals]
    /\ l2 = [l \in 0 .. NLines - 1 |-> None] /\ l1 = l2 /\ out = None

----------------------------------------------------------------------------
\* The bridge.  aw, ar, w, r_ready: from the accelerator; l1_resp: answer of the
\* L2 cache in this clock, [line] or [b], or None; l1_ready: it is free.

LineOf(a) == a \div NWords
Next12(a) == (a + 1) % PageWords

BridgeIdle(aw, ar) ==
    LET y == [r EXCEPT !.rmw = FALSE, !.writing = FALSE]
    IN  IF aw # None
        THEN [y EXCEPT !.req_addr = aw.addr, !.req_len = aw.len, !.writing = TRUE,
                       !.state = "WriteDataAccept"]
        ELSE IF ar # None
        THEN [y EXCEPT !.req_addr = ar.addr, !.req_len = ar.len, !.state = "ReadLineRequest"]
        ELSE y

\* the strobes of the word are not looked at
Modified_AllStrobes(line) == [line EXCEPT ![r.req_addr % NWords] = r.req_wdata]
\* vb_r_data_modified
Modified(line) == [line EXCEPT ![r.req_addr % NWords] = IF r.req_wstrb THEN r.req_wdata ELSE @]

LineRead(line) ==
    LET y == [r EXCEPT !.resp_data = line[r.req_addr % NWords]]
    IN  IF r.rmw THEN [y EXCEPT !.line_data = Modified(line), !.state = "WriteLineRequest"]
        ELSE [y EXCEPT !.line_data = line, !.state = "WaitReadAccept"]

\* Behind a beat these registers are not read before they have been written
\* again; the model gives them their reset values there.
BeatOver == [r EXCEPT !.req_wstrb = FALSE, !.req_wdata = 0, !.line_data = ZeroLine,
                      !.resp_data = 0]
BurstOver == [BeatOver EXCEPT !.req_addr = 0, !.state = "Idle"]

\* the address of the next beat is not advanced
CheckBurst_SameAddr ==
    IF r.req_len = 0 THEN BurstOver
    ELSE [BeatOver EXCEPT !.req_len = @ - 1, !.rmw = FALSE,
                   !.state = IF r.writing THEN "WriteDataAccept" ELSE "ReadLineRequest"]
\* bursts are supported in one direction only
CheckBurst_WriteOnly ==
    IF r.req_len = 0 \/ ~r.writing THEN BurstOver
    ELSE [BeatOver EXCEPT !.req_len = @ - 1, !.req_addr = Next12(@), !.rmw = FALSE,
                   !.state = "WriteDataAccept"]
CheckBurst ==
    IF r.req_len = 0 THEN BurstOver
    ELSE [BeatOver EXCEPT !.req_len = @ - 1, !.req_addr = Next12(@), !.rmw = FALSE,
                   !.state = IF r.writing THEN "WriteDataAccept" ELSE "ReadLineRequest"]

AfterLine == IF r.req_len = 0 THEN "WaitWriteConfirmResponse" ELSE "CheckBurst"

BridgeNext(aw, ar, w, r_ready, b_ready, l1_resp, l1_ready) ==
    CASE r.state = "Idle" -> BridgeIdle(aw, ar)
      [] r.state = "WriteDataAccept" ->
           IF w = None THEN r
           ELSE [r EXCEPT !.req_wdata = w.data, !.req_wstrb = w.strb, !.rmw = TRUE,
                          !.state = "ReadLineRequest"]
      [] r.state = "ReadLineRequest" ->
           IF l1_ready THEN [r EXCEPT !.state = "WaitReadLineResponse"] ELSE r
      [] r.state = "WaitReadLineResponse" -> IF l1_resp # None THEN LineRead(l1_resp.line) ELSE r
      [] r.state = "WriteLineRequest" ->
           IF l1_ready THEN [r EXCEPT !.state = AfterLine] ELSE r
      [] r.state = "WaitWriteConfirmResponse" ->
           IF l1_resp # None THEN [r EXCEPT !.state = "WaitWriteAccept"] ELSE r
      [] r.state = "WaitWriteAccept" -> IF b_ready THEN BurstOver ELSE r
      [] r.state = "WaitReadAccept" -> IF r_ready THEN [r EXCEPT !.state = "CheckBurst"] ELSE r
      [] r.state = "CheckBurst" -> CheckBurst

\* the ready signals of the address channels, and the end mark of a read
\* beat: ~ of a bool is not zero, whether or not beats are left
ArReady == r.state = "Idle"
AwReady == r.state = "Idle"
RLast == TRUE

----------------------------------------------------------------------------
\* The copies of a line, and the requests of the bridge and of the cores to
\* the L2 cache.

LineIn(l) == [i \in Idx |-> mem[l * NWords + i]]

\* the contents of a line in the L2 cache or the memory; and its newest contents
Below(l) == IF l2[l] # None THEN l2[l].data ELSE LineIn(l)
Held(l) == IF l1[l] # None THEN l1[l].data ELSE Below(l)
HeldWords == [a \in Words |-> Held(LineOf(a))[a % NWords]]

Without(copies, l) == [copies EXCEPT ![l] = None]
Copied(copies, l, line, dirty) == [copies EXCEPT ![l] = [data |-> line, dirty |-> dirty]]

\* the request of the bridge, with the line it writes
PortRequest ==
    IF r.state = "ReadLineRequest" THEN [line |-> LineOf(r.req_addr), data |-> None]
    ELSE IF r.state = "WriteLineRequest"
    THEN [line |-> LineOf(r.req_addr), data |-> r.line_data] ELSE None

(***************************************************************************)
(* A read of a line makes it unique (ARSNOOP_READ_MAKE_UNIQUE), for a read *)
(* burst, too.  The L1 cache hands its copy over, or too late for the      *)
(* answer (river_amba.cpp:489), and the L2 cache gives its copy away:      *)
(* nobody writes a modified line back.                                     *)
(***************************************************************************)
Answered(l, late) == IF late THEN Below(l) ELSE Held(l)
LineGiven(late) ==
    /\ l1' = Without(l1, port.line) /\ l2' = Without(l2, port.line)
    /\ mem' = mem
    /\ seen' = [a \in Words |-> Answered(LineOf(a), late)[a % NWords]]

(***************************************************************************)
(* A write of a line is an uncached one (AWCACHE_DEVICE_NON_BUFFERABLE,    *)
(* AWSNOOP_WRITE_NO_SNOOP), with all strobes.  A copy in the L2 cache is   *)
(* made invalid and the write ends there; otherwise the first word goes to *)
(* the memory, and zeros for the others (cache_line_o of                   *)
(* State_TranslateAddress).  The L1 caches are not asked.                  *)
(***************************************************************************)
LineWritten ==
    /\ l1' = l1 /\ l2' = Without(l2, port.line)
    /\ mem' = IF l2[port.line] # None THEN mem
              ELSE [a \in Words |-> IF LineOf(a) # port.line THEN mem[a]
                                    ELSE IF a % NWords = 0 THEN port.data[0] ELSE 0]

\* the L2 cache takes a request of the bridge: a write of a core comes first
\* (vb_src_aw); and a read of a core: any write comes first
Free == port = None /\ out = None
TakesRead == Free /\ r.state # "WriteLineRequest"

\* a load of a core brings a line into its L1 cache and into the L2 cache
CoreLoad(l) ==
    /\ TakesRead /\ l1[l] = None
    /\ l1' = Copied(l1, l, Below(l), FALSE)
    /\ l2' = IF l2[l] = None THEN Copied(l2, l, Below(l), FALSE) ELSE l2
    /\ UNCHANGED <<r, rd, wr, port, mem, out, seen, done, clk>>

\* a store of a core that is not waiting for a write back of the line: the L1
\* cache has the line modified; or has it and asks for it alone; or reads it
CoreStore(a, v) ==
    LET l == LineOf(a)
    IN  /\ out # None => out.line # l
        /\ IF l1[l] = None THEN TakesRead ELSE port = None \/ l1[l].dirty
        /\ l1' = Copied(l1, l, [Held(l) EXCEPT ![a % NWords] = v], TRUE)
        /\ l2' = Without(l2, l)
        /\ UNCHANGED <<r, rd, wr, port, mem, out, seen, done, clk>>

\* an L1 cache displaces a line: it drops it, or begins to write it back and
\* has it until that is done, also for a snoop (WriteBus of dcache_lru.cpp)
Offload(l) ==
    /\ l1[l] # None /\ out = None
    /\ IF l1[l].dirty THEN out' = [line |-> l, data |-> l1[l].data] /\ l1' = l1
       ELSE out' = None /\ l1' = Without(l1, l)
    /\ UNCHANGED <<r, rd, wr, port, mem, l2, seen, done, clk>>

\* the write back reaches the L2 cache, whether or not the line was taken since
OffloadDone ==
    /\ port = None /\ out # None
    /\ l1' = Without(l1, out.line) /\ l2' = Copied(l2, out.line, out.data, TRUE)
    /\ out' = None
    /\ UNCHANGED <<r, rd, wr, port, mem, seen, done, clk>>

\* the L2 cache displaces a line, for a request to another one: to the memory
\* if it is modified
Evict(l) ==
    /\ l2[l] # None /\ (port # None => port.line # l)
    /\ l2' = Without(l2, l)
    /\ mem' = IF ~l2[l].dirty THEN mem
              ELSE [a \in Words |-> IF LineOf(a) = l THEN l2[l].data[a % NWords] ELSE mem[a]]
    /\ UNCHANGED <<r, rd, wr, port, l1, out, seen, done, clk>>

CoreStep ==
    \/ \E l \in Cores : CoreLoad(l) \/ Offload(l) \/ Evict(l)
    \/ OffloadDone
    \/ \E a \in {w \in Words : LineOf(w) \in Cores}, v \in Vals : CoreStore(a, v)

----------------------------------------------------------------------------
\* The accelerator, and the clock.

Beat(q, i) == (q.addr + i) % PageWords
\* every second word of a write burst has no strobes
Strobed(i) == i % 2 = 0

Reads == [addr : Words, len : 0 .. MaxLen, got : {0}, taken : {FALSE}]
Writes == [addr : Words, len : 0 .. MaxLen, data : Vals, sent : {0}, taken : {FALSE}]

(***************************************************************************)
(* One clock.  answer: the L2 cache ends its request, and late: without    *)
(* the data of an L1 cache; w_now, r_ready, b_ready: the accelerator sends *)
(* a beat, takes a beat, takes the response.                               *)
(***************************************************************************)
Clock(answer, late, w_now, r_ready, b_ready) ==
    LET aw == IF wr # None /\ ~wr.taken THEN wr ELSE None
        ar == IF rd # None /\ ~rd.taken THEN rd ELSE None
        w == IF wr # None /\ wr.taken /\ w_now /\ wr.sent <= wr.len
             THEN [data |-> wr.data, strb |-> Strobed(wr.sent)] ELSE None
        l1_resp == IF ~answer THEN None
                   ELSE IF port.data = None THEN [line |-> Answered(port.line, late)]
                   ELSE [line |-> port.data]
        w_take == w # None /\ r.state = "WriteDataAccept"
        r_take == rd # None /\ rd.taken /\ r.state = "WaitReadAccept" /\ r_ready
        b_take == wr # None /\ r.state = "WaitWriteAccept" /\ b_ready
        given == answer /\ port.data = None
        written == answer /\ port.data # None
    IN  /\ clk' = ~clk /\ out' = out
        /\ r' = BridgeNext(aw, ar, w, r_ready, b_ready, l1_resp, Free)
        /\ port' = IF answer THEN None ELSE IF Free THEN PortRequest ELSE port
        /\ IF given THEN LineGiven(late)
           ELSE /\ seen' = IF r'.state = r.state THEN seen ELSE None
                /\ IF written THEN LineWritten ELSE UNCHANGED <<mem, l2, l1>>
        /\ done' = IF wr = None THEN 0 ELSE IF written THEN done + 1 ELSE done
        /\ IF wr = None
           THEN wr' \in {None} \cup (IF rd = None \/ Duplex THEN Writes ELSE {})
           ELSE wr' = IF b_take THEN None
                      ELSE IF aw # None /\ AwReady THEN [wr EXCEPT !.taken = TRUE]
                      ELSE IF w_take THEN [wr EXCEPT !.sent = @ + 1] ELSE wr
        /\ IF rd = None
           THEN rd' \in {None} \cup (IF wr' = None \/ Duplex THEN Reads ELSE {})
           ELSE rd' = IF r_take THEN IF rd.got = rd.len THEN None ELSE [rd EXCEPT !.got = @ + 1]
                      ELSE IF ar # None /\ ArReady THEN [rd EXCEPT !.taken = TRUE] ELSE rd

Next ==
    \/ \E answer, late, w_now, r_ready, b_ready \in BOOLEAN :
          /\ answer => port # None
          /\ late => answer /\ port.data = None
          /\ Clock(answer, late, w_now, r_ready, b_ready)
    \/ CoreStep

(***************************************************************************)
(* The clock runs, the L2 cache answers, and the cores, which come before  *)
(* the bridge, leave it a clock in the end; the accelerator sends and      *)
(* takes what is offered to it in the end.                                 *)
(***************************************************************************)
Fairness ==
    /\ WF_clk(clk' = ~clk)
    /\ []<>Free /\ SF_clk(clk' = ~clk /\ Free)
    /\ []<>(r.state # "WriteDataAccept" \/ wr = None \/ ~wr.taken)
    /\ []<>(r.state # "WaitReadAccept") /\ []<>(r.state # "WaitWriteAccept")

Spec == Init /\ [][Next]_vars /\ Fairness

----------------------------------------------------------------------------
TypeOK ==
    /\ r \in Registers
    /\ rd = None \/ (rd.addr \in Words /\ rd.got \in 0 .. rd.len)
    /\ wr = None \/ (wr.addr \in Words /\ wr.sent \in 0 .. wr.len + 1)
    /\ port = None \/ port.data = None \/ port.data \in Lines
    /\ mem \in [Words -> Vals] /\ seen \in [Words -> Vals] \cup {None}
    /\ {l1, l2} \subseteq [0 .. NLines - 1 -> Copies \cup {None}]
    /\ out = None \/ out \in [line : 0 .. NLines - 1, data : Lines]
    /\ done \in 0 .. MaxLen + 1

(***************************************************************************)
(* A beat of a read burst carries the word of its own address, as the      *)
(* caches answered it when its line was read, across the end of a line and *)
(* of the page.                                                            *)
(***************************************************************************)
ReadsOwnWord ==
    /\ TypeOK
    /\ r.state = "WaitReadAccept" => rd # None /\ r.resp_data = seen[Beat(rd, rd.got)]

(***************************************************************************)
(* A line that is written is the line of the burst's own beat as it was    *)
(* read, changed in that word only and only where it is strobed; and the   *)
(* response to the burst is given when the L2 cache has answered one line  *)
(* for every beat, although the lines before the last one are not awaited  *)
(* (WriteLineRequest and CheckBurst of ic_axi4_to_l1.cpp).                 *)
(***************************************************************************)
OwnLine(a, data) ==
    /\ r.req_addr = a
    /\ \A b \in Words : LineOf(b) = LineOf(a) =>
          r.line_data[b % NWords] = IF b = a /\ Strobed(wr.sent - 1) THEN data ELSE seen[b]
WritesOwnLine ==
    /\ r.state = "WriteLineRequest" => wr # None /\ OwnLine(Beat(wr, wr.sent - 1), wr.data)
    /\ r.state = "WaitWriteAccept" => wr # None /\ port = None /\ done = wr.len + 1

\* every read burst of the accelerator ends; and every write burst
ReadEnds == rd # None ~> rd = None
BurstsEnd == ReadEnds /\ (wr # None ~> wr = None)

(***************************************************************************)
(* A line that is read to be modified is held as it was written once its   *)
(* write has been answered (WriteLineRequest of ic_axi4_to_l1.cpp).        *)
(***************************************************************************)
LineIsWritten ==
    [][\A l \in 0 .. NLines - 1 :
          port # None /\ port' = None /\ port.data # None /\ port.line = l =>
             Held(l)' = port.data]_vars

(***************************************************************************)
(* A read burst changes no word: what a snoop brings is written to the L2  *)
(* cache for a read, too (snoop_cd of l2_dst.cpp), and not lost.           *)
(***************************************************************************)
ReadKeepsStores ==
    [][port # None /\ port' = None /\ port.data = None /\ ~r.writing =>
          HeldWords' = HeldWords]_vars

(***************************************************************************)
(* A request that is not cached finds no copy of its line in the L2 cache: *)
(* State_CheckHit of l2cache_lru.cpp expects that only of a changed memory *)
(* protection region.                                                      *)
(***************************************************************************)
UncachedMisses == port # None /\ port.data # None => l2[port.line] = None

\* the end of a read burst is marked at its last beat, and only there
LastMarksTheEnd == r.state = "WaitReadAccept" => (RLast <=> rd.got = rd.len)
============================================================================
