-------------------------- MODULE FetchPath_proof --------------------------
(***************************************************************************)
(* Proofs about the path of an instruction, for every number of ways,      *)
(* sets, tags, words, versions of the code and every workload.             *)
(*                                                                         *)
(* The control invariant ControlInv says what the states of the cache      *)
(* mean: whose fetch is served, what the two banks show, which line is     *)
(* missing, what a flush has still to do.  The data invariant DataInv says *)
(* which version of its code every cached line holds.                      *)
(***************************************************************************)
EXTENDS FetchPath, TLAPS

WayNo == 0 .. Ways - 1
Flushing == r.state \in {"FlushAddr", "FlushCheck"}
Resetting == r.state \in {"Reset", "ResetWrite"}
\* a fetch is being served, and not at the moment its line is written
Looking == r.state \in {"CheckHit", "TranslateAddress", "WaitGrant", "WaitResp"}
Serving == Looking \/ r.state \in {"CheckResp", "SetupReadAdr"}

Asks == [addr : PcSet, ok : [own : SUBSET Versions, nxt : SUBSET Versions]]
Answers == [data : Values \X Values, addr : LineAddrs, fault : BOOLEAN]
FetchRegs ==
    [state : FetchStates, req_valid : BOOLEAN, resp_ready : BOOLEAN,
     req_addr : PcSet \cup {NoPc}, mem_resp_shadow : PcSet \cup {NoPc},
     pc : LineAddrs \cup {NoPc, Buffer}, instr : {None, Buffer} \cup (Values \X Values),
     fault : BOOLEAN, progbuf_ena : BOOLEAN]

Types ==
    /\ LineTypeOK /\ r \in Registers
    /\ f \in FetchRegs /\ f.req_addr \in load.pcs \cup {NoPc}
    /\ load \in Workloads /\ mem \in [Lines -> Versions] /\ changes \in Versions
    /\ bus \in {None} \cup [addr : LineAddrs]
    /\ asked \in {None} \cup Asks /\ (asked # None => asked.addr \in load.pcs)
    /\ fresh \in [Lines -> SUBSET Versions]
    /\ fence \in {"none", "flushi", "line", "end"}
    /\ heard \in BOOLEAN /\ halted \in BOOLEAN

\* the fetch stage waits for the answer of the fetch the cache serves
FetchInv ==
    /\ asked # None <=> Serving
    /\ asked # None => f.state = "WaitResp"
    /\ f.state = "WaitResp" => f.resp_ready
    /\ f.req_valid => f.state # "Idle" /\ f.req_addr # NoPc

\* bank b, selected by the lowest bit of the line index, and the line it shows of address a
Ram(b) == IF b = 0 THEN ram0 ELSE ram1
Rd(b) == IF b = 0 THEN rd0 ELSE rd1
InBank(a, b) == IF a.odd = b THEN a ELSE AddrNext(a)
Looked(a) ==
    /\ radr = a
    /\ \A b \in {0, 1} : Rd(b).addr = BankAddr(InBank(a, b)) /\ ~Rd(b).direct

\* line n is in the cache
Place(n, b, s, w) == n = Num([tag |-> Ram(b)[s][w].tag, set |-> s, odd |-> b, word |-> 0, way |-> 0])
Valid(b, s, w) == "VALID" \in Ram(b)[s][w].flags
HitIn(b) == \E w \in WayNo : /\ Ram(b)[Rd(b).addr.set][w].tag = Rd(b).addr.tag
                             /\ Valid(b, Rd(b).addr.set, w)
OwnHit == HitIn(radr.odd)
OtherHit == HitIn(1 - radr.odd)

PortInv ==
    /\ rd0.invalidate \/ rd1.invalidate => r.state \in {"FlushCheck", "ResetWrite"}
    /\ Looking \/ r.state = "CheckResp" => Looked(asked.addr)

RequestInv ==
    /\ Looking \/ r.state = "SetupReadAdr" => r.req_addr = asked.addr
    /\ Serving => r.req_addr_next = AddrNext(asked.addr)
    /\ r.state = "TranslateAddress" => ~(OwnHit /\ (Overlay(asked.addr) => OtherHit))
    /\ r.req_mem_valid <=> r.state = "WaitGrant"
    /\ bus # None <=> r.state = "WaitResp"
    /\ bus # None => bus.addr = r.mem_addr

\* a is the address of the line that is missing
Missed(a) == \/ a = asked.addr /\ ~OwnHit
             \/ a = AddrNext(asked.addr) /\ Overlay(asked.addr) /\ ~OtherHit

LoadInv ==
    r.state \in {"WaitGrant", "WaitResp"} =>
        /\ ~r.load_fault /\ Num(asked.addr) \notin load.refused
        /\ r.cached => Missed(r.write_addr) /\ r.mem_addr = LineOf(r.write_addr)
        /\ ~r.cached => r.write_addr = asked.addr /\ r.mem_addr = DWordOf(asked.addr)

FillInv ==
    r.state = "CheckResp" =>
        /\ ~Uncacheable => /\ r.write_addr = asked.addr /\ Missed(r.req_addr)
                           /\ Num(r.req_addr) \notin load.faulty
        /\ ~r.load_fault /\ ~r.cached =>
              r.req_addr = asked.addr /\ Num(asked.addr) \notin load.refused \cup load.faulty
        /\ r.load_fault => \/ Num(asked.addr) \in load.refused \cup load.faulty
                           \/ Overlay(asked.addr) /\ Nxt(Num(asked.addr)) \in load.faulty

\* a line is in one way of its set only
NoAlias ==
    \A b \in {0, 1}, s \in Sets, v, w \in WayNo :
        Valid(b, s, v) /\ Valid(b, s, w) /\ Ram(b)[s][v].tag = Ram(b)[s][w].tag => v = w

\* a flush waits for the end of the fetch; until then there is no second one
FlushInv ==
    /\ fence \in {"flushi", "line"} => ~Resetting /\ ~r.req_flush
    /\ fence = "flushi" => "all" \in load.fences
    /\ fence = "line" => "line" \in load.fences
    /\ heard => ~Resetting /\ fence = "none" /\ (r.req_flush => r.state = "Idle")
    /\ Resetting => fence = "none" /\ (r.state = "ResetWrite" => ~r.req_flush)
    /\ ~Resetting /\ (r.req_flush \/ Flushing) =>
          IF r.req_flush_all
          THEN "all" \in load.fences /\ r.req_flush_addr = ZeroAddr /\ r.req_flush_cnt = FLUSH_ALL_VALUE
          ELSE "line" \in load.fences /\ r.req_flush_addr = Flushed /\ r.req_flush_cnt = 0

\* position of a way in the sweep over all lines
Pos(b, s, w) == (s * 2 + b) * Ways + w
\* what a sweep has passed is empty
Cleared ==
    \A b \in {0, 1}, s \in Sets, w \in WayNo :
        Pos(b, s, w) < FLUSH_ALL_VALUE - r.flush_cnt => ~Valid(b, s, w)

SweepInv ==
    /\ Resetting => \A b \in {0, 1}, s \in Sets, w \in WayNo : ~Valid(b, s, w)
    /\ Flushing =>
        /\ r.req_addr.word = 0
        /\ Tracked => IF r.req_flush_all
                      THEN /\ Pos(r.req_addr.odd, r.req_addr.set, r.req_addr.way)
                                = FLUSH_ALL_VALUE - r.flush_cnt
                           /\ Cleared
                      ELSE r.req_addr = Flushed /\ r.flush_cnt = 0
        /\ r.state = "FlushCheck" =>
              LET b == r.req_addr.odd
              IN  /\ Rd(b).addr = BankAddr(r.req_addr) /\ Rd(b).invalidate
                  /\ Tracked => (Rd(b).direct <=> r.req_flush_all)

ControlInv ==
    /\ Types /\ FetchInv /\ PortInv /\ RequestInv /\ LoadInv /\ FillInv /\ NoAlias
    /\ FlushInv /\ SweepInv

----------------------------------------------------------------------------
\* contents of line n in one of the versions vs
CodeOf(n, v) == [w \in Words |-> Code(n, w, v)]
IsCode(d, n, vs) == \E v \in vs : d = CodeOf(n, v)

\* contents of line n as the fetch that was asked may find them
AskedOf(d, n) ==
    asked # None => /\ n = Num(asked.addr) => IsCode(d, n, asked.ok.own)
                    /\ n = Nxt(Num(asked.addr)) => IsCode(d, n, asked.ok.nxt)

\* a flush of line n is waiting; the sweep has still to reach the place of line n
Due(n) == r.req_flush /\ (r.req_flush_all \/ n = Num(Flushed))
Unswept(b, s, w, n) ==
    /\ Flushing /\ ~r.req_flush
    /\ IF r.req_flush_all THEN Pos(b, s, w) >= FLUSH_ALL_VALUE - r.flush_cnt ELSE n = Num(Flushed)

\* no address of the workload is refused on this line
Allowed(n) == \A p \in load.pcs : Num(p) = n => n \notin load.refused

\* contents d of line n are not older than its last flush, or a flush of it is under way
Kept(d, n, swept) ==
    /\ AskedOf(d, n)
    /\ IsCode(d, n, fresh[n]) \/ (n \in load.changing /\ (Due(n) \/ swept))

MemInv ==
    /\ \A n \in Lines : mem[n] \in fresh[n] /\ (n \notin load.changing => fresh[n] = {0})
    /\ asked # None => /\ mem[Num(asked.addr)] \in asked.ok.own
                       /\ mem[Nxt(Num(asked.addr))] \in asked.ok.nxt

LineInv ==
    \A b \in {0, 1}, s \in Sets, w \in WayNo, n \in Lines :
        Valid(b, s, w) /\ Place(n, b, s, w) =>
            /\ Allowed(n) /\ n \notin load.faulty
            /\ Kept(Ram(b)[s][w].data, n, Unswept(b, s, w, n))

ArriveInv ==
    /\ r.state \in {"WaitGrant", "WaitResp"} /\ r.cached => Allowed(Num(r.write_addr))
    /\ r.state = "CheckResp" /\ ~Uncacheable =>
          Allowed(Num(r.req_addr)) /\ Kept(r.cache_line_i, Num(r.req_addr), FALSE)
    /\ r.state = "CheckResp" /\ ~r.load_fault /\ ~r.cached =>
          LET n == Num(asked.addr)
              w == asked.addr.word
          IN  /\ \E v \in asked.ok.own : r.cache_line_i[w % 2] = Code(n, w, v)
              /\ IF w + 1 < NWords
                 THEN \E v \in asked.ok.own : r.cache_line_i[(w % 2) + 1] = Code(n, w + 1, v)
                 ELSE \E v \in asked.ok.nxt : r.cache_line_i[(w % 2) + 1] = Code(Nxt(n), 0, v)

Judged == judged \in {"none", "good", "fault"}
DataInv == MemInv /\ LineInv /\ ArriveInv /\ Judged

PathInv == ControlInv /\ DataInv

----------------------------------------------------------------------------
(***************************************************************************)
(* Numbers of ways, sets, lines and addresses.                             *)
(***************************************************************************)
\* Every set of numbers has its first member, and addresses of fetches are addresses.
LEMMA Bounds ==
    /\ Ways \in Nat \ {0} /\ NSets \in Nat \ {0} /\ NTags \in Nat \ {0} /\ NWords \in Nat /\ NWords >= 4
    /\ 0 \in WayNo /\ 0 \in Sets /\ 0 \in Tags /\ 0 \in Words /\ 1 \in Words
    /\ WayNo \subseteq Nat /\ Sets \subseteq Nat /\ Tags \subseteq Nat /\ Words \subseteq Nat
    /\ ZeroAddr \in LineAddrs /\ Flushed \in LineAddrs /\ PcSet \subseteq LineAddrs
    /\ None \notin PcSet
<1>1. /\ Ways \in Nat \ {0} /\ NSets \in Nat \ {0} /\ NTags \in Nat \ {0} /\ NWords \in Nat /\ NWords >= 4
  BY CoupledAssumption, FetchAssumption
<1>2. /\ 0 \in WayNo /\ 0 \in Sets /\ 0 \in Tags /\ 0 \in Words /\ 1 \in Words
      /\ WayNo \subseteq Nat /\ Sets \subseteq Nat /\ Tags \subseteq Nat /\ Words \subseteq Nat
  BY <1>1 DEF WayNo, Sets, Tags, Words
<1>3. ZeroAddr \in LineAddrs /\ Flushed \in LineAddrs /\ PcSet \subseteq LineAddrs
  BY <1>2 DEF ZeroAddr, Flushed, LineAddrs, PcSet, WayNo
<1>4. None \notin PcSet
  BY <1>3, NoneAssumption
<1> QED BY <1>1, <1>2, <1>3, <1>4

\* Division of k * d + s by d.
LEMMA Division ==
    ASSUME NEW d \in Nat \ {0}, NEW k \in Nat, NEW s \in 0 .. d - 1
    PROVE  (k * d + s) \div d = k /\ (k * d + s) % d = s
<1>1. PICK a \in Nat : a = k * d + s
  OBVIOUS
<1>2. PICK q \in Int, m \in 0 .. d - 1 : q = a \div d /\ m = a % d /\ a = d * q + m
  BY <1>1
<1>3. q <= k
  <2> SUFFICES ASSUME q >= k + 1 PROVE FALSE
    OBVIOUS
  <2>1. d * q >= d * (k + 1)
    OBVIOUS
  <2> QED BY <1>1, <1>2, <2>1
<1>4. q >= k
  <2> SUFFICES ASSUME k >= q + 1 PROVE FALSE
    OBVIOUS
  <2>1. d * k >= d * (q + 1)
    OBVIOUS
  <2> QED BY <1>1, <1>2, <2>1
<1>5. q = k
  BY <1>3, <1>4
<1>6. m = s
  BY <1>1, <1>2, <1>5
<1> QED BY <1>1, <1>2, <1>5, <1>6

\* Quotient and remainder by two.
LEMMA Halves ==
    ASSUME NEW k \in Nat, NEW o \in {0, 1}
    PROVE  (k * 2 + o) \div 2 = k /\ (k * 2 + o) % 2 = o
  OBVIOUS

\* The row of the lines of one bank: tag and set.
Row(t, s) == t * NSets + s

\* Rows are numbered without gaps and without repetition.
LEMMA RowFacts ==
    ASSUME NEW t \in Tags, NEW s \in Sets
    PROVE  /\ Row(t, s) \in 0 .. NSets * NTags - 1
           /\ Row(t, s) \div NSets = t /\ Row(t, s) % NSets = s
<1>1. t \in Nat /\ s \in 0 .. NSets - 1 /\ t <= NTags - 1 /\ NSets \in Nat \ {0} /\ NTags \in Nat
  BY Bounds DEF Tags, Sets
<1>2. Row(t, s) \div NSets = t /\ Row(t, s) % NSets = s
  BY <1>1, Division DEF Row
<1>3. t * NSets <= (NTags - 1) * NSets
  BY <1>1
<1>4. (NTags - 1) * NSets = NTags * NSets - NSets
  BY <1>1
<1>5. t * NSets \in Nat /\ NTags * NSets \in Nat /\ NSets * NTags = NTags * NSets
  BY <1>1
<1>6. PICK x \in Nat, y \in Nat : x = t * NSets /\ y = NTags * NSets
  BY <1>5
<1>7. x + s \in 0 .. y - 1
  BY <1>1, <1>3, <1>4, <1>6
<1> QED BY <1>2, <1>5, <1>6, <1>7 DEF Row

\* The row after a row, the first one after the last.
LEMMA RowNext ==
    ASSUME NEW t \in Tags, NEW s \in Sets, NEW m, m = Row(t, s) + 1
    PROVE  /\ m \in 1 .. NSets * NTags
           /\ (m \div NSets) % NTags \in Tags /\ m % NSets \in Sets
           /\ Row((m \div NSets) % NTags, m % NSets) = IF m = NSets * NTags THEN 0 ELSE m
           /\ s < NSets - 1 => m % NSets = s + 1
<1>1. t \in Nat /\ s \in 0 .. NSets - 1 /\ t <= NTags - 1 /\ NSets \in Nat \ {0} /\ NTags \in Nat \ {0}
  BY Bounds DEF Tags, Sets
<1>2. Row(t, s) \in 0 .. NSets * NTags - 1
  BY RowFacts
<1>3. m \in 1 .. NSets * NTags
  <2>1. PICK y \in Nat : y = NSets * NTags
    BY <1>1
  <2> QED BY <1>2, <2>1
<1>4. CASE s < NSets - 1
  <2>1. m = t * NSets + (s + 1) /\ s + 1 \in 0 .. NSets - 1
    <3>1. PICK x \in Nat : x = t * NSets
      BY <1>1
    <3> QED BY <1>1, <1>4, <3>1 DEF Row
  <2>2. m \div NSets = t /\ m % NSets = s + 1
    BY <1>1, <2>1, Division
  <2>3. t % NTags = t
    BY <1>1
  <2>4. s + 1 \in Sets
    BY <2>1 DEF Sets
  <2>5. Row(t, s + 1) = m /\ m # NSets * NTags
    <3>1. Row(t, s + 1) \in 0 .. NSets * NTags - 1 /\ Row(t, s + 1) = m
      BY <2>1, <2>4, RowFacts DEF Row
    <3>2. PICK y \in Nat : y = NSets * NTags
      BY <1>1
    <3> QED BY <3>1, <3>2
  <2> QED BY <1>3, <2>2, <2>3, <2>4, <2>5
<1>5. CASE s = NSets - 1
  <2>1. m = (t + 1) * NSets
    <3>1. (t + 1) * NSets = t * NSets + NSets
      BY <1>1
    <3>2. PICK x \in Nat : x = t * NSets
      BY <1>1
    <3> QED BY <1>1, <1>5, <3>1, <3>2 DEF Row
  <2>2. m = (t + 1) * NSets + 0 /\ 0 \in 0 .. NSets - 1 /\ t + 1 \in Nat
    BY <1>1, <1>3, <2>1
  <2>3. m \div NSets = t + 1 /\ m % NSets = 0
    <3>1. PICK k \in Nat : k = t + 1
      BY <2>2
    <3>2. (k * NSets + 0) \div NSets = k /\ (k * NSets + 0) % NSets = 0
      BY <1>1, <2>2, Division
    <3> QED BY <2>2, <3>1, <3>2
  <2>4. CASE t = NTags - 1
    <3>1. (t + 1) % NTags = 0 /\ m = NSets * NTags
      BY <1>1, <2>1, <2>4
    <3>2. Row(0, 0) = 0
      BY <1>1 DEF Row
    <3> QED BY <1>3, <1>5, <2>3, <3>1, <3>2, Bounds
  <2>5. CASE t # NTags - 1
    <3>1. (t + 1) % NTags = t + 1 /\ t + 1 \in Tags
      BY <1>1, <2>5 DEF Tags
    <3>2. Row(t + 1, 0) = m /\ Row(t + 1, 0) \in 0 .. NSets * NTags - 1
      BY <2>2, <3>1, RowFacts, Bounds DEF Row
    <3>3. m # NSets * NTags
      <4>1. PICK y \in Nat : y = NSets * NTags
        BY <1>1
      <4> QED BY <3>2, <4>1
    <3> QED BY <1>3, <1>5, <2>3, <3>1, <3>2, <3>3, Bounds
  <2> QED BY <2>4, <2>5
<1> QED BY <1>1, <1>4, <1>5

\* Number of a line: parity, row, and the line after it.
LEMMA NumFacts ==
    ASSUME NEW a \in LineAddrs
    PROVE  /\ Num(a) \in Lines /\ Num(a) = Row(a.tag, a.set) * 2 + a.odd
           /\ AddrNext(a) \in LineAddrs /\ Num(AddrNext(a)) = Nxt(Num(a))
           /\ AddrNext(a).odd = 1 - a.odd /\ AddrNext(a).word = a.word /\ AddrNext(a).way = a.way
           /\ a.odd = 0 => AddrNext(a).set = a.set
           /\ a.odd = 1 /\ a.set < NSets - 1 => AddrNext(a).set = a.set + 1
<1>1. PICK t \in Tags, s \in Sets, o \in {0, 1} : t = a.tag /\ s = a.set /\ o = a.odd
  BY DEF LineAddrs
<1>2. PICK k \in Nat : k = Row(t, s)
  BY RowFacts, Bounds
<1>3. PICK y \in Nat : y = NSets * NTags
  BY Bounds
<1>4. k \in 0 .. y - 1 /\ NLines = 2 * y
  <2>1. 2 * NSets * NTags = 2 * (NSets * NTags)
    BY Bounds
  <2> QED BY <1>2, <1>3, <2>1, RowFacts DEF NLines
<1>5. Num(a) = k * 2 + o /\ Num(a) \in Lines
  BY <1>1, <1>2, <1>4 DEF Num, Row, Lines
<1>6. /\ AddrNext(a).odd = (k * 2 + o + 1) % 2
      /\ AddrNext(a).set = ((k * 2 + o + 1) \div 2) % NSets
      /\ AddrNext(a).tag = ((k * 2 + o + 1) \div (2 * NSets)) % NTags
      /\ AddrNext(a).word = a.word /\ AddrNext(a).way = a.way
      /\ AddrNext(a) = [tag |-> AddrNext(a).tag, set |-> AddrNext(a).set, odd |-> AddrNext(a).odd,
                        word |-> a.word, way |-> a.way]
  <2>1. PICK n \in Nat : n = k * 2 + o + 1
    OBVIOUS
  <2>2. (a.tag * NSets + a.set) * 2 + a.odd + 1 = n
    BY <1>1, <1>2, <2>1 DEF Row
  <2>3. AddrNext(a) = [a EXCEPT !.odd = n % 2, !.set = (n \div 2) % NSets,
                                !.tag = (n \div (2 * NSets)) % NTags]
    BY <2>2 DEF AddrNext
  <2> DEFINE x == n % 2
             y1 == (n \div 2) % NSets
             z == (n \div (2 * NSets)) % NTags
  <2>4. AddrNext(a) = [a EXCEPT !.odd = x, !.set = y1, !.tag = z]
    BY <2>3
  <2> HIDE DEF x, y1, z
  <2>5. AddrNext(a) = [tag |-> z, set |-> y1, odd |-> x, word |-> a.word, way |-> a.way]
    BY <2>4 DEF LineAddrs
  <2> QED BY <2>1, <2>5 DEF x, y1, z
<1>7. CASE o = 0
  <2>1. (k * 2 + o + 1) % 2 = 1 /\ (k * 2 + o + 1) \div 2 = k
    BY <1>7
  <2>2. k % NSets = s /\ k \div NSets = t
    BY <1>2, RowFacts
  <2>3. (k * 2 + o + 1) \div (2 * NSets) = t
    <3>1. k * 2 + o + 1 = t * (2 * NSets) + (2 * s + 1)
      <4>1. t * (2 * NSets) = 2 * (t * NSets)
        BY Bounds
      <4>2. PICK x \in Nat : x = t * NSets
        BY Bounds
      <4> QED BY <1>2, <1>7, <4>1, <4>2, Bounds DEF Row
    <3>2. 2 * s + 1 \in 0 .. 2 * NSets - 1 /\ 2 * NSets \in Nat \ {0} /\ t \in Nat
      BY Bounds DEF Sets
    <3>3. PICK d \in Nat \ {0} : d = 2 * NSets
      BY <3>2
    <3>4. PICK e \in 0 .. d - 1 : e = 2 * s + 1
      BY <3>2, <3>3
    <3>5. (t * d + e) \div d = t
      BY <3>2, Division
    <3> QED BY <3>1, <3>3, <3>4, <3>5
  <2>4. t % NTags = t
    BY Bounds DEF Tags
  <2>5. AddrNext(a) = [tag |-> t, set |-> s, odd |-> 1, word |-> a.word, way |-> a.way]
    BY <1>6, <2>1, <2>2, <2>3, <2>4
  <2>6. Num(AddrNext(a)) = k * 2 + 1
    BY <1>2, <2>5 DEF Num, Row
  <2>7. Nxt(Num(a)) = k * 2 + 1
    BY <1>4, <1>5, <1>7 DEF Nxt
  <2> QED BY <1>1, <1>2, <1>5, <1>7, <2>5, <2>6, <2>7 DEF LineAddrs
<1>8. CASE o = 1
  <2>1. PICK m \in Nat : m = k + 1
    OBVIOUS
  <2>2. k * 2 + o + 1 = m * 2 /\ (m * 2) % 2 = 0 /\ (m * 2) \div 2 = m
    BY <1>8, <2>1
  <2>3. /\ m \in 1 .. y /\ (m \div NSets) % NTags \in Tags /\ m % NSets \in Sets
        /\ Row((m \div NSets) % NTags, m % NSets) = IF m = y THEN 0 ELSE m
        /\ s < NSets - 1 => m % NSets = s + 1
    BY <1>2, <1>3, <2>1, RowNext
  <2>4. (m * 2) \div (2 * NSets) = m \div NSets
    <3>1. PICK q \in Nat, z \in 0 .. NSets - 1 : m = q * NSets + z /\ q = m \div NSets
      <4>1. m \div NSets \in Nat /\ m % NSets \in 0 .. NSets - 1
            /\ m = NSets * (m \div NSets) + (m % NSets)
        BY Bounds
      <4>2. PICK q \in Nat, z \in 0 .. NSets - 1 : q = m \div NSets /\ z = m % NSets /\ m = NSets * q + z
        BY <4>1
      <4>3. NSets * q = q * NSets
        BY Bounds
      <4> QED BY <4>2, <4>3
    <3>2. m * 2 = q * (2 * NSets) + 2 * z
      <4>1. q * (2 * NSets) = 2 * (q * NSets)
        BY Bounds
      <4>2. PICK x \in Nat : x = q * NSets
        BY Bounds
      <4> QED BY <3>1, <4>1, <4>2
    <3>3. PICK d \in Nat \ {0} : d = 2 * NSets
      BY Bounds
    <3>4. PICK e \in 0 .. d - 1 : e = 2 * z
      BY <3>3, Bounds
    <3>5. (q * d + e) \div d = q
      BY Division
    <3> QED BY <3>1, <3>2, <3>3, <3>4, <3>5
  <2>5. PICK t1 \in Tags, s1 \in Sets : t1 = (m \div NSets) % NTags /\ s1 = m % NSets
    BY <2>3
  <2>6. AddrNext(a) = [tag |-> t1, set |-> s1, odd |-> 0, word |-> a.word, way |-> a.way]
    BY <1>6, <2>2, <2>4, <2>5
  <2>7. Row(t1, s1) = IF m = y THEN 0 ELSE m
    BY <2>3, <2>5
  <2>8. Num(AddrNext(a)) = IF m = y THEN 0 ELSE m * 2
    BY <2>6, <2>7 DEF Num, Row
  <2>9. Nxt(Num(a)) = IF m = y THEN 0 ELSE m * 2
    <3>1. Nxt(Num(a)) = (m * 2) % (2 * y)
      BY <1>4, <1>5, <1>8, <2>2 DEF Nxt
    <3>2. m = y => (m * 2) % (2 * y) = 0
      BY <2>3
    <3>3. m # y => (m * 2) % (2 * y) = m * 2
      <4>1. m # y => m * 2 < 2 * y
        BY <2>3
      <4> QED BY <2>3, <4>1
    <3> QED BY <3>1, <3>2, <3>3
  <2> QED BY <1>1, <1>2, <1>5, <1>8, <2>3, <2>5, <2>6, <2>8, <2>9 DEF LineAddrs
<1> QED BY <1>7, <1>8

\* Lines with the same number have the same tag, set and bank.
LEMMA NumInjective ==
    ASSUME NEW a \in LineAddrs, NEW b \in LineAddrs, Num(a) = Num(b)
    PROVE  a.tag = b.tag /\ a.set = b.set /\ a.odd = b.odd
<1>1. PICK j \in Nat, k \in Nat : j = Row(a.tag, a.set) /\ k = Row(b.tag, b.set)
  <2>1. \A t \in Tags, s \in Sets : Row(t, s) \in Nat
    BY Bounds DEF Row
  <2> QED BY <2>1 DEF LineAddrs
<1>2. PICK o \in {0, 1}, p \in {0, 1} : o = a.odd /\ p = b.odd
  BY DEF LineAddrs
<1>3. j * 2 + o = k * 2 + p
  BY <1>1, <1>2, NumFacts
<1>4. o = p /\ j = k
  BY <1>3
<1>5. a.tag = j \div NSets /\ a.set = j % NSets
  BY <1>1, RowFacts DEF LineAddrs
<1>6. b.tag = k \div NSets /\ b.set = k % NSets
  BY <1>1, RowFacts DEF LineAddrs
<1> QED BY <1>2, <1>4, <1>5, <1>6

\* Lines follow each other in a circle of two or more.
LEMMA NxtFacts ==
    ASSUME NEW n \in Lines
    PROVE  Nxt(n) \in Lines /\ Nxt(n) # n
<1>1. PICK y \in Nat : y = NLines /\ y >= 2
  <2>1. NSets * NTags \in Nat \ {0}
    BY Bounds
  <2>2. 2 * NSets * NTags = 2 * (NSets * NTags)
    BY Bounds
  <2> QED BY <2>1, <2>2 DEF NLines
<1> QED BY <1>1 DEF Nxt, Lines

\* The first word of the line, and of the double word, of an address.
LEMMA LineOfFacts ==
    ASSUME NEW a \in LineAddrs
    PROVE  /\ LineOf(a) \in LineAddrs /\ DWordOf(a) \in LineAddrs
           /\ Num(LineOf(a)) = Num(a) /\ Num(DWordOf(a)) = Num(a)
           /\ LineOf(a) = [tag |-> a.tag, set |-> a.set, odd |-> a.odd, word |-> 0, way |-> 0]
           /\ DWordOf(a).word + (a.word % 2) = a.word /\ a.word % 2 \in {0, 1}
<1>1. /\ LineOf(a) = [tag |-> a.tag, set |-> a.set, odd |-> a.odd, word |-> 0, way |-> 0]
      /\ DWordOf(a) = [tag |-> a.tag, set |-> a.set, odd |-> a.odd, word |-> (a.word \div 2) * 2, way |-> 0]
  <2> DEFINE u == (a.word \div 2) * 2
  <2>1. DWordOf(a) = [a EXCEPT !.word = u, !.way = 0]
    BY DEF DWordOf, LineAddrs
  <2> HIDE DEF u
  <2>2. DWordOf(a) = [tag |-> a.tag, set |-> a.set, odd |-> a.odd, word |-> u, way |-> 0]
    BY <2>1 DEF LineAddrs
  <2>3. LineOf(a) = [tag |-> a.tag, set |-> a.set, odd |-> a.odd, word |-> 0, way |-> 0]
    <3>1. PICK z : z = 0
      OBVIOUS
    <3>2. LineOf(a) = [a EXCEPT !.word = z, !.way = 0]
      BY <3>1 DEF LineOf
    <3>3. LineOf(a) = [tag |-> a.tag, set |-> a.set, odd |-> a.odd, word |-> z, way |-> 0]
      BY <3>2 DEF LineAddrs
    <3> QED BY <3>1, <3>3
  <2> QED BY <2>2, <2>3 DEF u
<1>2. PICK w \in Words : w = a.word
  BY DEF LineAddrs
<1>3. (w \div 2) * 2 + (w % 2) = w /\ w % 2 \in {0, 1} /\ (w \div 2) * 2 \in Words
  BY <1>2, Bounds DEF Words
<1> QED BY <1>1, <1>2, <1>3, Bounds DEF LineAddrs, Num

----------------------------------------------------------------------------
(***************************************************************************)
(* One bank (tagmemnway.h), written over its memory m, its replacement     *)
(* table l and its registers d, since both banks are the same.             *)
(***************************************************************************)
EntryFlags == {"VALID", "DIRTY", "SHARED", "RESERVED"}
Entries == [tag : Tags, flags : SUBSET EntryFlags, data : Contents]
BankAddrs == [tag : Tags, set : Sets, word : Words, way : WayNo]
BankRegs == [addr : BankAddrs, direct : BOOLEAN, invalidate : BOOLEAN, re : BOOLEAN, snoop : BankAddrs]
Memories == [Sets -> [WayNo -> Entries]]
Tables == [Sets -> [WayNo -> WayNo]]
Controls == [direct : BOOLEAN, invalidate : BOOLEAN, re : BOOLEAN, we : BOOLEAN, addr : BankAddrs,
             snoop : BankAddrs, wdata : Contents, wstrb : SUBSET Words, wflags : SUBSET EntryFlags]

HitAt(m, d, w) == m[d.addr.set][w].tag = d.addr.tag /\ "VALID" \in m[d.addr.set][w].flags
Single(m) == \A s \in Sets, v, w \in WayNo :
                "VALID" \in m[s][v].flags /\ "VALID" \in m[s][w].flags /\ m[s][v].tag = m[s][w].tag
                   => v = w

\* the way selected
Selected(m, l, d) ==
    IF d.direct THEN d.addr.way
    ELSE IF \E w \in WayNo : HitAt(m, d, w)
         THEN CHOOSE w \in WayNo : HitAt(m, d, w) /\ \A x \in WayNo : HitAt(m, d, x) => x <= w
         ELSE l[d.addr.set][0]
SelHit(m, l, d) == HitAt(m, d, Selected(m, l, d))

\* Selected is the hitting way under an access by tag
LEMMA SelectedFacts ==
    ASSUME NEW m \in Memories, NEW l \in Tables, NEW d \in BankRegs, Single(m)
    PROVE  /\ Selected(m, l, d) \in WayNo /\ d.addr.set \in Sets
           /\ d.direct => Selected(m, l, d) = d.addr.way
           /\ ~d.direct => \A w \in WayNo : HitAt(m, d, w) => w = Selected(m, l, d)
           /\ ~d.direct => (SelHit(m, l, d) <=> \E w \in WayNo : HitAt(m, d, w))
<1> DEFINE h == Selected(m, l, d)
<1>1. d.addr.set \in Sets /\ d.addr.way \in WayNo /\ l[d.addr.set][0] \in WayNo
  BY Bounds DEF BankRegs, BankAddrs, Tables
<1>2. ASSUME ~d.direct, NEW u \in WayNo, HitAt(m, d, u) PROVE h = u
  <2>1. \A x \in WayNo : HitAt(m, d, x) => x = u
    BY <1>1, <1>2 DEF Single, HitAt
  <2>2. u <= u
    BY Bounds
  <2>3. h = CHOOSE w \in WayNo : HitAt(m, d, w) /\ \A x \in WayNo : HitAt(m, d, x) => x <= w
    BY <1>2 DEF Selected
  <2> QED BY <1>2, <2>1, <2>2, <2>3
<1>3. h \in WayNo /\ (d.direct => h = d.addr.way)
  BY <1>1, <1>2 DEF Selected
<1>4. ~d.direct => \A w \in WayNo : HitAt(m, d, w) => w = h
  BY <1>2
<1> QED BY <1>1, <1>3, <1>4 DEF SelHit

\* A row of the replacement table stays a row (lrunway.h).
LEMMA RowTypes ==
    ASSUME NEW row \in [WayNo -> WayNo], NEW w \in WayNo
    PROVE  Even!Lru0!RowUp(row, w) \in [WayNo -> WayNo] /\ Even!Lru0!RowDown(row, w) \in [WayNo -> WayNo]
           /\ Even!Lru0!RowInit \in [WayNo -> WayNo]
<1>1. Even!Lru0!RowUp(row, w) \in [WayNo -> WayNo]
  BY Bounds, SMTT(60) DEF Even!Lru0!RowUp, Even!Lru0!Way, WayNo
<1>2. Even!Lru0!RowDown(row, w) \in [WayNo -> WayNo]
  BY Bounds, SMTT(60) DEF Even!Lru0!RowDown, Even!Lru0!Way, WayNo
<1>3. Even!Lru0!RowInit \in [WayNo -> WayNo]
  BY DEF Even!Lru0!RowInit, Even!Lru0!Way, WayNo
<1> QED BY <1>1, <1>2, <1>3

\* Both banks have the same replacement table.
LEMMA OddRow ==
    ASSUME NEW row, NEW w
    PROVE  /\ Odd!Lru0!RowUp(row, w) = Even!Lru0!RowUp(row, w)
           /\ Odd!Lru0!RowDown(row, w) = Even!Lru0!RowDown(row, w)
           /\ Odd!Lru0!RowInit = Even!Lru0!RowInit
  BY DEF Odd!Lru0!RowUp, Even!Lru0!RowUp, Odd!Lru0!RowDown, Even!Lru0!RowDown, Odd!Lru0!RowInit,
         Even!Lru0!RowInit, Odd!Lru0!Way, Even!Lru0!Way

\* what a clock with the line controls c does to memory and table
Writes(m, l, d, c) == (c.we \/ (d.invalidate /\ SelHit(m, l, d))) /\ (d.invalidate \/ c.wstrb # {})
WrittenEntry(m, l, d, c) ==
    LET strb == IF d.invalidate THEN Words ELSE c.wstrb
    IN  [tag   |-> c.addr.tag,
         flags |-> IF d.invalidate THEN {} ELSE c.wflags,
         data  |-> [w \in Words |-> IF w \in strb THEN c.wdata[w]
                                    ELSE m[c.addr.set][Selected(m, l, d)].data[w]]]
MemClock(m, l, d, c, m2) ==
    m2 = IF Writes(m, l, d, c)
         THEN [m EXCEPT ![c.addr.set][Selected(m, l, d)] = WrittenEntry(m, l, d, c)] ELSE m
TableClock(l, d, l2) ==
    l2 = l \/ \E row \in [WayNo -> WayNo] : l2 = [l EXCEPT ![d.addr.set] = row]
RegsClock(c, d2) ==
    d2 = [addr |-> c.addr, direct |-> c.direct, invalidate |-> c.invalidate,
          re |-> c.re, snoop |-> c.snoop]

\* no line appears
Emptied(m, m2) == \A s \in Sets, w \in WayNo : m2[s][w] = m[s][w] \/ m2[s][w].flags = {}
\* one entry is written
Filled(m, c, m2) ==
    \E h \in WayNo : \A s \in Sets, w \in WayNo :
        m2[s][w] = IF s = c.addr.set /\ w = h
                   THEN [tag |-> c.addr.tag, flags |-> c.wflags, data |-> c.wdata] ELSE m[s][w]

BankEffect(m, d, c, m2, d2) ==
    /\ d2.addr = c.addr /\ (d2.direct <=> c.direct) /\ (d2.invalidate <=> c.invalidate)
    /\ ~d.invalidate /\ (~c.we \/ c.wstrb = {}) => m2 = m
    /\ d.invalidate => /\ Emptied(m, m2)
                       /\ d.direct /\ c.we => m2[c.addr.set][d.addr.way].flags = {}
                       /\ ~d.direct => \A w \in WayNo : HitAt(m, d, w) => m2[c.addr.set][w].flags = {}
    /\ ~d.invalidate /\ c.we /\ c.wstrb = Words => Filled(m, c, m2)

\* One clock of a bank, reduced to what the proofs use of it.
LEMMA BankClock ==
    ASSUME NEW m \in Memories, NEW l \in Tables, NEW d \in BankRegs, Single(m), NEW c \in Controls,
           NEW m2, NEW l2, NEW d2,
           MemClock(m, l, d, c, m2), TableClock(l, d, l2), RegsClock(c, d2)
    PROVE  /\ m2 \in Memories /\ l2 \in Tables /\ d2 \in BankRegs
           /\ BankEffect(m, d, c, m2, d2)
<1> DEFINE h == Selected(m, l, d)
           e == WrittenEntry(m, l, d, c)
<1>0. h \in WayNo /\ d.addr.set \in Sets
  BY SelectedFacts
<1>1. c.addr.set \in Sets /\ c.addr.tag \in Tags /\ c.we \in BOOLEAN /\ c.invalidate \in BOOLEAN
      /\ c.direct \in BOOLEAN /\ c.wdata \in Contents /\ c.wflags \in SUBSET EntryFlags
      /\ d.invalidate \in BOOLEAN /\ d.direct \in BOOLEAN /\ c.wstrb \in SUBSET Words
  BY DEF Controls, BankAddrs, BankRegs
<1>2. e.data \in Contents /\ e = [tag |-> e.tag, flags |-> e.flags, data |-> e.data]
  <2>1. \A w \in Words : c.wdata[w] \in Values /\ m[c.addr.set][h].data[w] \in Values
    BY <1>0, <1>1 DEF Memories, Entries, Contents
  <2> QED BY <2>1 DEF WrittenEntry, Contents
<1>3. e \in Entries
  BY <1>1, <1>2 DEF WrittenEntry, Entries
<1>4. m2 \in Memories
  BY <1>0, <1>1, <1>3 DEF MemClock, Memories
<1>5. l2 \in Tables
  BY <1>0 DEF TableClock, Tables
<1>6. d2 \in BankRegs /\ d2.addr = c.addr /\ (d2.direct <=> c.direct) /\ (d2.invalidate <=> c.invalidate)
  BY DEF RegsClock, BankRegs, Controls
<1>7. ~d.invalidate /\ (~c.we \/ c.wstrb = {}) => m2 = m
  BY DEF MemClock, Writes
<1>8. Writes(m, l, d, c) => \A s \in Sets, w \in WayNo :
                              m2[s][w] = IF s = c.addr.set /\ w = h THEN e ELSE m[s][w]
  BY <1>0, <1>1 DEF MemClock, Memories
<1>9. ~Writes(m, l, d, c) => m2 = m
  BY DEF MemClock
<1>10. ASSUME d.invalidate
       PROVE  /\ Emptied(m, m2)
              /\ d.direct /\ c.we => m2[c.addr.set][d.addr.way].flags = {}
              /\ ~d.direct => \A w \in WayNo : HitAt(m, d, w) => m2[c.addr.set][w].flags = {}
  <2>1. e.flags = {}
    BY <1>10 DEF WrittenEntry
  <2>2. Emptied(m, m2)
    BY <1>8, <1>9, <2>1 DEF Emptied
  <2>3. d.direct /\ c.we => m2[c.addr.set][d.addr.way].flags = {}
    BY <1>0, <1>1, <1>8, <1>10, <2>1, SelectedFacts DEF Writes
  <2>4. ~d.direct => \A w \in WayNo : HitAt(m, d, w) => m2[c.addr.set][w].flags = {}
    BY <1>0, <1>1, <1>8, <1>10, <2>1, SelectedFacts DEF Writes
  <2> QED BY <2>2, <2>3, <2>4
<1>11. ASSUME ~d.invalidate, c.we, c.wstrb = Words PROVE Filled(m, c, m2)
  <2>1. Words # {}
    BY Bounds
  <2>2. Writes(m, l, d, c)
    BY <1>11, <2>1 DEF Writes
  <2>3. e = [tag |-> c.addr.tag, flags |-> c.wflags, data |-> c.wdata]
    <3>1. [w \in Words |-> IF w \in Words THEN c.wdata[w] ELSE m[c.addr.set][Selected(m, l, d)].data[w]]
             = c.wdata
      BY <1>1 DEF Contents
    <3> QED BY <1>11, <3>1 DEF WrittenEntry
  <2> QED BY <1>0, <1>8, <2>2, <2>3 DEF Filled
<1> QED BY <1>4, <1>5, <1>6, <1>7, <1>10, <1>11 DEF BankEffect

\* The types of the two banks.
LEMMA BankTypes ==
    /\ Even!TagTypeOK <=> ram0 \in Memories /\ lru0 \in Tables /\ rd0 \in BankRegs
    /\ Odd!TagTypeOK <=> ram1 \in Memories /\ lru1 \in Tables /\ rd1 \in BankRegs
  BY DEF Even!TagTypeOK, Odd!TagTypeOK, Memories, Tables, BankRegs, Entries, Contents, EntryFlags, BankAddrs,
         WayNo, Sets, Even!ReadRegisters, Odd!ReadRegisters, Even!Entry, Odd!Entry, Even!Addr, Odd!Addr,
         Even!Sets, Odd!Sets, Even!Way, Odd!Way, Even!Flags, Odd!Flags, Even!Line, Odd!Line

\* The lookups of the two banks.
LEMMA Lookups ==
    /\ Even!HitIdx = Selected(ram0, lru0, rd0) /\ (Even!Hit <=> SelHit(ram0, lru0, rd0))
    /\ Odd!HitIdx = Selected(ram1, lru1, rd1) /\ (Odd!Hit <=> SelHit(ram1, lru1, rd1))
<1>1. Even!HitIdx = Selected(ram0, lru0, rd0)
  BY DEF Even!HitIdx, Selected, HitAt, Even!WayHit, Even!Way, WayNo, Even!Lru0!Lru
<1>2. Odd!HitIdx = Selected(ram1, lru1, rd1)
  BY DEF Odd!HitIdx, Selected, HitAt, Odd!WayHit, Odd!Way, WayNo, Odd!Lru0!Lru
<1> QED BY <1>1, <1>2 DEF Even!Hit, Odd!Hit, SelHit, HitAt, Even!WayHit, Odd!WayHit

----------------------------------------------------------------------------
(***************************************************************************)
(* Both banks (tagmemcoupled.h).                                           *)
(***************************************************************************)
LineControls ==
    [direct : BOOLEAN, invalidate : BOOLEAN, re : BOOLEAN, we : BOOLEAN, addr : LineAddrs,
     wdata : Contents, wstrb : SUBSET Words, wflags : SUBSET EntryFlags]

\* The inputs of a bank.
LEMMA BankControls ==
    ASSUME NEW c \in LineControls, NEW b \in {0, 1}
    PROVE  /\ Bank(c, b) \in Controls
           /\ Bank(c, b).addr = BankAddr(InBank(c.addr, b))
           /\ BankAddr(InBank(c.addr, b)) \in BankAddrs
           /\ InBank(c.addr, b) \in LineAddrs /\ InBank(c.addr, b).odd = b
           /\ Bank(c, b).wflags = c.wflags /\ Bank(c, b).wdata = c.wdata
<1>1. InBank(c.addr, b) \in LineAddrs /\ InBank(c.addr, b).odd = b
  <2>1. c.addr \in LineAddrs /\ c.addr.odd \in {0, 1}
    BY DEF LineControls, LineAddrs
  <2> QED BY <2>1, NumFacts DEF InBank
<1>2. \A a \in LineAddrs : BankAddr(a) \in BankAddrs
  BY DEF BankAddr, BankAddrs, LineAddrs, WayNo
<1>3. Bank(c, b).addr = BankAddr(InBank(c.addr, b))
  BY DEF Bank, InBank
<1>4. Bank(c, b) \in Controls
  <2> DEFINE a == BankAddr(InBank(c.addr, b))
             s == BankAddr(ZeroAddr)
             on == c.addr.odd = b \/ Overlay(c.addr)
             st == IF c.addr.odd = b THEN c.wstrb ELSE {}
  <2>1. a \in BankAddrs /\ s \in BankAddrs /\ on \in BOOLEAN /\ st \in SUBSET Words
    BY <1>1, <1>2, Bounds DEF LineControls, Overlay
  <2>2. Bank(c, b) = [direct |-> c.direct /\ on, invalidate |-> c.invalidate /\ on,
         re |-> c.re /\ on, we |-> c.we /\ on, addr |-> a,
         snoop |-> s, wdata |-> c.wdata, wstrb |-> st, wflags |-> c.wflags]
    BY DEF Bank, InBank
  <2> HIDE DEF a, s, on, st
  <2> QED BY <2>1, <2>2 DEF Controls, LineControls
<1> QED BY <1>1, <1>2, <1>3, <1>4 DEF Bank

\* One clock of both banks.
LEMMA BanksClock ==
    ASSUME LineTypeOK, NoAlias, NEW c \in LineControls, LineClock(c)
    PROVE  /\ LineTypeOK' /\ radr' = c.addr
           /\ \A b \in {0, 1} : BankEffect(Ram(b), Rd(b), Bank(c, b), Ram(b)', Rd(b)')
<1>1. /\ ram0 \in Memories /\ lru0 \in Tables /\ rd0 \in BankRegs
      /\ ram1 \in Memories /\ lru1 \in Tables /\ rd1 \in BankRegs
  BY BankTypes DEF LineTypeOK
<1>2. Single(ram0) /\ Single(ram1)
  <2>1. \A b \in {0, 1} : Single(Ram(b))
    BY DEF NoAlias, Valid, Single
  <2> QED BY <2>1 DEF Ram
<1>3. Bank(c, 0) \in Controls /\ Bank(c, 1) \in Controls
  BY BankControls
<1>4. \A l \in Tables, d \in BankRegs, w \in WayNo :
         /\ Even!Lru0!RowUp(l[d.addr.set], w) \in [WayNo -> WayNo]
         /\ Even!Lru0!RowDown(l[d.addr.set], w) \in [WayNo -> WayNo]
         /\ Even!Lru0!RowInit \in [WayNo -> WayNo]
         /\ Odd!Lru0!RowUp(l[d.addr.set], w) \in [WayNo -> WayNo]
         /\ Odd!Lru0!RowDown(l[d.addr.set], w) \in [WayNo -> WayNo]
         /\ Odd!Lru0!RowInit \in [WayNo -> WayNo]
  <2> SUFFICES ASSUME NEW l \in Tables, NEW d \in BankRegs, NEW w \in WayNo
               PROVE  /\ Even!Lru0!RowUp(l[d.addr.set], w) \in [WayNo -> WayNo]
                      /\ Even!Lru0!RowDown(l[d.addr.set], w) \in [WayNo -> WayNo]
                      /\ Even!Lru0!RowInit \in [WayNo -> WayNo]
                      /\ Odd!Lru0!RowUp(l[d.addr.set], w) \in [WayNo -> WayNo]
                      /\ Odd!Lru0!RowDown(l[d.addr.set], w) \in [WayNo -> WayNo]
                      /\ Odd!Lru0!RowInit \in [WayNo -> WayNo]
    OBVIOUS
  <2>1. l[d.addr.set] \in [WayNo -> WayNo]
    BY DEF Tables, BankRegs, BankAddrs
  <2> QED BY <2>1, RowTypes, OddRow
<1>5. ram0' \in Memories /\ lru0' \in Tables /\ rd0' \in BankRegs
      /\ BankEffect(ram0, rd0, Bank(c, 0), ram0', rd0')
  <2>1. Even!TagClock(Bank(c, 0))
    BY DEF LineClock
  <2>2. MemClock(ram0, lru0, rd0, Bank(c, 0), ram0')
    BY <2>1, Lookups DEF Even!TagClock, Even!WayWe, Even!Written, MemClock, Writes, WrittenEntry
  <2>3. RegsClock(Bank(c, 0), rd0')
    BY <2>1 DEF Even!TagClock, RegsClock
  <2>4. TableClock(lru0, rd0, lru0')
    <3>1. Selected(ram0, lru0, rd0) \in WayNo
      BY <1>1, <1>2, SelectedFacts
    <3>2. /\ Even!Lru0!RowUp(lru0[rd0.addr.set], Selected(ram0, lru0, rd0)) \in [WayNo -> WayNo]
          /\ Even!Lru0!RowDown(lru0[rd0.addr.set], Selected(ram0, lru0, rd0)) \in [WayNo -> WayNo]
          /\ Even!Lru0!RowInit \in [WayNo -> WayNo]
      BY <1>1, <1>4, <3>1
    <3> QED BY <2>1, <3>2, Lookups DEF Even!TagClock, Even!Lru0!TableClock, TableClock
  <2> QED BY <1>1, <1>2, <1>3, <2>2, <2>3, <2>4, BankClock
<1>6. ram1' \in Memories /\ lru1' \in Tables /\ rd1' \in BankRegs
      /\ BankEffect(ram1, rd1, Bank(c, 1), ram1', rd1')
  <2>1. Odd!TagClock(Bank(c, 1))
    BY DEF LineClock
  <2>2. MemClock(ram1, lru1, rd1, Bank(c, 1), ram1')
    BY <2>1, Lookups DEF Odd!TagClock, Odd!WayWe, Odd!Written, MemClock, Writes, WrittenEntry
  <2>3. RegsClock(Bank(c, 1), rd1')
    BY <2>1 DEF Odd!TagClock, RegsClock
  <2>4. TableClock(lru1, rd1, lru1')
    <3>1. Selected(ram1, lru1, rd1) \in WayNo
      BY <1>1, <1>2, SelectedFacts
    <3>2. /\ Odd!Lru0!RowUp(lru1[rd1.addr.set], Selected(ram1, lru1, rd1)) \in [WayNo -> WayNo]
          /\ Odd!Lru0!RowDown(lru1[rd1.addr.set], Selected(ram1, lru1, rd1)) \in [WayNo -> WayNo]
          /\ Odd!Lru0!RowInit \in [WayNo -> WayNo]
      BY <1>1, <1>4, <3>1
    <3> QED BY <2>1, <3>2, Lookups DEF Odd!TagClock, Odd!Lru0!TableClock, TableClock
  <2> QED BY <1>1, <1>2, <1>3, <2>2, <2>3, <2>4, BankClock
<1>7. LineTypeOK'
  <2>1. radr' \in LineAddrs
    BY DEF LineClock, LineControls
  <2>2. (/\ Even!TagTypeOK <=> ram0 \in Memories /\ lru0 \in Tables /\ rd0 \in BankRegs
         /\ Odd!TagTypeOK <=> ram1 \in Memories /\ lru1 \in Tables /\ rd1 \in BankRegs)'
    BY BankTypes, PTL
  <2> QED BY <1>5, <1>6, <2>1, <2>2 DEF LineTypeOK
<1> QED BY <1>5, <1>6, <1>7 DEF LineClock, Ram, Rd

\* What the banks show of an address, as the cache reads it.
LEMMA ShownFacts ==
    ASSUME LineTypeOK, NoAlias, NEW a \in LineAddrs, Looked(a)
    PROVE  /\ LineHit <=> OwnHit
           /\ HitNext <=> IF Overlay(a) THEN OtherHit ELSE OwnHit
           /\ \A b \in {0, 1} : Rd(b).addr.set = InBank(a, b).set /\ Rd(b).addr.tag = InBank(a, b).tag
                                /\ InBank(a, b) \in LineAddrs /\ InBank(a, b).odd = b
<1>1. /\ ram0 \in Memories /\ lru0 \in Tables /\ rd0 \in BankRegs
      /\ ram1 \in Memories /\ lru1 \in Tables /\ rd1 \in BankRegs
  BY BankTypes DEF LineTypeOK
<1>2. Single(ram0) /\ Single(ram1)
  <2>1. \A b \in {0, 1} : Single(Ram(b))
    BY DEF NoAlias, Valid, Single
  <2> QED BY <2>1 DEF Ram
<1>3. ~rd0.direct /\ ~rd1.direct /\ radr = a /\ a.odd \in {0, 1}
  BY DEF Looked, Rd, LineAddrs
<1>4. Even!Hit <=> HitIn(0)
  BY <1>1, <1>2, <1>3, Lookups, SelectedFacts DEF HitIn, HitAt, Ram, Rd, Valid
<1>5. Odd!Hit <=> HitIn(1)
  BY <1>1, <1>2, <1>3, Lookups, SelectedFacts DEF HitIn, HitAt, Ram, Rd, Valid
<1>6. \A b \in {0, 1} : Rd(b).addr.set = InBank(a, b).set /\ Rd(b).addr.tag = InBank(a, b).tag
  BY DEF Looked, BankAddr
<1>7. \A b \in {0, 1} : InBank(a, b) \in LineAddrs /\ InBank(a, b).odd = b
  BY <1>3, NumFacts DEF InBank
<1>8. LineHit <=> OwnHit
  BY <1>3, <1>4, <1>5 DEF LineHit, OwnHit
<1>9. HitNext <=> IF Overlay(a) THEN OtherHit ELSE OwnHit
  BY <1>3, <1>4, <1>5, <1>8 DEF HitNext, OtherHit
<1> QED BY <1>6, <1>7, <1>8, <1>9

----------------------------------------------------------------------------
(***************************************************************************)
(* One clock of the path, taken apart.                                     *)
(***************************************************************************)
Do(e) == e \in Env /\ Clock(e)

\* inputs of the cache and of the fetch stage
In(e) == [req |-> IF f.req_valid THEN f.req_addr ELSE None,
          resp_ready |-> f.resp_ready,
          flush |-> IF fence \in {"flushi", "line"}
                    THEN [all |-> fence = "flushi", addr |-> Flushed] ELSE None,
          pmp_x |-> Num(r.req_addr) \notin load.refused,
          cached |-> Num(r.req_addr) \notin load.uncached,
          mem_ready |-> e.ready,
          mem |-> IF e.answer THEN Answer ELSE None]
Rsp == Resp([resp_ready |-> f.resp_ready])
Ready == ReqReady([resp_ready |-> f.resp_ready])
Fin(e) == [bp_pc |-> e.bp_pc, progbuf_ena |-> halted, flush |-> fence = "end",
           ready |-> Ready, mem |-> Rsp]

\* the state machine looks for work; it takes a fetch; a fence reaches the cache
Taking == r.state = "Idle" \/ (r.state = "CheckHit" /\ BothHit /\ f.resp_ready)
Taken == Taking /\ ~r.req_flush /\ f.req_valid
Ended == Rsp # None /\ f.resp_ready
Pulse == fence \in {"flushi", "line"}
\* the fence is about line n
Fenced(n) == fence = "flushi" \/ (fence = "line" /\ n = Num(Flushed))
NextMem(e) == [mem EXCEPT ![IF e.change = None THEN 0 ELSE e.change] =
                  IF e.change = None THEN @ ELSE changes + 1]
Grown(e) == [n \in Lines |-> fresh[n] \cup {NextMem(e)[n]}]

\* What every register of the path becomes.
LEMMA ClockIs ==
    ASSUME NEW e, Do(e)
    PROVE  /\ r' = Registered(In(e)) /\ LineClock(LineInputs(In(e), OnBus))
           /\ f' = FetchNext(Fin(e))
           /\ mem' = NextMem(e) /\ changes' = (IF e.change = None THEN changes ELSE changes + 1)
           /\ bus' = IF r.req_mem_valid /\ e.ready THEN [addr |-> r.mem_addr]
                     ELSE IF e.answer THEN None ELSE bus
           /\ fresh' = [n \in Lines |-> IF Fenced(n) THEN {NextMem(e)[n]} ELSE Grown(e)[n]]
           /\ asked' = IF Taken
                       THEN [addr |-> f.req_addr,
                             ok |-> [own |-> Grown(e)[Num(f.req_addr)],
                                     nxt |-> Grown(e)[Nxt(Num(f.req_addr))]]]
                       ELSE IF Ended \/ asked = None THEN None
                       ELSE [asked EXCEPT
                               !.ok.own = @ \cup {NextMem(e)[Num(asked.addr)]},
                               !.ok.nxt = @ \cup {NextMem(e)[Nxt(Num(asked.addr))]}]
           /\ judged' = IF ~Ended THEN "none"
                        ELSE IF asked = None THEN "unasked"
                        ELSE IF f.state # "WaitResp" THEN "lost" ELSE Judge(Rsp)
           /\ heard' = ((heard \/ Ended) /\ fence = "none" /\ e.fence = None)
           /\ fence' = IF Pulse THEN "end"
                       ELSE IF e.fence = "pipe" THEN "end"
                       ELSE IF e.fence = "all" THEN "flushi"
                       ELSE IF e.fence = "line" THEN "line" ELSE "none"
           /\ halted' = (IF f.progbuf_ena THEN e.halt ELSE halted \/ e.halt)
           /\ load' = load
<1>1. Resp(In(e)) = Rsp
  BY DEF Resp, Rsp
<1>2. ReqReady(In(e)) <=> Ready
  BY DEF ReqReady, Ready, ReadyNext, In
<1>3. ReqReady(In(e)) /\ f.req_valid <=> Taken
  BY DEF ReqReady, Taken, Taking, ReadyNext, In
<1>4. ReqReady(In(e)) = Ready
  BY <1>2 DEF ReqReady, Ready
<1> QED
  BY <1>1, <1>3, <1>4 DEF Do, Clock, In, Fin, Ended, Pulse, Fenced, NextMem, Grown, IClock

\* What the environment may do.
LEMMA EnvFacts ==
    ASSUME NEW e, Do(e), Types
    PROVE  /\ e.change = None \/ (e.change \in load.changing /\ changes < MaxChanges)
           /\ e.answer \in BOOLEAN /\ (e.answer => bus # None /\ r.state = "WaitResp")
           /\ e.ready \in BOOLEAN /\ (e.ready => r.req_mem_valid /\ bus = None)
           /\ e.fence = None \/ (heard /\ fence = "none" /\ e.fence \in load.fences)
           /\ e.halt \in BOOLEAN
           /\ f.state # "WaitResp" \/ Rsp # None => e.bp_pc \in load.pcs
<1> DEFINE P == IF LatchesPc THEN load.pcs ELSE {CHOOSE p \in load.pcs : TRUE}
<1> HIDE DEF P
<1>1. e \in [change : {None} \cup IF changes < MaxChanges THEN load.changing ELSE {},
             answer : IF bus # None /\ r.state = "WaitResp" THEN BOOLEAN ELSE {FALSE},
             ready : IF r.req_mem_valid /\ bus = None THEN BOOLEAN ELSE {FALSE},
             fence : {None} \cup IF heard /\ fence = "none" /\ ~halted THEN load.fences ELSE {},
             halt : IF load.halts /\ (heard \/ halted) /\ fence = "none" THEN BOOLEAN ELSE {FALSE},
             bp_pc : P]
  BY DEF Do, Env, P
<1>2. e.bp_pc \in P
  BY <1>1
<1>3. f.state # "WaitResp" \/ Rsp # None => e.bp_pc \in load.pcs
  BY <1>2 DEF P, LatchesPc, Rsp
<1> QED BY <1>1, <1>3

\* Fields of a workload.
LEMMA LoadFacts ==
    ASSUME load \in Workloads
    PROVE  /\ load.pcs \subseteq PcSet /\ load.pcs \subseteq LineAddrs
           /\ load.changing \subseteq Lines /\ load.fences \subseteq {"pipe", "all", "line"}
  BY FetchAssumption, Bounds

\* the flush registers after a clock
FlushRegs ==
    /\ r'.req_flush_all = IF Pulse THEN fence = "flushi" ELSE r.req_flush_all
    /\ r'.req_flush_cnt = IF Pulse THEN IF fence = "flushi" THEN FLUSH_ALL_VALUE ELSE 0
                          ELSE r.req_flush_cnt
    /\ r'.req_flush_addr = IF Pulse THEN IF fence = "flushi" THEN ZeroAddr ELSE Flushed
                           ELSE r.req_flush_addr
    /\ r'.req_flush <=> ~(r.req_flush /\ (Taking \/ r.state = "Reset")) /\ (Pulse \/ r.req_flush)

\* the other registers are those of v
Goes(v) ==
    /\ r'.state = v.state /\ r'.req_addr = v.req_addr /\ r'.req_addr_next = v.req_addr_next
    /\ r'.write_addr = v.write_addr /\ r'.req_mem_valid = v.req_mem_valid
    /\ r'.mem_addr = v.mem_addr /\ r'.cached = v.cached /\ r'.load_fault = v.load_fault
    /\ r'.flush_cnt = v.flush_cnt /\ r'.cache_line_i = v.cache_line_i

\* The sweep counter is a number.
LEMMA FlushValue == FLUSH_ALL_VALUE \in Nat
<1>1. NSets * Ways \in Nat \ {0} /\ 2 * NSets * Ways = 2 * (NSets * Ways)
  BY Bounds
<1> QED BY <1>1 DEF FLUSH_ALL_VALUE

\* The flush pulse is stored with its kind and address.
LEMMA FlushRequestFacts ==
    ASSUME NEW e, r \in Registers, NEW q, q = FlushRequest(r, In(e))
    PROVE  /\ q.req_flush \in BOOLEAN
           /\ q.req_flush <=> Pulse \/ r.req_flush
           /\ q.req_flush_all = IF Pulse THEN fence = "flushi" ELSE r.req_flush_all
           /\ q.req_flush_cnt = IF Pulse THEN IF fence = "flushi" THEN FLUSH_ALL_VALUE ELSE 0
                                 ELSE r.req_flush_cnt
           /\ q.req_flush_addr = IF Pulse THEN IF fence = "flushi" THEN ZeroAddr ELSE Flushed
                                  ELSE r.req_flush_addr
<1>1. None # [all |-> fence = "flushi", addr |-> Flushed]
  <2>1. [all |-> fence = "flushi", addr |-> Flushed] \in [all : BOOLEAN, addr : LineAddrs]
    BY Bounds
  <2> QED BY <2>1, NoneAssumption
<1>2. In(e).flush = None <=> ~Pulse
  BY <1>1 DEF In, Pulse
<1>3. Pulse => In(e).flush.all = (fence = "flushi") /\ In(e).flush.addr = Flushed
  BY DEF In, Pulse
<1>4. CASE Pulse
  <2> DEFINE c == IF In(e).flush.all THEN FLUSH_ALL_VALUE ELSE 0
             a == IF In(e).flush.all THEN ZeroAddr ELSE In(e).flush.addr
             l == In(e).flush.all
  <2>1. q = [r EXCEPT !.req_flush = TRUE, !.req_flush_all = l,
                      !.req_flush_cnt = c, !.req_flush_addr = a]
    BY <1>2, <1>4 DEF FlushRequest
  <2> HIDE DEF c, a, l
  <2>2. q.req_flush = TRUE /\ q.req_flush_all = l /\ q.req_flush_cnt = c /\ q.req_flush_addr = a
    BY <2>1 DEF Registers
  <2> QED BY <1>3, <1>4, <2>2 DEF c, a, l
<1>5. CASE ~Pulse
  BY <1>2, <1>5 DEF FlushRequest, Registers
<1> QED BY <1>4, <1>5

\* Outside of Taking the flush pulse is added to what the state machine does.
LEMMA WorkedFacts ==
    ASSUME NEW e, Do(e), r \in Registers, ~Taking, Worked(In(e)) \in Registers
    PROVE  r' \in Registers /\ FlushRegs /\ Goes(Worked(In(e)))
<1> DEFINE v == Worked(In(e))
           q == FlushRequest(r, In(e))
           fl == IF r.state = "Reset" /\ r.req_flush THEN FALSE ELSE q.req_flush
<1>1. r' = [v EXCEPT !.req_flush = fl, !.req_flush_all = q.req_flush_all,
                     !.req_flush_cnt = q.req_flush_cnt, !.req_flush_addr = q.req_flush_addr]
  BY ClockIs DEF Registered, ReadyNext, Taking, In
<1>2. /\ q.req_flush \in BOOLEAN
      /\ q.req_flush <=> Pulse \/ r.req_flush
      /\ q.req_flush_all = IF Pulse THEN fence = "flushi" ELSE r.req_flush_all
      /\ q.req_flush_cnt = IF Pulse THEN IF fence = "flushi" THEN FLUSH_ALL_VALUE ELSE 0
                            ELSE r.req_flush_cnt
      /\ q.req_flush_addr = IF Pulse THEN IF fence = "flushi" THEN ZeroAddr ELSE Flushed
                             ELSE r.req_flush_addr
  BY FlushRequestFacts
<1>3. /\ fl \in BOOLEAN /\ q.req_flush_all \in BOOLEAN
      /\ q.req_flush_cnt \in 0 .. FLUSH_ALL_VALUE /\ q.req_flush_addr \in LineAddrs
  <2>1. 0 \in 0 .. FLUSH_ALL_VALUE /\ FLUSH_ALL_VALUE \in 0 .. FLUSH_ALL_VALUE
    BY FlushValue
  <2>2. /\ r.req_flush_all \in BOOLEAN /\ r.req_flush_cnt \in 0 .. FLUSH_ALL_VALUE
        /\ r.req_flush_addr \in LineAddrs /\ r.req_flush \in BOOLEAN
    BY DEF Registers
  <2> QED BY <1>2, <2>1, <2>2, Bounds
<1>4. fl <=> ~(r.req_flush /\ (Taking \/ r.state = "Reset")) /\ (Pulse \/ r.req_flush)
  BY <1>2
<1> HIDE DEF v, q, fl
<1>5. r' \in Registers
  BY <1>1, <1>3 DEF Registers, v
<1>6. /\ r'.req_flush = fl /\ r'.req_flush_all = q.req_flush_all /\ r'.req_flush_cnt = q.req_flush_cnt
      /\ r'.req_flush_addr = q.req_flush_addr
  BY <1>1 DEF Registers, v
<1>7. Goes(v)
  BY <1>1 DEF Registers, Goes, v
<1> QED BY <1>2, <1>4, <1>5, <1>6, <1>7 DEF FlushRegs, v

\* The next request is taken, or the flush that was waiting, or nothing.
LEMMA TakingFacts ==
    ASSUME NEW e, Do(e), Types, FetchInv, Taking
    PROVE  /\ r' \in Registers /\ FlushRegs
           /\ r'.req_mem_valid = r.req_mem_valid
           /\ r.req_flush => /\ r'.state = "FlushAddr" /\ r'.req_addr = LineOf(r.req_flush_addr)
                             /\ r'.flush_cnt = r.req_flush_cnt
           /\ Taken => /\ r'.state = "CheckHit" /\ r'.req_addr = f.req_addr
                       /\ r'.req_addr_next = AddrNext(f.req_addr)
           /\ ~r.req_flush /\ ~f.req_valid => r'.state = "Idle"
<1> DEFINE v == [r EXCEPT !.state = "Idle"]
           q == FlushRequest(r, In(e))
           w == [v EXCEPT !.req_flush = q.req_flush, !.req_flush_all = q.req_flush_all,
                          !.req_flush_cnt = q.req_flush_cnt, !.req_flush_addr = q.req_flush_addr]
<1>1. r \in Registers
  BY DEF Types
<1>2. Worked(In(e)) = v
  BY <1>1 DEF Worked, Taking, In, Registers
<1>3. r.state # "Reset" /\ ReadyNext(In(e))
  BY DEF Taking, ReadyNext, In
<1>4. r' = IF r.req_flush
           THEN [w EXCEPT !.state = "FlushAddr", !.req_flush = FALSE, !.cache_line_i = Blank,
                          !.req_addr = LineOf(r.req_flush_addr), !.flush_cnt = r.req_flush_cnt]
           ELSE IF In(e).req = None THEN w
           ELSE [w EXCEPT !.req_addr = In(e).req, !.req_addr_next = AddrNext(In(e).req),
                          !.state = "CheckHit"]
  BY <1>2, <1>3, ClockIs DEF Registered
<1>5. /\ q.req_flush \in BOOLEAN
      /\ q.req_flush <=> Pulse \/ r.req_flush
      /\ q.req_flush_all = IF Pulse THEN fence = "flushi" ELSE r.req_flush_all
      /\ q.req_flush_cnt = IF Pulse THEN IF fence = "flushi" THEN FLUSH_ALL_VALUE ELSE 0
                            ELSE r.req_flush_cnt
      /\ q.req_flush_addr = IF Pulse THEN IF fence = "flushi" THEN ZeroAddr ELSE Flushed
                             ELSE r.req_flush_addr
  BY <1>1, FlushRequestFacts
<1>6. /\ q.req_flush_all \in BOOLEAN
      /\ q.req_flush_cnt \in 0 .. FLUSH_ALL_VALUE /\ q.req_flush_addr \in LineAddrs
  <2>1. 0 \in 0 .. FLUSH_ALL_VALUE /\ FLUSH_ALL_VALUE \in 0 .. FLUSH_ALL_VALUE
    BY FlushValue
  <2>2. /\ r.req_flush_all \in BOOLEAN /\ r.req_flush_cnt \in 0 .. FLUSH_ALL_VALUE
        /\ r.req_flush_addr \in LineAddrs
    BY <1>1 DEF Registers
  <2> QED BY <1>5, <2>1, <2>2, Bounds
<1>7. /\ In(e).req = None <=> ~f.req_valid
      /\ f.req_valid => In(e).req = f.req_addr /\ f.req_addr \in LineAddrs
                        /\ AddrNext(f.req_addr) \in LineAddrs
  <2>1. f.req_valid => f.req_addr \in PcSet
    BY LoadFacts DEF FetchInv, Types
  <2> QED BY <2>1, Bounds, NumFacts DEF In
<1> HIDE DEF q
<1>8. w \in Registers /\ w.req_flush = q.req_flush /\ w.req_flush_all = q.req_flush_all
      /\ w.req_flush_cnt = q.req_flush_cnt /\ w.req_flush_addr = q.req_flush_addr
      /\ w.state = "Idle" /\ w.req_mem_valid = r.req_mem_valid
  BY <1>1, <1>5, <1>6 DEF Registers, States
<1> HIDE DEF w, v
<1>9. CASE r.req_flush
  <2> DEFINE a == LineOf(r.req_flush_addr)
             c == r.req_flush_cnt
  <2>1. a \in LineAddrs /\ c \in 0 .. FLUSH_ALL_VALUE
    BY <1>1, LineOfFacts DEF Registers
  <2>2. r' = [w EXCEPT !.state = "FlushAddr", !.req_flush = FALSE, !.cache_line_i = Blank,
                       !.req_addr = a, !.flush_cnt = c]
    BY <1>4, <1>9
  <2>3. Blank \in Contents
    BY ValuesAssumption DEF Blank, Contents
  <2> HIDE DEF a, c
  <2>4. r' \in Registers /\ r'.state = "FlushAddr" /\ ~r'.req_flush /\ r'.req_addr = a /\ r'.flush_cnt = c
        /\ r'.req_flush_all = q.req_flush_all /\ r'.req_flush_cnt = q.req_flush_cnt
        /\ r'.req_flush_addr = q.req_flush_addr /\ r'.req_mem_valid = r.req_mem_valid
    BY <1>8, <2>1, <2>2, <2>3 DEF Registers, States
  <2> QED BY <1>5, <1>9, <2>4 DEF FlushRegs, Taken, a, c
<1>10. CASE ~r.req_flush /\ ~f.req_valid
  <2>1. r' = w
    BY <1>4, <1>7, <1>10
  <2> QED BY <1>3, <1>5, <1>8, <1>10, <2>1 DEF FlushRegs, Taken
<1>11. CASE ~r.req_flush /\ f.req_valid
  <2> DEFINE a == f.req_addr
             n == AddrNext(f.req_addr)
  <2>1. r' = [w EXCEPT !.req_addr = a, !.req_addr_next = n, !.state = "CheckHit"]
    BY <1>4, <1>7, <1>11
  <2>2. a \in LineAddrs /\ n \in LineAddrs
    BY <1>7, <1>11
  <2> HIDE DEF a, n
  <2>3. r' \in Registers /\ r'.state = "CheckHit" /\ r'.req_addr = a /\ r'.req_addr_next = n
        /\ r'.req_flush = q.req_flush
        /\ r'.req_flush_all = q.req_flush_all /\ r'.req_flush_cnt = q.req_flush_cnt
        /\ r'.req_flush_addr = q.req_flush_addr /\ r'.req_mem_valid = r.req_mem_valid
    BY <1>8, <2>1, <2>2 DEF Registers, States
  <2> QED BY <1>3, <1>5, <1>11, <2>3 DEF FlushRegs, Taken, a, n
<1> QED BY <1>9, <1>10, <1>11

----------------------------------------------------------------------------
(***************************************************************************)
(* The states of the machine (icache_lru.cpp), one lemma each: what the    *)
(* registers become when no new work is taken.                             *)
(***************************************************************************)
KeepReq == r'.req_addr = r.req_addr /\ r'.req_addr_next = r.req_addr_next
KeepLoad == r'.write_addr = r.write_addr /\ r'.mem_addr = r.mem_addr
            /\ r'.cached = r.cached /\ r'.load_fault = r.load_fault

\* State_CheckHit without a hit of every line of the fetch.
LEMMA CheckHitRegs ==
    ASSUME NEW e, Do(e), r \in Registers, r.state = "CheckHit", ~Taking, f.resp_ready
    PROVE  /\ r' \in Registers /\ FlushRegs /\ KeepReq /\ KeepLoad /\ ~BothHit
           /\ r'.state = "TranslateAddress" /\ r'.req_mem_valid = r.req_mem_valid
<1>1. ~BothHit
  BY DEF Taking
<1> DEFINE v == [r EXCEPT !.state = "TranslateAddress"]
<1>2. Worked(In(e)) = v
  BY <1>1 DEF Worked
<1>3. v \in Registers
  BY DEF Registers, States
<1>4. r' \in Registers /\ FlushRegs /\ Goes(v)
  BY <1>2, <1>3, WorkedFacts
<1>5. /\ v.state = "TranslateAddress" /\ v.req_addr = r.req_addr /\ v.req_addr_next = r.req_addr_next
      /\ v.write_addr = r.write_addr /\ v.mem_addr = r.mem_addr /\ v.cached = r.cached
      /\ v.load_fault = r.load_fault /\ v.req_mem_valid = r.req_mem_valid
  BY DEF Registers
<1> HIDE DEF v
<1> QED BY <1>1, <1>4, <1>5 DEF Goes, KeepReq, KeepLoad

\* State_TranslateAddress of a fetch the protection unit refuses.
LEMMA RefusedRegs ==
    ASSUME NEW e, Do(e), r \in Registers, r.state = "TranslateAddress", Num(r.req_addr) \in load.refused
    PROVE  /\ r' \in Registers /\ FlushRegs /\ KeepReq
           /\ r'.state = "CheckResp" /\ r'.req_mem_valid = r.req_mem_valid
           /\ r'.cache_line_i = Ones /\ r'.load_fault = TRUE /\ r'.write_addr = r.write_addr
<1> DEFINE v == [r EXCEPT !.cache_line_i = Ones, !.state = "CheckResp", !.load_fault = TRUE]
<1>1. ~Taking
  BY DEF Taking
<1>2. Worked(In(e)) = v
  BY DEF Worked, In, TranslateAddress
<1>3. Ones \in Contents
  BY ValuesAssumption DEF Ones, Contents
<1>4. v \in Registers
  BY <1>3 DEF Registers, States
<1>5. r' \in Registers /\ FlushRegs /\ Goes(v)
  BY <1>1, <1>2, <1>4, WorkedFacts
<1>6. /\ v.state = "CheckResp" /\ v.req_addr = r.req_addr /\ v.req_addr_next = r.req_addr_next
      /\ v.write_addr = r.write_addr /\ v.cache_line_i = Ones
      /\ v.load_fault = TRUE /\ v.req_mem_valid = r.req_mem_valid
  BY DEF Registers
<1> HIDE DEF v
<1> QED BY <1>5, <1>6 DEF Goes, KeepReq

\* State_TranslateAddress of a fetch that is allowed: a request to the memory.
LEMMA RequestRegs ==
    ASSUME NEW e, Do(e), r \in Registers, r.state = "TranslateAddress", Num(r.req_addr) \notin load.refused
    PROVE  /\ r' \in Registers /\ FlushRegs /\ KeepReq
           /\ r'.state = "WaitGrant" /\ r'.req_mem_valid = TRUE /\ r'.load_fault = FALSE
           /\ r'.cached <=> Num(r.req_addr) \notin load.uncached
           /\ ~r'.cached => r'.write_addr = r.req_addr /\ r'.mem_addr = DWordOf(r.req_addr)
           /\ r'.cached => /\ r'.write_addr = IF LineHit THEN r.req_addr_next ELSE r.req_addr
                           /\ r'.mem_addr = LineOf(r'.write_addr)
<1> DEFINE c == Num(r.req_addr) \notin load.uncached
           wa == IF c /\ LineHit THEN r.req_addr_next ELSE r.req_addr
           ma == IF c THEN LineOf(wa) ELSE DWordOf(r.req_addr)
           v == [r EXCEPT !.req_mem_valid = TRUE, !.state = "WaitGrant", !.write_addr = wa,
                          !.mem_addr = ma, !.load_fault = FALSE, !.cached = c]
<1>1. ~Taking
  BY DEF Taking
<1>2. Worked(In(e)) = v
  <2>1. In(e).cached = c /\ In(e).pmp_x
    BY DEF In
  <2> DEFINE m == IF In(e).cached THEN Missing ELSE [write |-> r.req_addr, mem |-> DWordOf(r.req_addr)]
  <2>2. m.write = wa /\ m.mem = ma
    BY <2>1 DEF Missing
  <2>3. Worked(In(e)) = [r EXCEPT !.req_mem_valid = TRUE, !.state = "WaitGrant", !.write_addr = m.write,
                          !.mem_addr = m.mem, !.load_fault = FALSE, !.cached = In(e).cached]
    BY <2>1 DEF Worked, TranslateAddress
  <2> HIDE DEF m, wa, ma, c
  <2> QED BY <2>1, <2>2, <2>3
<1>3. wa \in LineAddrs /\ c \in BOOLEAN
  BY DEF Registers
<1>4. ma \in LineAddrs
  BY <1>3, LineOfFacts DEF Registers
<1> HIDE DEF wa, ma, c
<1>5. v \in Registers
  BY <1>3, <1>4 DEF Registers, States
<1>6. r' \in Registers /\ FlushRegs /\ Goes(v)
  BY <1>1, <1>2, <1>5, WorkedFacts
<1>7. /\ v.state = "WaitGrant" /\ v.req_addr = r.req_addr /\ v.req_addr_next = r.req_addr_next
      /\ v.write_addr = wa /\ v.mem_addr = ma /\ v.cached = c
      /\ v.load_fault = FALSE /\ v.req_mem_valid = TRUE
  BY DEF Registers
<1> HIDE DEF v
<1> QED BY <1>6, <1>7 DEF Goes, KeepReq, wa, ma, c

\* State_WaitGrant.
LEMMA WaitGrantRegs ==
    ASSUME NEW e, Do(e), r \in Registers, r.state = "WaitGrant"
    PROVE  /\ r' \in Registers /\ FlushRegs /\ KeepReq /\ KeepLoad
           /\ e.ready => r'.state = "WaitResp" /\ r'.req_mem_valid = FALSE
           /\ ~e.ready => r'.state = "WaitGrant" /\ r'.req_mem_valid = r.req_mem_valid
<1> DEFINE v == IF e.ready THEN [r EXCEPT !.state = "WaitResp", !.req_mem_valid = FALSE] ELSE r
<1>1. ~Taking
  BY DEF Taking
<1>2. Worked(In(e)) = v
  BY DEF Worked, In
<1>3. v \in Registers
  BY DEF Registers, States
<1>4. r' \in Registers /\ FlushRegs /\ Goes(v)
  BY <1>1, <1>2, <1>3, WorkedFacts
<1>5. /\ v.req_addr = r.req_addr /\ v.req_addr_next = r.req_addr_next
      /\ v.write_addr = r.write_addr /\ v.mem_addr = r.mem_addr /\ v.cached = r.cached
      /\ v.load_fault = r.load_fault
      /\ e.ready => v.state = "WaitResp" /\ v.req_mem_valid = FALSE
      /\ ~e.ready => v.state = "WaitGrant" /\ v.req_mem_valid = r.req_mem_valid
  BY DEF Registers
<1> HIDE DEF v
<1> QED BY <1>4, <1>5 DEF Goes, KeepReq, KeepLoad

\* What the memory answers is a line.
LEMMA AnswerTypes ==
    ASSUME Types, bus # None
    PROVE  /\ Answer.data \in Contents /\ (Answer.fault <=> Num(bus.addr) \in load.faulty)
           /\ Answer # None
           /\ \A w \in Words : Answer.data[w] = WordAt(Num(bus.addr), bus.addr.word + w)
<1>1. bus.addr \in LineAddrs /\ Num(bus.addr) \in Lines
  BY NumFacts DEF Types
<1> DEFINE n == Num(bus.addr)
<1>2. \A w \in Words : WordAt(n, bus.addr.word + w) \in Values
  <2> SUFFICES ASSUME NEW w \in Words PROVE WordAt(n, bus.addr.word + w) \in Values
    OBVIOUS
  <2>1. PICK x \in Words : x = bus.addr.word
    BY <1>1 DEF LineAddrs
  <2>2. x + w < NWords => x + w \in Words
    BY Bounds DEF Words
  <2>3. ~(x + w < NWords) => (x + w) - NWords \in Words
    BY Bounds DEF Words
  <2>4. n \in Lines /\ Nxt(n) \in Lines
    BY <1>1, NxtFacts
  <2>5. mem[n] \in Versions /\ mem[Nxt(n)] \in Versions
    BY <2>4 DEF Types
  <2> HIDE DEF n
  <2>6. CASE x + w < NWords
    <3>1. WordAt(n, x + w) = Code(n, x + w, mem[n])
      BY <2>6 DEF WordAt
    <3> QED BY <2>1, <2>2, <2>4, <2>5, <2>6, <3>1, ValuesAssumption
  <2>7. CASE ~(x + w < NWords)
    <3>1. WordAt(n, x + w) = Code(Nxt(n), (x + w) - NWords, mem[Nxt(n)])
      BY <2>7 DEF WordAt
    <3> QED BY <2>1, <2>3, <2>4, <2>5, <2>7, <3>1, ValuesAssumption
  <2> QED BY <2>6, <2>7
<1>3. Answer = [data |-> [w \in Words |-> WordAt(n, bus.addr.word + w)], fault |-> n \in load.faulty]
  BY DEF Answer
<1>4. [w \in Words |-> WordAt(n, bus.addr.word + w)] \in Contents
  BY <1>2 DEF Contents
<1>5. Answer \in [data : Contents, fault : BOOLEAN]
  BY <1>3, <1>4
<1> QED BY <1>3, <1>4, <1>5, NoneAssumption

\* State_WaitResp.
LEMMA WaitRespRegs ==
    ASSUME NEW e, Do(e), Types, r.state = "WaitResp"
    PROVE  /\ r' \in Registers /\ FlushRegs /\ r'.req_mem_valid = r.req_mem_valid
           /\ r'.req_addr_next = r.req_addr_next /\ r'.cached = r.cached
           /\ ~e.answer => r'.state = "WaitResp" /\ KeepReq /\ KeepLoad
           /\ e.answer => /\ r'.state = "CheckResp" /\ r'.cache_line_i = Answer.data
                          /\ r'.write_addr = r.req_addr /\ r'.req_addr = r.write_addr
                          /\ r'.load_fault <=> r.load_fault \/ Num(bus.addr) \in load.faulty
<1>0. r \in Registers /\ e.answer \in BOOLEAN /\ (e.answer => bus # None)
  BY EnvFacts DEF Types
<1>1. ~Taking
  BY DEF Taking
<1>2. CASE ~e.answer
  <2>1. Worked(In(e)) = r
    BY <1>2 DEF Worked, In, WaitResp
  <2>2. r' \in Registers /\ FlushRegs /\ Goes(r)
    BY <1>0, <1>1, <2>1, WorkedFacts
  <2> QED BY <1>2, <2>2 DEF Goes, KeepReq, KeepLoad
<1>3. CASE e.answer
  <2> DEFINE d == Answer.data
             lf == r.load_fault \/ Answer.fault
             v == [r EXCEPT !.cache_line_i = d, !.state = "CheckResp",
                   !.write_addr = r.req_addr, !.req_addr = r.write_addr, !.load_fault = lf]
  <2>1. d \in Contents /\ (Answer.fault <=> Num(bus.addr) \in load.faulty) /\ Answer # None
    BY <1>0, <1>3, AnswerTypes
  <2>2. Worked(In(e)) = v
    BY <1>0, <1>3, <2>1 DEF Worked, In, WaitResp, Registers
  <2>3. lf \in BOOLEAN /\ (lf <=> r.load_fault \/ Num(bus.addr) \in load.faulty)
    BY <2>1
  <2> HIDE DEF d, lf
  <2>4. v \in Registers
    BY <1>0, <2>1, <2>3 DEF Registers, States
  <2>5. r' \in Registers /\ FlushRegs /\ Goes(v)
    BY <1>0, <1>1, <2>2, <2>4, WorkedFacts
  <2>6. /\ v.req_addr = r.write_addr /\ v.write_addr = r.req_addr /\ v.state = "CheckResp"
        /\ v.load_fault = lf /\ v.cache_line_i = d /\ v.cached = r.cached
        /\ v.req_mem_valid = r.req_mem_valid /\ v.req_addr_next = r.req_addr_next
    BY <1>0 DEF Registers
  <2> HIDE DEF v
  <2> QED BY <1>3, <2>3, <2>5, <2>6 DEF Goes, d
<1> QED BY <1>0, <1>2, <1>3

\* State_CheckResp: the line goes to the banks, or the answer to the core.
LEMMA CheckRespRegs ==
    ASSUME NEW e, Do(e), r \in Registers, r.state = "CheckResp", f.resp_ready
    PROVE  /\ r' \in Registers /\ FlushRegs /\ r'.req_mem_valid = r.req_mem_valid
           /\ r'.req_addr = r.write_addr /\ r'.req_addr_next = r.req_addr_next
           /\ r'.state = IF Uncacheable THEN "Idle" ELSE "SetupReadAdr"
<1> DEFINE v == [r EXCEPT !.req_addr = r.write_addr,
                          !.state = IF Uncacheable THEN "Idle" ELSE "SetupReadAdr"]
<1>1. ~Taking
  BY DEF Taking
<1>2. Worked(In(e)) = v
  BY DEF Worked, In, CheckResp
<1>3. v \in Registers
  BY DEF Registers, States
<1>4. r' \in Registers /\ FlushRegs /\ Goes(v)
  BY <1>1, <1>2, <1>3, WorkedFacts
<1>5. /\ v.req_addr = r.write_addr /\ v.req_addr_next = r.req_addr_next
      /\ v.state = (IF Uncacheable THEN "Idle" ELSE "SetupReadAdr") /\ v.req_mem_valid = r.req_mem_valid
  BY DEF Registers
<1> HIDE DEF v
<1> QED BY <1>4, <1>5 DEF Goes

\* State_SetupReadAdr.
LEMMA SetupRegs ==
    ASSUME NEW e, Do(e), r \in Registers, r.state = "SetupReadAdr"
    PROVE  /\ r' \in Registers /\ FlushRegs /\ KeepReq /\ r'.req_mem_valid = r.req_mem_valid
           /\ r'.state = "CheckHit"
<1> DEFINE v == [r EXCEPT !.state = "CheckHit"]
<1>1. ~Taking
  BY DEF Taking
<1>2. Worked(In(e)) = v
  BY DEF Worked
<1>3. v \in Registers
  BY DEF Registers, States
<1>4. r' \in Registers /\ FlushRegs /\ Goes(v)
  BY <1>1, <1>2, <1>3, WorkedFacts
<1>5. /\ v.req_addr = r.req_addr /\ v.req_addr_next = r.req_addr_next
      /\ v.state = "CheckHit" /\ v.req_mem_valid = r.req_mem_valid
  BY DEF Registers
<1> HIDE DEF v
<1> QED BY <1>4, <1>5 DEF Goes, KeepReq

\* State_FlushAddr.
LEMMA FlushAddrRegs ==
    ASSUME NEW e, Do(e), r \in Registers, r.state = "FlushAddr"
    PROVE  /\ r' \in Registers /\ FlushRegs /\ KeepReq /\ r'.req_mem_valid = r.req_mem_valid
           /\ r'.state = "FlushCheck" /\ r'.flush_cnt = r.flush_cnt
<1> DEFINE v == [r EXCEPT !.state = "FlushCheck", !.cache_line_i = Blank]
<1>1. ~Taking
  BY DEF Taking
<1>2. Worked(In(e)) = v
  BY DEF Worked
<1>3. Blank \in Contents
  BY ValuesAssumption DEF Blank, Contents
<1>4. v \in Registers
  BY <1>3 DEF Registers, States
<1>5. r' \in Registers /\ FlushRegs /\ Goes(v)
  BY <1>1, <1>2, <1>4, WorkedFacts
<1>6. /\ v.req_addr = r.req_addr /\ v.req_addr_next = r.req_addr_next
      /\ v.state = "FlushCheck" /\ v.req_mem_valid = r.req_mem_valid /\ v.flush_cnt = r.flush_cnt
  BY DEF Registers
<1> HIDE DEF v
<1> QED BY <1>5, <1>6 DEF Goes, KeepReq

\* The address after an address of a sweep is an address, again of a first word.
LEMMA DirectNextFacts ==
    ASSUME r \in Registers
    PROVE  /\ AddrDirectNext \in LineAddrs
           /\ r.req_addr.word = 0 => AddrDirectNext.word = 0
           /\ r.req_addr.way = Ways - 1 => /\ AddrDirectNext.way = 0
                                           /\ AddrDirectNext.set = AddrNext(r.req_addr).set
                                           /\ AddrDirectNext.odd = AddrNext(r.req_addr).odd
           /\ r.req_addr.way # Ways - 1 => /\ AddrDirectNext.way = r.req_addr.way + 1
                                           /\ AddrDirectNext.set = r.req_addr.set
                                           /\ AddrDirectNext.odd = r.req_addr.odd
<1>1. r.req_addr \in LineAddrs /\ AddrNext(r.req_addr) \in LineAddrs
  BY NumFacts DEF Registers
<1>2. CASE r.req_addr.way = Ways - 1
  <2>1. AddrDirectNext = LineOf(AddrNext(r.req_addr))
    BY <1>2 DEF AddrDirectNext
  <2>2. PICK a \in LineAddrs : a = AddrNext(r.req_addr)
    BY <1>1
  <2>3. LineOf(a) \in LineAddrs /\ LineOf(a).word = 0 /\ LineOf(a).way = 0
        /\ LineOf(a).set = a.set /\ LineOf(a).odd = a.odd
    <3>1. LineOf(a) = [tag |-> a.tag, set |-> a.set, odd |-> a.odd, word |-> 0, way |-> 0]
      BY LineOfFacts
    <3>2. LineOf(a) \in LineAddrs
      BY LineOfFacts
    <3> QED BY <3>1, <3>2
  <2> QED BY <1>2, <2>1, <2>2, <2>3
<1>3. CASE r.req_addr.way # Ways - 1
  <2>1. PICK x \in WayNo : x = r.req_addr.way
    BY <1>1 DEF LineAddrs, WayNo
  <2>2. PICK y \in WayNo : y = x + 1
    BY <1>3, <2>1, Bounds DEF WayNo
  <2>3. AddrDirectNext = [r.req_addr EXCEPT !.way = y]
    BY <1>3, <2>1, <2>2 DEF AddrDirectNext
  <2>4. AddrDirectNext \in LineAddrs /\ AddrDirectNext.way = y /\ AddrDirectNext.word = r.req_addr.word
        /\ AddrDirectNext.set = r.req_addr.set /\ AddrDirectNext.odd = r.req_addr.odd
    BY <1>1, <2>3 DEF LineAddrs, WayNo
  <2> QED BY <1>3, <2>1, <2>2, <2>4
<1> QED BY <1>2, <1>3

\* Positions of a sweep are numbered without gaps and without repetition.
LEMMA PosFacts ==
    ASSUME NEW b \in {0, 1}, NEW s \in Sets, NEW w \in WayNo
    PROVE  /\ Pos(b, s, w) \in 0 .. FLUSH_ALL_VALUE
           /\ \A c \in {0, 1}, t \in Sets, v \in WayNo :
                 Pos(b, s, w) = Pos(c, t, v) => b = c /\ s = t /\ w = v
<1>1. PICK K \in Nat \ {0} : K = Ways
  BY Bounds
<1>2. \A c \in {0, 1}, t \in Sets, v \in WayNo :
         /\ Pos(c, t, v) \div K = t * 2 + c /\ Pos(c, t, v) % K = v
         /\ (t * 2 + c) \div 2 = t /\ (t * 2 + c) % 2 = c
  <2> SUFFICES ASSUME NEW c \in {0, 1}, NEW t \in Sets, NEW v \in WayNo
               PROVE  /\ Pos(c, t, v) \div K = t * 2 + c /\ Pos(c, t, v) % K = v
                      /\ (t * 2 + c) \div 2 = t /\ (t * 2 + c) % 2 = c
    OBVIOUS
  <2>1. t \in Nat /\ v \in 0 .. K - 1
    BY <1>1, Bounds DEF WayNo
  <2>2. PICK p \in Nat : p = t * 2 + c
    BY <2>1
  <2>3. (p * K + v) \div K = p /\ (p * K + v) % K = v
    BY <2>1, Division
  <2>4. Pos(c, t, v) = p * K + v
    BY <1>1, <2>2 DEF Pos
  <2> QED BY <2>1, <2>2, <2>3, <2>4, Halves
<1>3. Pos(b, s, w) \in 0 .. FLUSH_ALL_VALUE
  <2>1. PICK p \in Nat : p = s * 2 + b /\ p <= 2 * NSets - 1
    BY Bounds DEF Sets
  <2>2. p * K <= (2 * NSets - 1) * K
    BY <2>1, Bounds
  <2>3. (2 * NSets - 1) * K = 2 * NSets * K - K
    BY Bounds
  <2>4. p * K \in Nat /\ 2 * NSets * K \in Nat
    BY Bounds
  <2>5. PICK x \in Nat, y \in Nat : x = p * K /\ y = 2 * NSets * K
    BY <2>4
  <2>6. x + w \in 0 .. y - 1
    BY <1>1, <2>2, <2>3, <2>5, Bounds DEF WayNo
  <2> QED BY <1>1, <2>1, <2>5, <2>6 DEF Pos, FLUSH_ALL_VALUE
<1>4. ASSUME NEW c \in {0, 1}, NEW t \in Sets, NEW v \in WayNo, Pos(b, s, w) = Pos(c, t, v)
      PROVE  b = c /\ s = t /\ w = v
  <2>1. s * 2 + b = t * 2 + c /\ w = v
    BY <1>2, <1>4
  <2> QED BY <2>1, Bounds
<1> QED BY <1>3, <1>4

\* The sweep moves on by one position (vb_addr_direct_next).
LEMMA PosAdvances ==
    ASSUME r \in Registers,
           Pos(r.req_addr.odd, r.req_addr.set, r.req_addr.way) # FLUSH_ALL_VALUE
    PROVE  Pos(AddrDirectNext.odd, AddrDirectNext.set, AddrDirectNext.way)
              = Pos(r.req_addr.odd, r.req_addr.set, r.req_addr.way) + 1
<1>1. r.req_addr \in LineAddrs
  BY DEF Registers
<1>2. PICK b \in {0, 1}, s \in Sets, w \in WayNo :
          b = r.req_addr.odd /\ s = r.req_addr.set /\ w = r.req_addr.way
  BY <1>1 DEF LineAddrs, WayNo
<1>3. PICK p \in Nat : p = s * 2 + b
  BY Bounds
<1>4. PICK K \in Nat \ {0} : K = Ways
  BY Bounds
<1>5. Pos(b, s, w) = p * K + w
  BY <1>3, <1>4 DEF Pos
<1>6. CASE w # Ways - 1
  <2>1. AddrDirectNext.way = w + 1 /\ AddrDirectNext.set = s /\ AddrDirectNext.odd = b
    BY <1>2, <1>6, DirectNextFacts
  <2>2. Pos(b, s, w + 1) = p * K + (w + 1)
    BY <1>3, <1>4 DEF Pos
  <2>3. PICK x \in Nat : x = p * K
    BY <1>4
  <2> QED BY <1>2, <1>5, <2>1, <2>2, <2>3, Bounds
<1>7. CASE w = Ways - 1
  <2>1. (p + 1) * K = p * K + K
    BY <1>4
  <2>2. PICK x \in Nat : x = p * K
    BY <1>4
  <2>3. Pos(b, s, w) + 1 = (p + 1) * K
    BY <1>4, <1>5, <1>7, <2>1, <2>2
  <2>4. p + 1 # 2 * NSets
    <3> SUFFICES ASSUME p + 1 = 2 * NSets PROVE FALSE
      OBVIOUS
    <3>1. (p + 1) * K = 2 * NSets * K
      OBVIOUS
    <3>2. PICK y \in Nat : y = (p + 1) * K
      BY <1>4
    <3>3. Pos(b, s, w) = y - 1 /\ FLUSH_ALL_VALUE = y - 1
      BY <1>4, <1>5, <1>7, <2>1, <2>2, <3>1, <3>2 DEF FLUSH_ALL_VALUE
    <3> QED BY <1>2, <3>3
  <2>5. AddrDirectNext.set * 2 + AddrDirectNext.odd = p + 1
    <3>1. /\ AddrNext(r.req_addr).odd = 1 - b
          /\ b = 0 => AddrNext(r.req_addr).set = s
          /\ b = 1 /\ s < NSets - 1 => AddrNext(r.req_addr).set = s + 1
      BY <1>1, <1>2, NumFacts
    <3>2. AddrDirectNext.set = AddrNext(r.req_addr).set /\ AddrDirectNext.odd = 1 - b
      BY <1>2, <1>7, <3>1, DirectNextFacts
    <3>3. b = 1 => s < NSets - 1
      BY <1>3, <2>4, Bounds DEF Sets
    <3> QED BY <1>3, <3>1, <3>2, <3>3, Bounds
  <2>6. AddrDirectNext.way = 0
    BY <1>2, <1>7, DirectNextFacts
  <2>7. Pos(AddrDirectNext.odd, AddrDirectNext.set, AddrDirectNext.way) = (p + 1) * K
    BY <1>4, <2>5, <2>6 DEF Pos
  <2> QED BY <1>2, <2>3, <2>7
<1> QED BY <1>6, <1>7

\* State_FlushCheck: the sweep ends or moves on.
LEMMA FlushCheckRegs ==
    ASSUME NEW e, Do(e), r \in Registers, r.state = "FlushCheck"
    PROVE  /\ r' \in Registers /\ FlushRegs /\ r'.req_mem_valid = r.req_mem_valid
           /\ r.flush_cnt = 0 => r'.state = "Idle"
           /\ r.flush_cnt # 0 => /\ r'.state = "FlushAddr" /\ r'.flush_cnt = r.flush_cnt - 1
                                 /\ r.req_addr.word = 0 => r'.req_addr.word = 0
                                 /\ r.req_flush_all => r'.req_addr = AddrDirectNext
<1> DEFINE a == IF r.req_flush_all THEN AddrDirectNext ELSE AddrNext(r.req_addr)
           n == r.flush_cnt - 1
           v == IF r.flush_cnt = 0 THEN [r EXCEPT !.state = "Idle"]
                ELSE [r EXCEPT !.state = "FlushAddr", !.flush_cnt = n, !.req_addr = a]
<1>1. ~Taking
  BY DEF Taking
<1>2. Worked(In(e)) = v
  BY DEF Worked, FlushCheck
<1>3. a \in LineAddrs /\ (r.req_addr.word = 0 => a.word = 0) /\ (r.req_flush_all => a = AddrDirectNext)
  BY DirectNextFacts, NumFacts DEF Registers
<1>4. r.flush_cnt # 0 => n \in 0 .. FLUSH_ALL_VALUE
  BY FlushValue DEF Registers
<1> HIDE DEF a, n
<1>5. v \in Registers
  BY <1>3, <1>4 DEF Registers, States
<1>6. r' \in Registers /\ FlushRegs /\ Goes(v)
  BY <1>1, <1>2, <1>5, WorkedFacts
<1>7. /\ v.req_mem_valid = r.req_mem_valid
      /\ r.flush_cnt = 0 => v.state = "Idle"
      /\ r.flush_cnt # 0 => v.state = "FlushAddr" /\ v.flush_cnt = n /\ v.req_addr = a
  BY DEF Registers
<1> HIDE DEF v
<1> QED BY <1>3, <1>6, <1>7 DEF Goes, n

\* State_Reset and State_ResetWrite.
LEMMA ResetRegs ==
    ASSUME NEW e, Do(e), r \in Registers, Resetting
    PROVE  /\ r' \in Registers /\ FlushRegs /\ r'.req_mem_valid = r.req_mem_valid
           /\ r'.state \in IF r.state = "Reset" THEN {"ResetWrite"} ELSE {"Reset", "Idle"}
<1> DEFINE n == IF r.req_flush THEN FLUSH_ALL_VALUE ELSE r.flush_cnt
           m == r.flush_cnt - 1
           a == AddrDirectNext
           v == IF r.state = "Reset" THEN [r EXCEPT !.state = "ResetWrite", !.flush_cnt = n]
                ELSE IF r.flush_cnt = 0 THEN [r EXCEPT !.state = "Idle"]
                ELSE [r EXCEPT !.state = "Reset", !.flush_cnt = m, !.req_addr = a]
<1>1. ~Taking
  BY DEF Taking, Resetting
<1>2. Worked(In(e)) = v
  <2>1. CASE r.state = "Reset"
    BY <2>1 DEF Worked
  <2>2. CASE r.state = "ResetWrite"
    BY <2>2 DEF Worked, ResetWrite
  <2> QED BY <2>1, <2>2 DEF Resetting
<1>3. a \in LineAddrs /\ n \in 0 .. FLUSH_ALL_VALUE
  BY DirectNextFacts, FlushValue DEF Registers
<1>4. r.flush_cnt # 0 => m \in 0 .. FLUSH_ALL_VALUE
  BY FlushValue DEF Registers
<1> HIDE DEF a, n, m
<1>5. v \in Registers
  BY <1>3, <1>4 DEF Registers, States
<1>6. r' \in Registers /\ FlushRegs /\ Goes(v)
  BY <1>1, <1>2, <1>5, WorkedFacts
<1>7. /\ v.req_mem_valid = r.req_mem_valid
      /\ v.state \in IF r.state = "Reset" THEN {"ResetWrite"} ELSE {"Reset", "Idle"}
  BY DEF Registers
<1> HIDE DEF v
<1> QED BY <1>6, <1>7 DEF Goes

----------------------------------------------------------------------------
(***************************************************************************)
(* The banks in a clock of the path.                                       *)
(***************************************************************************)
\* the address the banks are given, and the banks that take part
Given == IF Taking /\ ~r.req_flush THEN OnBus ELSE r.req_addr
On(b) == Given.odd = b \/ Overlay(Given)
Fills == r.state = "CheckResp" /\ ~Uncacheable

\* The inputs of the tag memory are typed.
LEMMA InputFacts ==
    ASSUME NEW e, Do(e), Types
    PROVE  /\ Given \in LineAddrs
           /\ LineInputs(In(e), OnBus) \in LineControls
           /\ LineInputs(In(e), OnBus).addr = Given
           /\ LineInputs(In(e), OnBus).direct <=> Resetting \/ (Flushing /\ r.req_flush_all)
           /\ LineInputs(In(e), OnBus).invalidate <=> r.state \in {"FlushAddr", "Reset"}
           /\ LineInputs(In(e), OnBus).we <=> Fills \/ r.state = "ResetWrite"
                                              \/ (r.state = "FlushCheck" /\ r.req_flush_all)
           /\ LineInputs(In(e), OnBus).wstrb = IF Fills THEN Words ELSE {}
           /\ LineInputs(In(e), OnBus).wflags = IF Fills THEN {"VALID"} ELSE {}
           /\ LineInputs(In(e), OnBus).wdata = r.cache_line_i
<1>1. OnBus \in LineAddrs
  <2>1. NTags - 1 \in Tags /\ NSets - 1 \in Sets /\ NWords - 1 \in Words
    BY Bounds DEF Tags, Sets, Words
  <2>2. [tag |-> NTags - 1, set |-> NSets - 1, odd |-> 1, word |-> NWords - 1, way |-> 0] \in LineAddrs
    BY <2>1, Bounds DEF LineAddrs, WayNo
  <2>3. f.req_addr \in PcSet \cup {NoPc}
    BY DEF Types, FetchRegs
  <2> QED BY <2>2, <2>3, Bounds DEF OnBus
<1>2. ReqReady(In(e)) <=> Taking /\ ~r.req_flush
  BY DEF ReqReady, ReadyNext, In, Taking
<1>3. Given \in LineAddrs
  BY <1>1 DEF Given, Types, Registers
<1> DEFINE di == r.state \in {"Reset", "ResetWrite"} \/ (r.state \in {"FlushAddr", "FlushCheck"} /\ r.req_flush_all)
           inv == r.state \in {"FlushAddr", "Reset"}
           re == ReqReady(In(e)) /\ In(e).req # None
           we == \/ Fills \/ r.state = "ResetWrite"
                 \/ r.state = "FlushCheck" /\ r.req_flush_all
           st == IF Fills THEN Words ELSE {}
           fg == IF Fills THEN {"VALID"} ELSE {}
           ad == IF ReqReady(In(e)) THEN OnBus ELSE r.req_addr
<1>4. LineInputs(In(e), OnBus) = [direct |-> di, invalidate |-> inv, re |-> re, we |-> we,
         addr |-> ad, wdata |-> r.cache_line_i, wstrb |-> st, wflags |-> fg]
  BY DEF LineInputs, Fills
<1>5. ad = Given
  BY <1>2 DEF Given
<1>6. /\ di \in BOOLEAN /\ inv \in BOOLEAN /\ re \in BOOLEAN /\ we \in BOOLEAN
      /\ st \in SUBSET Words /\ fg \in SUBSET EntryFlags /\ r.cache_line_i \in Contents
  BY DEF EntryFlags, Types, Registers
<1>7. (di <=> Resetting \/ (Flushing /\ r.req_flush_all))
  BY DEF Resetting, Flushing
<1> HIDE DEF di, inv, re, we, st, fg, ad
<1>8. LineInputs(In(e), OnBus) \in LineControls
  BY <1>3, <1>4, <1>5, <1>6 DEF LineControls
<1>9. /\ LineInputs(In(e), OnBus).addr = ad /\ (LineInputs(In(e), OnBus).direct <=> di)
      /\ (LineInputs(In(e), OnBus).invalidate <=> inv) /\ (LineInputs(In(e), OnBus).we <=> we)
      /\ LineInputs(In(e), OnBus).wstrb = st /\ LineInputs(In(e), OnBus).wflags = fg
      /\ LineInputs(In(e), OnBus).wdata = r.cache_line_i
  BY <1>4
<1>10. (inv <=> r.state \in {"FlushAddr", "Reset"})
       /\ (we <=> Fills \/ r.state = "ResetWrite" \/ (r.state = "FlushCheck" /\ r.req_flush_all))
       /\ st = (IF Fills THEN Words ELSE {}) /\ fg = (IF Fills THEN {"VALID"} ELSE {})
  BY DEF inv, we, st, fg
<1> QED BY <1>3, <1>5, <1>7, <1>8, <1>9, <1>10

\* One clock of the banks.
LEMMA LinesClock ==
    ASSUME NEW e, Do(e), Types, NoAlias
    PROVE  /\ LineTypeOK' /\ radr' = Given /\ Given \in LineAddrs
           /\ \A b \in {0, 1} :
                 /\ Rd(b)'.addr = BankAddr(InBank(Given, b))
                 /\ Rd(b)'.direct <=> (Resetting \/ (Flushing /\ r.req_flush_all)) /\ On(b)
                 /\ Rd(b)'.invalidate <=> r.state \in {"FlushAddr", "Reset"} /\ On(b)
                 /\ ~Rd(b).invalidate /\ ~(Fills /\ Given.odd = b) => Ram(b)' = Ram(b)
                 /\ ~Rd(b).invalidate /\ Fills /\ Given.odd = b =>
                       \E h \in WayNo : \A s \in Sets, w \in WayNo :
                          Ram(b)'[s][w] = IF s = Given.set /\ w = h
                                          THEN [tag |-> Given.tag, flags |-> {"VALID"}, data |-> r.cache_line_i]
                                          ELSE Ram(b)[s][w]
                 /\ Rd(b).invalidate =>
                       /\ Emptied(Ram(b), Ram(b)')
                       /\ Rd(b).direct /\ r.state = "FlushCheck" /\ r.req_flush_all /\ Given.odd = b =>
                             Ram(b)'[Given.set][Rd(b).addr.way].flags = {}
                       /\ ~Rd(b).direct /\ Given.odd = b =>
                             \A w \in WayNo : HitAt(Ram(b), Rd(b), w) => Ram(b)'[Given.set][w].flags = {}
<1> DEFINE c == LineInputs(In(e), OnBus)
<1>1. /\ Given \in LineAddrs /\ c \in LineControls /\ c.addr = Given
      /\ c.direct <=> Resetting \/ (Flushing /\ r.req_flush_all)
      /\ c.invalidate <=> r.state \in {"FlushAddr", "Reset"}
      /\ c.we <=> Fills \/ r.state = "ResetWrite" \/ (r.state = "FlushCheck" /\ r.req_flush_all)
      /\ c.wstrb = IF Fills THEN Words ELSE {}
      /\ c.wflags = IF Fills THEN {"VALID"} ELSE {}
      /\ c.wdata = r.cache_line_i
  BY InputFacts
<1> HIDE DEF c
<1>2. LineClock(c)
  BY ClockIs DEF c
<1>3. /\ LineTypeOK' /\ radr' = c.addr
      /\ \A b \in {0, 1} : BankEffect(Ram(b), Rd(b), Bank(c, b), Ram(b)', Rd(b)')
  BY <1>1, <1>2, BanksClock DEF Types
<1>4. ASSUME NEW b \in {0, 1}
      PROVE  /\ Rd(b)'.addr = BankAddr(InBank(Given, b))
             /\ Rd(b)'.direct <=> (Resetting \/ (Flushing /\ r.req_flush_all)) /\ On(b)
             /\ Rd(b)'.invalidate <=> r.state \in {"FlushAddr", "Reset"} /\ On(b)
             /\ ~Rd(b).invalidate /\ ~(Fills /\ Given.odd = b) => Ram(b)' = Ram(b)
             /\ ~Rd(b).invalidate /\ Fills /\ Given.odd = b =>
                   \E h \in WayNo : \A s \in Sets, w \in WayNo :
                      Ram(b)'[s][w] = IF s = Given.set /\ w = h
                                      THEN [tag |-> Given.tag, flags |-> {"VALID"}, data |-> r.cache_line_i]
                                      ELSE Ram(b)[s][w]
             /\ Rd(b).invalidate =>
                   /\ Emptied(Ram(b), Ram(b)')
                   /\ Rd(b).direct /\ r.state = "FlushCheck" /\ r.req_flush_all /\ Given.odd = b =>
                         Ram(b)'[Given.set][Rd(b).addr.way].flags = {}
                   /\ ~Rd(b).direct /\ Given.odd = b =>
                         \A w \in WayNo : HitAt(Ram(b), Rd(b), w) => Ram(b)'[Given.set][w].flags = {}
  <2> DEFINE k == Bank(c, b)
  <2>1. /\ k.addr = BankAddr(InBank(Given, b))
        /\ k.direct <=> c.direct /\ On(b)
        /\ k.invalidate <=> c.invalidate /\ On(b)
        /\ k.we <=> c.we /\ On(b)
        /\ k.wstrb = IF Given.odd = b THEN c.wstrb ELSE {}
        /\ k.wflags = c.wflags /\ k.wdata = c.wdata
    BY <1>1 DEF Bank, On, InBank
  <2> HIDE DEF k
  <2>2. BankEffect(Ram(b), Rd(b), k, Ram(b)', Rd(b)')
    BY <1>3 DEF k
  <2>3. Given.odd = b => k.addr.set = Given.set /\ k.addr.tag = Given.tag
    BY <2>1 DEF InBank, BankAddr
  <2>4. Given.odd = b => On(b)
    BY DEF On
  <2>5. /\ Rd(b)'.addr = BankAddr(InBank(Given, b))
        /\ Rd(b)'.direct <=> (Resetting \/ (Flushing /\ r.req_flush_all)) /\ On(b)
        /\ Rd(b)'.invalidate <=> r.state \in {"FlushAddr", "Reset"} /\ On(b)
    BY <1>1, <2>1, <2>2 DEF BankEffect
  <2>6. ~Rd(b).invalidate /\ ~(Fills /\ Given.odd = b) => Ram(b)' = Ram(b)
    BY <1>1, <2>1, <2>2 DEF BankEffect
  <2>7. ~Rd(b).invalidate /\ Fills /\ Given.odd = b => Filled(Ram(b), k, Ram(b)')
    BY <1>1, <2>1, <2>2, <2>4 DEF BankEffect
  <2>8. Rd(b).invalidate =>
           /\ Emptied(Ram(b), Ram(b)')
           /\ Rd(b).direct /\ r.state = "FlushCheck" /\ r.req_flush_all /\ Given.odd = b =>
                 Ram(b)'[Given.set][Rd(b).addr.way].flags = {}
           /\ ~Rd(b).direct /\ Given.odd = b =>
                 \A w \in WayNo : HitAt(Ram(b), Rd(b), w) => Ram(b)'[Given.set][w].flags = {}
    BY <1>1, <2>1, <2>2, <2>3, <2>4 DEF BankEffect
  <2>9. ~Rd(b).invalidate /\ Fills /\ Given.odd = b =>
           \E h \in WayNo : \A s \in Sets, w \in WayNo :
              Ram(b)'[s][w] = IF s = Given.set /\ w = h
                              THEN [tag |-> Given.tag, flags |-> {"VALID"}, data |-> r.cache_line_i]
                              ELSE Ram(b)[s][w]
    BY <1>1, <2>1, <2>3, <2>7 DEF Filled
  <2> QED BY <2>5, <2>6, <2>8, <2>9
<1> QED BY <1>1, <1>3, <1>4

----------------------------------------------------------------------------
(***************************************************************************)
(* The fetch stage and the fetch that is asked.                            *)
(***************************************************************************)
\* Every word the banks show is a value.
LEMMA RDataTypes ==
    ASSUME LineTypeOK, NoAlias, NEW i \in 0 .. NWords
    PROVE  RData[i] \in Values
<1>1. /\ ram0 \in Memories /\ lru0 \in Tables /\ rd0 \in BankRegs
      /\ ram1 \in Memories /\ lru1 \in Tables /\ rd1 \in BankRegs
  BY BankTypes DEF LineTypeOK
<1>2. Single(ram0) /\ Single(ram1)
  <2>1. \A b \in {0, 1} : Single(Ram(b))
    BY DEF NoAlias, Valid, Single
  <2> QED BY <2>1 DEF Ram
<1>3. Selected(ram0, lru0, rd0) \in WayNo /\ rd0.addr.set \in Sets
  BY <1>1, <1>2, SelectedFacts
<1>4. Selected(ram1, lru1, rd1) \in WayNo /\ rd1.addr.set \in Sets
  BY <1>1, <1>2, SelectedFacts
<1>5. Even!Out.data \in Contents /\ Odd!Out.data \in Contents
  BY <1>1, <1>3, <1>4, Lookups DEF Even!Out, Odd!Out, Memories, Entries
<1>6. i < NWords => i \in Words
  BY Bounds DEF Words
<1>7. RData[i] = IF i < NWords THEN (IF radr.odd = 0 THEN Even!Out.data ELSE Odd!Out.data)[i]
                 ELSE (IF radr.odd = 0 THEN Odd!Out.data ELSE Even!Out.data)[0]
  BY DEF RData
<1> QED BY <1>5, <1>6, <1>7, Bounds DEF Contents

\* When there is an answer, and its type.
LEMMA RspFacts ==
    ASSUME Types, NoAlias
    PROVE  /\ Rsp \in {None} \cup Answers /\ None \notin Answers
           /\ Rsp # None <=> (r.state = "CheckHit" /\ BothHit) \/ (r.state = "CheckResp" /\ Uncacheable)
           /\ r.state = "CheckHit" /\ BothHit =>
                 /\ Rsp.data[1] = RData[r.req_addr.word] /\ Rsp.data[2] = RData[r.req_addr.word + 1]
                 /\ ~Rsp.fault
           /\ r.state = "CheckResp" /\ Uncacheable =>
                 /\ Rsp.data[1] = r.cache_line_i[r.req_addr.word % 2]
                 /\ Rsp.data[2] = r.cache_line_i[(r.req_addr.word % 2) + 1]
                 /\ Rsp.fault <=> r.load_fault
<1>1. r \in Registers /\ r.req_addr \in LineAddrs /\ r.cache_line_i \in Contents /\ r.load_fault \in BOOLEAN
  BY DEF Types, Registers
<1>2. None \notin Answers
  BY NoneAssumption DEF Answers
<1>3. PICK w \in Words : w = r.req_addr.word
  BY <1>1 DEF LineAddrs
<1>4. w \in 0 .. NWords /\ w + 1 \in 0 .. NWords
  BY Bounds DEF Words
<1>5. w % 2 \in Words /\ (w % 2) + 1 \in Words
  <2>1. w % 2 \in {0, 1}
    BY Bounds
  <2> QED BY <2>1, Bounds DEF Words
<1>6. CASE r.state = "CheckHit" /\ BothHit
  <2> DEFINE x == RData[w]
             y == RData[w + 1]
  <2>1. x \in Values /\ y \in Values
    BY <1>4, RDataTypes DEF Types
  <2>2. Rsp = [data |-> <<x, y>>, addr |-> r.req_addr, fault |-> FALSE]
    BY <1>3, <1>6 DEF Rsp, Resp
  <2> HIDE DEF x, y
  <2>3. <<x, y>> \in Values \X Values
    BY <2>1
  <2>4. Rsp \in Answers
    BY <1>1, <2>2, <2>3 DEF Answers
  <2> QED BY <1>2, <1>3, <1>6, <2>2, <2>4 DEF x, y
<1>7. CASE r.state = "CheckResp" /\ Uncacheable
  <2> DEFINE x == r.cache_line_i[w % 2]
             y == r.cache_line_i[(w % 2) + 1]
  <2>1. x \in Values /\ y \in Values
    BY <1>1, <1>5 DEF Contents
  <2>2. Rsp = [data |-> <<x, y>>, addr |-> r.req_addr, fault |-> r.load_fault]
    BY <1>3, <1>7 DEF Rsp, Resp
  <2> HIDE DEF x, y
  <2>3. <<x, y>> \in Values \X Values
    BY <2>1
  <2>4. Rsp \in Answers
    BY <1>1, <2>2, <2>3 DEF Answers
  <2> QED BY <1>2, <1>3, <1>7, <2>2, <2>4 DEF x, y
<1>8. CASE ~(r.state = "CheckHit" /\ BothHit) /\ ~(r.state = "CheckResp" /\ Uncacheable)
  BY <1>2, <1>8 DEF Rsp, Resp
<1> QED BY <1>6, <1>7, <1>8

\* When a fetch is taken and when it is answered.
LEMMA AskFacts ==
    ASSUME NEW e, Do(e), Types, FetchInv, NoAlias
    PROVE  /\ Serving => f.resp_ready /\ f.state = "WaitResp" /\ asked \in Asks
           /\ ~Serving => Rsp = None /\ asked = None
           /\ Ended <=> Rsp # None
           /\ Ready <=> Taking /\ ~r.req_flush
           /\ Taken => f.req_addr \in load.pcs /\ f.req_addr \in PcSet
           /\ Taken => asked' = [addr |-> f.req_addr,
                                 ok |-> [own |-> Grown(e)[Num(f.req_addr)],
                                         nxt |-> Grown(e)[Nxt(Num(f.req_addr))]]]
           /\ ~Taken /\ (Ended \/ asked = None) => asked' = None
           /\ ~Taken /\ ~Ended /\ asked # None =>
                 asked' = [addr |-> asked.addr,
                           ok |-> [own |-> asked.ok.own \cup {NextMem(e)[Num(asked.addr)]},
                                   nxt |-> asked.ok.nxt \cup {NextMem(e)[Nxt(Num(asked.addr))]}]]
<1>1. asked # None => asked \in Asks
  BY DEF Types
<1>2. Serving => f.resp_ready /\ f.state = "WaitResp" /\ asked \in Asks
  BY <1>1 DEF FetchInv
<1>3. ~Serving => Rsp = None /\ asked = None
  BY RspFacts DEF FetchInv, Serving, Looking
<1>4. Ended <=> Rsp # None
  BY <1>2, <1>3 DEF Ended
<1>5. Ready <=> Taking /\ ~r.req_flush
  BY DEF Ready, ReqReady, ReadyNext, Taking
<1>6. Taken => f.req_addr \in load.pcs /\ f.req_addr \in PcSet
  BY LoadFacts DEF Taken, FetchInv, Types
<1>7. ~Taken /\ ~Ended /\ asked # None =>
         asked' = [asked EXCEPT
                     !.ok.own = @ \cup {NextMem(e)[Num(asked.addr)]},
                     !.ok.nxt = @ \cup {NextMem(e)[Nxt(Num(asked.addr))]}]
  BY ClockIs
<1>8. ASSUME ~Taken, ~Ended, asked # None
      PROVE  asked' = [addr |-> asked.addr,
                       ok |-> [own |-> asked.ok.own \cup {NextMem(e)[Num(asked.addr)]},
                               nxt |-> asked.ok.nxt \cup {NextMem(e)[Nxt(Num(asked.addr))]}]]
  <2> DEFINE x == NextMem(e)[Num(asked.addr)]
             y == NextMem(e)[Nxt(Num(asked.addr))]
  <2>1. asked' = [asked EXCEPT !.ok.own = @ \cup {x}, !.ok.nxt = @ \cup {y}]
    BY <1>7, <1>8
  <2>2. asked \in Asks
    BY <1>1, <1>8
  <2> HIDE DEF x, y
  <2>3. asked' = [addr |-> asked.addr, ok |-> [own |-> asked.ok.own \cup {x}, nxt |-> asked.ok.nxt \cup {y}]]
    BY <2>1, <2>2 DEF Asks
  <2> QED BY <2>3 DEF x, y
<1>9. Taken => asked' = [addr |-> f.req_addr,
                         ok |-> [own |-> Grown(e)[Num(f.req_addr)],
                                 nxt |-> Grown(e)[Nxt(Num(f.req_addr))]]]
  BY ClockIs
<1>10. ~Taken /\ (Ended \/ asked = None) => asked' = None
  BY ClockIs
<1> QED BY <1>2, <1>3, <1>4, <1>5, <1>6, <1>8, <1>9, <1>10

\* The environment keeps its types; code changes only on lines that change.
LEMMA EnvTypes ==
    ASSUME NEW e, Do(e), Types
    PROVE  /\ mem' = NextMem(e) /\ NextMem(e) \in [Lines -> Versions] /\ changes' \in Versions
           /\ \A n \in Lines : n \notin load.changing => NextMem(e)[n] = mem[n]
           /\ Grown(e) \in [Lines -> SUBSET Versions]
           /\ \A n \in Lines : Grown(e)[n] = fresh[n] \cup {NextMem(e)[n]}
           /\ fresh' \in [Lines -> SUBSET Versions]
           /\ \A n \in Lines : fresh'[n] = IF Fenced(n) THEN {NextMem(e)[n]} ELSE Grown(e)[n]
           /\ fence' \in {"none", "flushi", "line", "end"} /\ heard' \in BOOLEAN /\ halted' \in BOOLEAN
           /\ load' = load /\ load' \in Workloads
<1>1. e.change = None \/ (e.change \in Lines /\ changes + 1 \in Versions /\ e.change \in load.changing)
  <2>1. changes \in Versions /\ load.changing \subseteq Lines /\ MaxChanges \in Nat
    BY LoadFacts, FetchAssumption DEF Types
  <2>2. changes < MaxChanges => changes + 1 \in Versions
    BY <2>1 DEF Versions
  <2> QED BY <2>1, <2>2, EnvFacts
<1>2. NextMem(e) \in [Lines -> Versions]
  BY <1>1 DEF NextMem, Types
<1>3. \A n \in Lines : n \notin load.changing => NextMem(e)[n] = mem[n]
  BY <1>1 DEF NextMem, Types
<1>4. mem' = NextMem(e) /\ changes' \in Versions
  BY <1>1, ClockIs DEF Types
<1>5. Grown(e) \in [Lines -> SUBSET Versions]
      /\ \A n \in Lines : Grown(e)[n] = fresh[n] \cup {NextMem(e)[n]}
  BY <1>2 DEF Grown, Types
<1>6. fresh' = [n \in Lines |-> IF Fenced(n) THEN {NextMem(e)[n]} ELSE Grown(e)[n]]
  BY ClockIs
<1>7. fresh' \in [Lines -> SUBSET Versions]
  BY <1>2, <1>5, <1>6
<1>8. fence' \in {"none", "flushi", "line", "end"} /\ heard' \in BOOLEAN
  BY ClockIs
<1>9. halted' \in BOOLEAN
  <2>1. halted' = (IF f.progbuf_ena THEN e.halt ELSE halted \/ e.halt)
    BY ClockIs
  <2>2. e.halt \in BOOLEAN
    BY EnvFacts
  <2> QED BY <2>1, <2>2
<1>10. load' = load
  BY ClockIs
<1> QED BY <1>2, <1>3, <1>4, <1>5, <1>6, <1>7, <1>8, <1>9, <1>10 DEF Types

\* The fetch stage keeps its types, and waits while its fetch is asked.
LEMMA FetchStep ==
    ASSUME NEW e, Do(e), Types, FetchInv, NoAlias
    PROVE  /\ f' \in FetchRegs /\ f'.req_addr \in load.pcs \cup {NoPc}
           /\ f'.state = "WaitResp" => f'.resp_ready
           /\ f'.req_valid => f'.state # "Idle" /\ f'.req_addr # NoPc
           /\ Taken \/ (Serving /\ ~Ended) => f'.state = "WaitResp"
<1>1. f \in FetchRegs /\ f.req_addr \in load.pcs \cup {NoPc} /\ load.pcs \subseteq PcSet /\ load \in Workloads
  BY LoadFacts DEF Types
<1>2. NoPc \notin PcSet
  BY FetchAssumption
<1>3. f.state # "WaitResp" \/ Rsp # None => e.bp_pc \in load.pcs
  BY EnvFacts
<1>4. Rsp # None => Rsp.data \in Values \X Values /\ Rsp.addr \in LineAddrs /\ Rsp.fault \in BOOLEAN
  BY RspFacts DEF Answers
<1> DEFINE q == CASE f.state = "Idle" -> FetchIdle(Fin(e))
                  [] f.state = "WaitReqAccept" -> FetchWaitReqAccept(Fin(e))
                  [] f.state = "WaitResp" -> FetchWaitResp(Fin(e))
<1>5. /\ q \in FetchRegs /\ q.req_addr \in load.pcs \cup {NoPc}
      /\ q.state = "WaitResp" => q.resp_ready
      /\ q.req_valid => q.state # "Idle" /\ q.req_addr # NoPc
      /\ Taken \/ (Serving /\ ~Ended) => q.state = "WaitResp"
  <2>1. CASE f.state = "Idle"
    <3>1. ~Serving /\ ~Taken
      BY <2>1, AskFacts DEF FetchInv, Taken
    <3> DEFINE x == [f EXCEPT !.req_valid = FALSE, !.resp_ready = FALSE, !.progbuf_ena = FALSE]
    <3>2. x \in FetchRegs /\ x.state = "Idle" /\ x.req_valid = FALSE /\ x.req_addr = f.req_addr
      BY <1>1, <2>1 DEF FetchRegs
    <3> HIDE DEF x
    <3>3. q = IF halted THEN [x EXCEPT !.progbuf_ena = TRUE, !.pc = Buffer, !.instr = Buffer, !.fault = FALSE]
              ELSE [x EXCEPT !.state = "WaitReqAccept", !.req_addr = e.bp_pc, !.req_valid = TRUE]
      BY <2>1 DEF FetchIdle, Fin, x
    <3>4. e.bp_pc \in load.pcs /\ e.bp_pc \in PcSet /\ e.bp_pc # NoPc
      BY <1>1, <1>2, <1>3, <2>1
    <3> HIDE DEF q
    <3>5. CASE halted
      BY <1>1, <3>1, <3>2, <3>3, <3>5 DEF FetchRegs, FetchStates
    <3>6. CASE ~halted
      BY <1>1, <3>1, <3>2, <3>3, <3>4, <3>6 DEF FetchRegs, FetchStates
    <3> QED BY <3>5, <3>6
  <2>2. CASE f.state = "WaitReqAccept"
    <3>1. ~Serving /\ (Taken => Ready)
      BY <2>2, AskFacts DEF Taken
    <3> DEFINE v == ~halted
    <3>2. q = IF Ready THEN [f EXCEPT !.req_valid = v, !.req_addr = e.bp_pc,
                                      !.mem_resp_shadow = f.req_addr, !.resp_ready = TRUE,
                                      !.state = "WaitResp"]
              ELSE [f EXCEPT !.req_addr = e.bp_pc]
      BY <2>2 DEF FetchWaitReqAccept, Fin
    <3>3. e.bp_pc \in load.pcs /\ e.bp_pc \in PcSet /\ e.bp_pc # NoPc /\ v \in BOOLEAN
          /\ f.req_addr \in PcSet \cup {NoPc}
      BY <1>1, <1>2, <1>3, <2>2
    <3> HIDE DEF q, v
    <3>4. CASE Ready
      BY <1>1, <3>1, <3>2, <3>3, <3>4 DEF FetchRegs, FetchStates
    <3>5. CASE ~Ready
      BY <1>1, <2>2, <3>1, <3>2, <3>3, <3>5 DEF FetchRegs, FetchStates
    <3> QED BY <3>4, <3>5
  <2>3. CASE f.state = "WaitResp" /\ Rsp = None
    <3>1. q = f
      BY <2>3 DEF FetchWaitResp, Fin
    <3> HIDE DEF q
    <3> QED BY <1>1, <2>3, <3>1 DEF FetchInv
  <2>4. CASE f.state = "WaitResp" /\ Rsp # None
    <3> DEFINE v == ~halted
               a == Rsp.addr
               d == Rsp.data
               z == Rsp.fault
               x == [f EXCEPT !.pc = a, !.instr = d, !.fault = z, !.req_valid = v]
    <3>1. Ended /\ (Taken => Ready /\ f.req_valid) /\ f.resp_ready
      BY <2>4, AskFacts DEF Taken, FetchInv
    <3>2. a \in LineAddrs /\ d \in Values \X Values /\ z \in BOOLEAN /\ v \in BOOLEAN
      BY <1>4, <2>4
    <3> HIDE DEF a, d, z, v
    <3>3. x \in FetchRegs /\ x.state = "WaitResp" /\ x.resp_ready /\ x.req_valid = v
          /\ x.req_addr = f.req_addr
      BY <1>1, <2>4, <3>1, <3>2 DEF FetchRegs
    <3>4. q = IF f.req_valid
              THEN IF Ready
                   THEN [x EXCEPT !.req_addr = e.bp_pc, !.mem_resp_shadow = f.req_addr]
                   ELSE [x EXCEPT !.state = "WaitReqAccept"]
              ELSE IF ~halted
              THEN [x EXCEPT !.req_addr = e.bp_pc, !.state = "WaitReqAccept"]
              ELSE [x EXCEPT !.req_addr = NoPc, !.state = "Idle"]
      BY <2>4 DEF FetchWaitResp, Fin, v, a, d, z
    <3>5. e.bp_pc \in load.pcs /\ e.bp_pc \in PcSet /\ e.bp_pc # NoPc /\ f.req_addr \in PcSet \cup {NoPc}
      BY <1>1, <1>2, <1>3, <2>4
    <3>6. f.req_valid => f.req_addr # NoPc
      BY DEF FetchInv
    <3> HIDE DEF q, x
    <3>7. CASE f.req_valid /\ Ready
      BY <1>1, <3>1, <3>3, <3>4, <3>5, <3>7 DEF FetchRegs, FetchStates
    <3>8. CASE f.req_valid /\ ~Ready
      BY <1>1, <3>1, <3>3, <3>4, <3>6, <3>8 DEF FetchRegs, FetchStates
    <3>9. CASE ~f.req_valid /\ ~halted
      BY <1>1, <3>1, <3>3, <3>4, <3>5, <3>9 DEF FetchRegs, FetchStates
    <3>10. CASE ~f.req_valid /\ halted
      BY <1>1, <3>1, <3>3, <3>4, <3>5, <3>10 DEF FetchRegs, FetchStates, v
    <3> QED BY <3>7, <3>8, <3>9, <3>10
  <2>5. f.state \in FetchStates
    BY <1>1 DEF FetchRegs
  <2> HIDE DEF q
  <2> QED BY <2>1, <2>2, <2>3, <2>4, <2>5 DEF FetchStates
<1>6. f' = IF fence = "end" THEN [q EXCEPT !.req_valid = FALSE, !.pc = NoPc, !.instr = None, !.fault = FALSE]
           ELSE q
  BY ClockIs DEF FetchNext, Fin
<1> HIDE DEF q
<1>7. CASE fence = "end"
  BY <1>5, <1>6, <1>7 DEF FetchRegs
<1>8. CASE fence # "end"
  BY <1>5, <1>6, <1>8
<1> QED BY <1>7, <1>8

----------------------------------------------------------------------------
(***************************************************************************)
(* Every clock keeps the requests, and what they are about.                *)
(***************************************************************************)
\* the bus, and the fetch that is asked, after a clock
LEMMA BusFacts ==
    ASSUME NEW e, Do(e), Types, RequestInv
    PROVE  /\ r.state = "WaitGrant" /\ e.ready => bus' = [addr |-> r.mem_addr] /\ bus' # None
           /\ r.state = "WaitResp" => bus' = IF e.answer THEN None ELSE bus
           /\ ~(r.state = "WaitGrant" /\ e.ready) /\ r.state # "WaitResp" => bus' = None
           /\ bus' \in {None} \cup [addr : LineAddrs]
<1>1. /\ r.req_mem_valid /\ e.ready <=> r.state = "WaitGrant" /\ e.ready
      /\ e.answer => r.state = "WaitResp"
      /\ bus # None <=> r.state = "WaitResp"
  BY EnvFacts DEF RequestInv
<1>2. [addr |-> r.mem_addr] \in [addr : LineAddrs] /\ [addr |-> r.mem_addr] # None
  <2>1. r.mem_addr \in LineAddrs
    BY DEF Types, Registers
  <2>2. [addr |-> r.mem_addr] \in [addr : LineAddrs]
    BY <2>1
  <2> QED BY <2>2, NoneAssumption
<1>3. bus' = IF r.state = "WaitGrant" /\ e.ready THEN [addr |-> r.mem_addr]
             ELSE IF e.answer THEN None ELSE bus
  BY <1>1, ClockIs
<1> QED BY <1>1, <1>2, <1>3 DEF Types

\* Without a line on its way nothing is claimed.
LEMMA QuietStep ==
    ASSUME NEW e, Do(e), Types, RequestInv, r.state \notin {"WaitGrant", "WaitResp"},
           r'.state \in {"Idle", "FlushAddr", "FlushCheck", "Reset", "ResetWrite"},
           r'.req_mem_valid = r.req_mem_valid
    PROVE  RequestInv' /\ LoadInv' /\ FillInv' /\ ~Serving' /\ ~Looking'
<1>1. bus' = None
  BY BusFacts
<1>2. ~r'.req_mem_valid
  BY DEF RequestInv
<1> QED BY <1>1, <1>2 DEF RequestInv, LoadInv, FillInv, Serving, Looking

\* A lookup is repeated while its fetch is served.
LEMMA LookStep ==
    ASSUME NEW e, Do(e), ControlInv, Looking, ~Taking
    PROVE  /\ ~Taken /\ ~Ended /\ asked' \in Asks /\ asked' # None /\ asked'.addr = asked.addr
           /\ asked.addr \in LineAddrs /\ asked.addr \in load.pcs
           /\ r.req_addr = asked.addr /\ Looked(asked.addr)
           /\ Looked(asked.addr)'
           /\ OwnHit' <=> OwnHit
           /\ OtherHit' <=> OtherHit
           /\ \A b \in {0, 1} : Ram(b)' = Ram(b)
<1>1. Types /\ FetchInv /\ PortInv /\ RequestInv /\ NoAlias
  BY DEF ControlInv
<1>2. ~Taken /\ ~Ended /\ asked \in Asks /\ asked # None
  <2>1. Rsp = None
    BY <1>1, AskFacts, RspFacts DEF Taking, Looking, Serving
  <2> QED BY <1>1, <2>1, AskFacts DEF Taken, Serving, FetchInv
<1>3. asked' = [addr |-> asked.addr,
                ok |-> [own |-> asked.ok.own \cup {NextMem(e)[Num(asked.addr)]},
                        nxt |-> asked.ok.nxt \cup {NextMem(e)[Nxt(Num(asked.addr))]}]]
  BY <1>1, <1>2, AskFacts
<1>4. asked.addr \in LineAddrs /\ asked.addr \in load.pcs
  BY <1>1, <1>2, LoadFacts DEF Types
<1>5. asked' \in Asks
  <2>1. Num(asked.addr) \in Lines /\ Nxt(Num(asked.addr)) \in Lines
    BY <1>4, NumFacts, NxtFacts
  <2>2. NextMem(e)[Num(asked.addr)] \in Versions /\ NextMem(e)[Nxt(Num(asked.addr))] \in Versions
    BY <1>1, <2>1, EnvTypes
  <2> QED BY <1>2, <1>3, <2>2 DEF Asks
<1>6. asked' # None
  <2>1. asked' \in [addr : LineAddrs, ok : [own : SUBSET Versions, nxt : SUBSET Versions]]
    BY <1>5, Bounds DEF Asks
  <2> QED BY <2>1, NoneAssumption
<1>7. r.req_addr = asked.addr /\ Looked(asked.addr)
  BY <1>1 DEF RequestInv, PortInv
<1>8. Given = asked.addr
  BY <1>7 DEF Given
<1>9. \A b \in {0, 1} : ~Rd(b).invalidate
  BY <1>1 DEF PortInv, Looking, Rd
<1>10. ~Fills /\ ~Resetting /\ ~Flushing
  BY DEF Fills, Looking, Resetting, Flushing
<1>11. /\ radr' = asked.addr
       /\ \A b \in {0, 1} : /\ Rd(b)'.addr = BankAddr(InBank(asked.addr, b)) /\ ~Rd(b)'.direct
                            /\ Ram(b)' = Ram(b)
  BY <1>1, <1>8, <1>9, <1>10, LinesClock
<1>12. asked'.addr = asked.addr
  BY <1>3
<1>13. Looked(asked.addr)'
  BY <1>11, <1>12 DEF Looked
<1>14. \A b \in {0, 1} : HitIn(b)' <=> HitIn(b)
  BY <1>7, <1>11 DEF HitIn, Valid, Looked
<1>15. radr.odd \in {0, 1} /\ radr' = radr /\ 1 - radr.odd \in {0, 1}
  BY <1>4, <1>7, <1>11 DEF Looked, LineAddrs
<1>16. OwnHit' <=> OwnHit
  BY <1>14, <1>15 DEF OwnHit, HitIn, Valid, Ram, Rd
<1>17. OtherHit' <=> OtherHit
  BY <1>14, <1>15 DEF OtherHit, HitIn, Valid, Ram, Rd
<1> QED BY <1>2, <1>4, <1>5, <1>6, <1>7, <1>11, <1>12, <1>13, <1>16, <1>17

\* A fetch is taken.
LEMMA TakenStep ==
    ASSUME NEW e, Do(e), ControlInv, Taken
    PROVE  /\ asked' \in Asks /\ asked' # None /\ asked'.addr = f.req_addr /\ asked'.addr \in load.pcs
           /\ r'.state = "CheckHit" /\ r'.req_addr = asked'.addr /\ r'.req_addr_next = AddrNext(asked'.addr)
           /\ Looked(asked.addr)'
<1>1. Types /\ FetchInv /\ PortInv /\ NoAlias
  BY DEF ControlInv
<1>2. f.req_addr \in load.pcs /\ f.req_addr \in PcSet /\ f.req_addr \in LineAddrs /\ f.req_addr # NoPc
  BY <1>1, AskFacts, Bounds, FetchAssumption
<1>3. asked' = [addr |-> f.req_addr,
                ok |-> [own |-> Grown(e)[Num(f.req_addr)], nxt |-> Grown(e)[Nxt(Num(f.req_addr))]]]
  BY <1>1, AskFacts
<1>4. asked' \in Asks
  <2>1. Num(f.req_addr) \in Lines /\ Nxt(Num(f.req_addr)) \in Lines
    BY <1>2, NumFacts, NxtFacts
  <2>2. Grown(e)[Num(f.req_addr)] \in SUBSET Versions /\ Grown(e)[Nxt(Num(f.req_addr))] \in SUBSET Versions
    BY <1>1, <2>1, EnvTypes
  <2> QED BY <1>2, <1>3, <2>2 DEF Asks
<1>5. asked' # None
  <2>1. asked' \in [addr : LineAddrs, ok : [own : SUBSET Versions, nxt : SUBSET Versions]]
    BY <1>4, Bounds DEF Asks
  <2> QED BY <2>1, NoneAssumption
<1>6. asked'.addr = f.req_addr
  BY <1>3
<1>7. Taking
  BY DEF Taken
<1>8. r'.state = "CheckHit" /\ r'.req_addr = f.req_addr /\ r'.req_addr_next = AddrNext(f.req_addr)
  BY <1>1, <1>7, TakingFacts
<1>9. Given = f.req_addr
  BY <1>2 DEF Given, Taken, OnBus
<1>10. ~Resetting /\ ~Flushing
  BY <1>7 DEF Taking, Resetting, Flushing
<1>11. radr' = f.req_addr
       /\ \A b \in {0, 1} : Rd(b)'.addr = BankAddr(InBank(f.req_addr, b)) /\ ~Rd(b)'.direct
  BY <1>1, <1>9, <1>10, LinesClock
<1>12. Looked(asked.addr)'
  BY <1>6, <1>11 DEF Looked
<1> QED BY <1>2, <1>4, <1>5, <1>6, <1>8, <1>12

\* The fetch that is asked stays until it is answered.
LEMMA AskedKept ==
    ASSUME NEW e, Do(e), Types, FetchInv, NoAlias, ~Taken, ~Ended, asked # None
    PROVE  asked' \in Asks /\ asked' # None /\ asked'.addr = asked.addr
           /\ asked.addr \in LineAddrs /\ asked.addr \in load.pcs /\ asked \in Asks
<1>1. asked' = [addr |-> asked.addr,
                ok |-> [own |-> asked.ok.own \cup {NextMem(e)[Num(asked.addr)]},
                        nxt |-> asked.ok.nxt \cup {NextMem(e)[Nxt(Num(asked.addr))]}]]
  BY AskFacts
<1>2. asked.addr \in LineAddrs /\ asked.addr \in load.pcs /\ asked \in Asks
  BY LoadFacts DEF Types
<1>3. asked' \in Asks
  <2>1. Num(asked.addr) \in Lines /\ Nxt(Num(asked.addr)) \in Lines
    BY <1>2, NumFacts, NxtFacts
  <2>2. NextMem(e)[Num(asked.addr)] \in Versions /\ NextMem(e)[Nxt(Num(asked.addr))] \in Versions
    BY <2>1, EnvTypes
  <2> QED BY <1>1, <1>2, <2>2 DEF Asks
<1>4. asked' # None
  <2>1. asked' \in [addr : LineAddrs, ok : [own : SUBSET Versions, nxt : SUBSET Versions]]
    BY <1>3, Bounds DEF Asks
  <2> QED BY <2>1, NoneAssumption
<1> QED BY <1>1, <1>2, <1>3, <1>4

\* the banks show the fetch
LookedInv == Looking \/ r.state = "CheckResp" => Looked(asked.addr)
AskedType == asked \in {None} \cup Asks /\ (asked # None => asked.addr \in load.pcs)

\* what the clock of a state has to keep of the requests
Requests == /\ AskedType /\ (asked # None <=> Serving)
            /\ LookedInv /\ RequestInv /\ LoadInv /\ FillInv

\* New work, or none.
LEMMA TakingStep ==
    ASSUME NEW e, Do(e), ControlInv, Taking
    PROVE  Requests'
<1>1. Types /\ FetchInv /\ RequestInv /\ NoAlias
  BY DEF ControlInv
<1>2. r'.req_mem_valid = r.req_mem_valid /\ ~r.req_mem_valid /\ r.state \notin {"WaitGrant", "WaitResp"}
  BY <1>1, TakingFacts DEF RequestInv, Taking
<1>3. CASE Taken
  <2>1. /\ asked' \in Asks /\ asked' # None /\ asked'.addr \in load.pcs
        /\ r'.state = "CheckHit" /\ r'.req_addr = asked'.addr /\ r'.req_addr_next = AddrNext(asked'.addr)
        /\ Looked(asked.addr)'
    BY <1>3, TakenStep
  <2>2. bus' = None
    BY <1>1, <1>2, BusFacts
  <2>3. load' = load
    BY ClockIs
  <2>4. RequestInv'
    BY <1>2, <2>1, <2>2 DEF RequestInv, Looking, Serving
  <2> QED BY <2>1, <2>3, <2>4 DEF Requests, AskedType, LookedInv, LoadInv, FillInv, Looking, Serving
<1>4. CASE ~Taken
  <2>1. r'.state \in {"FlushAddr", "Idle"}
    BY <1>1, <1>4, TakingFacts DEF Taken
  <2>2. RequestInv' /\ LoadInv' /\ FillInv' /\ ~Serving' /\ ~Looking'
    BY <1>1, <1>2, <2>1, QuietStep
  <2>3. asked' = None
    <3>1. r.state = "CheckHit" => Ended
      BY <1>1, AskFacts, RspFacts DEF Taking
    <3>2. r.state = "Idle" => asked = None
      BY <1>1 DEF FetchInv, Serving, Looking
    <3> QED BY <1>1, <1>4, <3>1, <3>2, AskFacts DEF Taking
  <2> QED BY <2>1, <2>2, <2>3 DEF Requests, AskedType, LookedInv
<1> QED BY <1>3, <1>4

\* State_CheckHit without a hit.
LEMMA CheckHitStep ==
    ASSUME NEW e, Do(e), ControlInv, r.state = "CheckHit", ~Taking
    PROVE  Requests'
<1>1. Types /\ FetchInv /\ RequestInv /\ NoAlias /\ Looking /\ r \in Registers /\ f.resp_ready
  BY DEF ControlInv, Looking, FetchInv, Serving, Types
<1>2. /\ asked' \in Asks /\ asked' # None /\ asked'.addr = asked.addr
      /\ asked.addr \in LineAddrs /\ asked.addr \in load.pcs
      /\ r.req_addr = asked.addr /\ Looked(asked.addr)
      /\ Looked(asked.addr)'
      /\ OwnHit' <=> OwnHit
      /\ OtherHit' <=> OtherHit
  BY <1>1, LookStep
<1>3. KeepReq /\ ~BothHit /\ r'.state = "TranslateAddress" /\ r'.req_mem_valid = r.req_mem_valid
  BY <1>1, CheckHitRegs
<1>4. bus' = None /\ load' = load
  BY <1>1, BusFacts, ClockIs
<1>5. ~(OwnHit /\ (Overlay(asked.addr) => OtherHit))
  <2>1. /\ LineHit <=> OwnHit
        /\ HitNext <=> IF Overlay(asked.addr) THEN OtherHit ELSE OwnHit
    BY <1>1, <1>2, ShownFacts DEF Types
  <2> QED BY <1>3, <2>1 DEF BothHit
<1>6. RequestInv'
  <2>1. r'.req_addr = asked'.addr /\ r'.req_addr_next = AddrNext(asked'.addr)
    BY <1>1, <1>2, <1>3 DEF RequestInv, KeepReq, Serving
  <2>2. ~r'.req_mem_valid
    BY <1>1, <1>3 DEF RequestInv
  <2> QED BY <1>2, <1>3, <1>4, <1>5, <2>1, <2>2 DEF RequestInv
<1> QED BY <1>2, <1>3, <1>4, <1>6 DEF Requests, AskedType, LookedInv, LoadInv, FillInv, Looking, Serving

\* State_TranslateAddress.
LEMMA TranslateStep ==
    ASSUME NEW e, Do(e), ControlInv, r.state = "TranslateAddress"
    PROVE  Requests'
<1>1. Types /\ FetchInv /\ RequestInv /\ NoAlias /\ Looking /\ r \in Registers /\ ~Taking
  BY DEF ControlInv, Looking, Types, Taking
<1>2. /\ asked' \in Asks /\ asked' # None /\ asked'.addr = asked.addr
      /\ asked.addr \in LineAddrs /\ asked.addr \in load.pcs
      /\ r.req_addr = asked.addr /\ Looked(asked.addr)
      /\ Looked(asked.addr)'
      /\ OwnHit' <=> OwnHit
      /\ OtherHit' <=> OtherHit
  BY <1>1, LookStep
<1>3. bus' = None /\ load' = load
  BY <1>1, BusFacts, ClockIs
<1>4. r.req_addr_next = AddrNext(asked.addr) /\ ~r.req_mem_valid
      /\ ~(OwnHit /\ (Overlay(asked.addr) => OtherHit))
  BY <1>1 DEF RequestInv, Serving
<1>5. CASE Num(r.req_addr) \in load.refused
  <2>1. KeepReq /\ r'.state = "CheckResp" /\ r'.req_mem_valid = r.req_mem_valid /\ r'.load_fault = TRUE
    BY <1>1, <1>5, RefusedRegs
  <2>2. RequestInv'
    BY <1>2, <1>3, <1>4, <2>1 DEF RequestInv, KeepReq, Serving, Looking
  <2>3. FillInv'
    BY <1>2, <1>3, <1>5, <2>1 DEF FillInv, Uncacheable
  <2> QED BY <1>2, <1>3, <2>1, <2>2, <2>3 DEF Requests, AskedType, LookedInv, LoadInv, Looking, Serving
<1>6. CASE Num(r.req_addr) \notin load.refused
  <2>1. /\ KeepReq /\ r'.state = "WaitGrant" /\ r'.req_mem_valid = TRUE /\ r'.load_fault = FALSE
        /\ ~r'.cached => r'.write_addr = r.req_addr /\ r'.mem_addr = DWordOf(r.req_addr)
        /\ r'.cached => /\ r'.write_addr = IF LineHit THEN r.req_addr_next ELSE r.req_addr
                        /\ r'.mem_addr = LineOf(r'.write_addr)
    BY <1>1, <1>6, RequestRegs
  <2>2. RequestInv'
    BY <1>2, <1>3, <1>4, <2>1 DEF RequestInv, KeepReq, Serving, Looking
  <2>3. LineHit <=> OwnHit
    BY <1>1, <1>2, ShownFacts DEF Types
  <2>4. r'.cached => Missed(r.write_addr)'
    BY <1>2, <1>4, <2>1, <2>3 DEF Missed
  <2>5. LoadInv'
    BY <1>2, <1>3, <1>6, <2>1, <2>4 DEF LoadInv
  <2> QED BY <1>2, <1>3, <2>1, <2>2, <2>5 DEF Requests, AskedType, LookedInv, FillInv, Looking, Serving
<1> QED BY <1>5, <1>6

\* State_WaitGrant.
LEMMA WaitGrantStep ==
    ASSUME NEW e, Do(e), ControlInv, r.state = "WaitGrant"
    PROVE  Requests'
<1>1. Types /\ FetchInv /\ RequestInv /\ LoadInv /\ NoAlias /\ Looking /\ r \in Registers /\ ~Taking
  BY DEF ControlInv, Looking, Types, Taking
<1>2. /\ asked' \in Asks /\ asked' # None /\ asked'.addr = asked.addr
      /\ asked.addr \in LineAddrs /\ asked.addr \in load.pcs
      /\ r.req_addr = asked.addr
      /\ Looked(asked.addr)'
      /\ OwnHit' <=> OwnHit
      /\ OtherHit' <=> OtherHit
  BY <1>1, LookStep
<1>3. /\ load' = load
      /\ e.ready => bus' = [addr |-> r.mem_addr] /\ bus' # None
      /\ ~e.ready => bus' = None
  BY <1>1, BusFacts, ClockIs
<1>4. r.req_addr_next = AddrNext(asked.addr) /\ r.req_mem_valid
  BY <1>1 DEF RequestInv, Serving
<1>5. /\ KeepReq /\ KeepLoad
      /\ e.ready => r'.state = "WaitResp" /\ r'.req_mem_valid = FALSE
      /\ ~e.ready => r'.state = "WaitGrant" /\ r'.req_mem_valid = r.req_mem_valid
  BY <1>1, WaitGrantRegs
<1>6. RequestInv'
  <2>1. r'.req_addr = r.req_addr /\ r'.req_addr_next = r.req_addr_next /\ r'.mem_addr = r.mem_addr
    BY <1>5 DEF KeepReq, KeepLoad
  <2>2. CASE e.ready
    <3>1. bus'.addr = r.mem_addr
      BY <1>3, <2>2
    <3> QED BY <1>2, <1>3, <1>4, <1>5, <2>1, <2>2, <3>1 DEF RequestInv, Serving, Looking
  <2>3. CASE ~e.ready
    BY <1>2, <1>3, <1>4, <1>5, <2>1, <2>3 DEF RequestInv, Serving, Looking
  <2> QED BY <2>2, <2>3
<1>7. \A a : Missed(a) => (a = asked'.addr /\ ~OwnHit')
                          \/ (a = AddrNext(asked'.addr) /\ Overlay(asked'.addr) /\ ~OtherHit')
  BY <1>2 DEF Missed
<1>8. LoadInv'
  <2>1. r'.cached => Missed(r.write_addr)'
    BY <1>1, <1>5, <1>7 DEF LoadInv, KeepLoad, Missed
  <2> QED BY <1>1, <1>2, <1>3, <1>5, <2>1 DEF LoadInv, KeepLoad
<1> QED BY <1>2, <1>3, <1>5, <1>6, <1>8 DEF Requests, AskedType, LookedInv, FillInv, Looking, Serving

\* State_WaitResp.
LEMMA WaitRespStep ==
    ASSUME NEW e, Do(e), ControlInv, r.state = "WaitResp"
    PROVE  Requests'
<1>1. Types /\ FetchInv /\ RequestInv /\ LoadInv /\ NoAlias /\ Looking /\ r \in Registers /\ ~Taking
  BY DEF ControlInv, Looking, Types, Taking
<1>2. /\ asked' \in Asks /\ asked' # None /\ asked'.addr = asked.addr
      /\ asked.addr \in LineAddrs /\ asked.addr \in load.pcs
      /\ r.req_addr = asked.addr
      /\ Looked(asked.addr)'
      /\ OwnHit' <=> OwnHit
      /\ OtherHit' <=> OtherHit
  BY <1>1, LookStep
<1>3. /\ load' = load /\ bus' = (IF e.answer THEN None ELSE bus) /\ e.answer \in BOOLEAN
  BY <1>1, BusFacts, ClockIs, EnvFacts
<1>4. r.req_addr_next = AddrNext(asked.addr) /\ ~r.req_mem_valid /\ bus # None /\ bus.addr = r.mem_addr
  BY <1>1 DEF RequestInv, Serving
<1>5. /\ r'.req_mem_valid = r.req_mem_valid
      /\ r'.req_addr_next = r.req_addr_next /\ r'.cached = r.cached
      /\ ~e.answer => r'.state = "WaitResp" /\ KeepReq /\ KeepLoad
      /\ e.answer => /\ r'.state = "CheckResp"
                     /\ r'.write_addr = r.req_addr /\ r'.req_addr = r.write_addr
                     /\ r'.load_fault <=> r.load_fault \/ Num(bus.addr) \in load.faulty
  BY <1>1, WaitRespRegs
<1>6. RequestInv'
  <2>1. CASE e.answer
    BY <1>2, <1>3, <1>4, <1>5, <2>1 DEF RequestInv, Serving, Looking
  <2>2. CASE ~e.answer
    <3>1. bus' = bus /\ r'.req_addr = r.req_addr /\ r'.mem_addr = r.mem_addr
      BY <1>3, <1>5, <2>2 DEF KeepReq, KeepLoad
    <3> QED BY <1>2, <1>4, <1>5, <2>2, <3>1 DEF RequestInv, Serving, Looking
  <2> QED BY <1>3, <2>1, <2>2
<1>7. \A a : Missed(a) => (a = asked'.addr /\ ~OwnHit')
                          \/ (a = AddrNext(asked'.addr) /\ Overlay(asked'.addr) /\ ~OtherHit')
  BY <1>2 DEF Missed
<1>8. CASE ~e.answer
  <2>1. r'.cached => Missed(r.write_addr)'
    BY <1>1, <1>5, <1>7, <1>8 DEF LoadInv, KeepLoad, Missed
  <2>2. LoadInv'
    BY <1>1, <1>2, <1>3, <1>5, <1>8, <2>1 DEF LoadInv, KeepLoad
  <2> QED BY <1>2, <1>3, <1>5, <1>6, <1>8, <2>2 DEF Requests, AskedType, LookedInv, FillInv, Looking, Serving
<1>9. CASE e.answer
  <2>1. ~r.load_fault /\ Num(asked.addr) \notin load.refused
    BY <1>1 DEF LoadInv
  <2>2. r.cached => Missed(r.write_addr) /\ Num(bus.addr) = Num(r.write_addr)
    <3>1. r.write_addr \in LineAddrs
      BY <1>1 DEF Registers
    <3> QED BY <1>1, <1>4, <3>1, LineOfFacts DEF LoadInv
  <2>3. ~r.cached => r.write_addr = asked.addr /\ Num(bus.addr) = Num(asked.addr)
    BY <1>1, <1>2, <1>4, LineOfFacts DEF LoadInv
  <2>4. Missed(r.write_addr) => r.write_addr = asked.addr
                                \/ (Overlay(asked.addr) /\ Num(r.write_addr) = Nxt(Num(asked.addr)))
    BY <1>2, NumFacts DEF Missed
  <2>5. r'.cached => Missed(r.req_addr)'
    BY <1>5, <1>7, <1>9, <2>2 DEF Missed
  <2>6. r'.load_fault => \/ Num(asked.addr) \in load.refused \cup load.faulty
                         \/ Overlay(asked.addr) /\ Nxt(Num(asked.addr)) \in load.faulty
    BY <1>5, <1>9, <2>1, <2>2, <2>3, <2>4
  <2>7. FillInv'
    BY <1>2, <1>3, <1>5, <1>9, <2>1, <2>2, <2>3, <2>5, <2>6 DEF FillInv, Uncacheable
  <2> QED BY <1>2, <1>3, <1>5, <1>6, <1>9, <2>7 DEF Requests, AskedType, LookedInv, LoadInv, Looking, Serving
<1> QED BY <1>3, <1>8, <1>9

\* State_CheckResp.
LEMMA CheckRespStep ==
    ASSUME NEW e, Do(e), ControlInv, r.state = "CheckResp"
    PROVE  Requests'
<1>1. Types /\ FetchInv /\ RequestInv /\ FillInv /\ NoAlias /\ Serving /\ r \in Registers /\ f.resp_ready
      /\ ~Taking /\ ~Taken /\ asked # None
  BY DEF ControlInv, Serving, Types, FetchInv, Taking, Taken
<1>2. /\ r'.req_mem_valid = r.req_mem_valid
      /\ r'.req_addr = r.write_addr /\ r'.req_addr_next = r.req_addr_next
      /\ r'.state = IF Uncacheable THEN "Idle" ELSE "SetupReadAdr"
  BY <1>1, CheckRespRegs
<1>3. CASE Uncacheable
  <2>1. RequestInv' /\ LoadInv' /\ FillInv' /\ ~Serving' /\ ~Looking'
    BY <1>1, <1>2, <1>3, QuietStep
  <2>2. asked' = None
    BY <1>1, <1>3, AskFacts, RspFacts
  <2> QED BY <1>2, <1>3, <2>1, <2>2 DEF Requests, AskedType, LookedInv
<1>4. CASE ~Uncacheable
  <2>1. ~Ended
    BY <1>1, <1>4, AskFacts, RspFacts
  <2>2. asked' \in Asks /\ asked' # None /\ asked'.addr = asked.addr /\ asked.addr \in load.pcs
    BY <1>1, <2>1, AskedKept
  <2>3. bus' = None /\ load' = load
    BY <1>1, BusFacts, ClockIs
  <2>4. r.write_addr = asked.addr /\ r.req_addr_next = AddrNext(asked.addr) /\ ~r.req_mem_valid
    BY <1>1, <1>4 DEF FillInv, RequestInv
  <2>5. RequestInv'
    BY <1>2, <1>4, <2>2, <2>3, <2>4 DEF RequestInv, Looking, Serving
  <2> QED BY <1>2, <1>4, <2>2, <2>3, <2>5 DEF Requests, AskedType, LookedInv, LoadInv, FillInv, Looking, Serving
<1> QED BY <1>3, <1>4

\* State_SetupReadAdr.
LEMMA SetupStep ==
    ASSUME NEW e, Do(e), ControlInv, r.state = "SetupReadAdr"
    PROVE  Requests'
<1>1. Types /\ FetchInv /\ RequestInv /\ NoAlias /\ Serving /\ r \in Registers
      /\ ~Taking /\ ~Taken /\ asked # None
  BY DEF ControlInv, Serving, Types, FetchInv, Taking, Taken
<1>2. KeepReq /\ r'.req_mem_valid = r.req_mem_valid /\ r'.state = "CheckHit"
  BY <1>1, SetupRegs
<1>3. ~Ended
  BY <1>1, AskFacts, RspFacts
<1>4. asked' \in Asks /\ asked' # None /\ asked'.addr = asked.addr /\ asked.addr \in load.pcs
  BY <1>1, <1>3, AskedKept
<1>5. bus' = None /\ load' = load
  BY <1>1, BusFacts, ClockIs
<1>6. r.req_addr = asked.addr /\ r.req_addr_next = AddrNext(asked.addr) /\ ~r.req_mem_valid
  BY <1>1 DEF RequestInv
<1>7. RequestInv'
  BY <1>2, <1>4, <1>5, <1>6 DEF RequestInv, KeepReq, Looking, Serving
<1>8. Looked(asked.addr)'
  <2>1. Given = asked.addr /\ ~Resetting /\ ~Flushing
    BY <1>1, <1>6 DEF Given, Resetting, Flushing
  <2>2. radr' = asked.addr
        /\ \A b \in {0, 1} : Rd(b)'.addr = BankAddr(InBank(asked.addr, b)) /\ ~Rd(b)'.direct
    BY <1>1, <2>1, LinesClock
  <2> QED BY <1>4, <2>2 DEF Looked
<1> QED BY <1>2, <1>4, <1>5, <1>7, <1>8 DEF Requests, AskedType, LookedInv, LoadInv, FillInv, Looking, Serving

\* The states of reset and flush.
LEMMA SweepStep ==
    ASSUME NEW e, Do(e), ControlInv, Resetting \/ Flushing
    PROVE  Requests'
<1>1. Types /\ FetchInv /\ RequestInv /\ NoAlias /\ ~Serving /\ r \in Registers /\ ~Taken /\ asked = None
      /\ r.state \notin {"WaitGrant", "WaitResp"}
  BY DEF ControlInv, Serving, Looking, Types, FetchInv, Taking, Taken, Resetting, Flushing
<1>2. r'.req_mem_valid = r.req_mem_valid
      /\ r'.state \in {"Idle", "FlushAddr", "FlushCheck", "Reset", "ResetWrite"}
  <2>1. CASE Resetting
    BY <1>1, <2>1, ResetRegs
  <2>2. CASE r.state = "FlushAddr"
    BY <1>1, <2>2, FlushAddrRegs
  <2>3. CASE r.state = "FlushCheck"
    BY <1>1, <2>3, FlushCheckRegs
  <2> QED BY <2>1, <2>2, <2>3 DEF Flushing
<1>3. RequestInv' /\ LoadInv' /\ FillInv' /\ ~Serving' /\ ~Looking'
  BY <1>1, <1>2, QuietStep
<1>4. asked' = None
  BY <1>1, AskFacts
<1> QED BY <1>2, <1>3, <1>4 DEF Requests, AskedType, LookedInv

\* Every clock.
LEMMA RequestsStep ==
    ASSUME NEW e, Do(e), ControlInv
    PROVE  Requests'
<1>1. r.state \in States
  BY DEF ControlInv, Types, Registers
<1>2. r.state = "Idle" => Taking
  BY DEF Taking
<1> QED BY <1>1, <1>2, TakingStep, CheckHitStep, TranslateStep, WaitGrantStep, WaitRespStep, CheckRespStep,
           SetupStep, SweepStep DEF States, Resetting, Flushing

----------------------------------------------------------------------------
(***************************************************************************)
(* The registers, the fetch stage and the banks after a clock.             *)
(***************************************************************************)
\* The registers of the cache are typed, whatever its state.
LEMMA RegsStep ==
    ASSUME NEW e, Do(e), ControlInv
    PROVE  r' \in Registers /\ FlushRegs
<1>1. Types /\ FetchInv /\ r \in Registers /\ r.state \in States
  BY DEF ControlInv, Types, Registers
<1>2. f.resp_ready \/ ~Serving
  BY <1>1 DEF FetchInv
<1>3. CASE Taking
  BY <1>1, <1>3, TakingFacts
<1>4. CASE r.state = "CheckHit" /\ ~Taking
  BY <1>1, <1>2, <1>4, CheckHitRegs DEF Serving, Looking
<1>5. CASE r.state = "TranslateAddress"
  BY <1>1, <1>5, RefusedRegs, RequestRegs
<1>6. CASE r.state = "WaitGrant"
  BY <1>1, <1>6, WaitGrantRegs
<1>7. CASE r.state = "WaitResp"
  BY <1>1, <1>7, WaitRespRegs
<1>8. CASE r.state = "CheckResp"
  BY <1>1, <1>2, <1>8, CheckRespRegs DEF Serving
<1>9. CASE r.state = "SetupReadAdr"
  BY <1>1, <1>9, SetupRegs
<1>10. CASE r.state = "FlushAddr"
  BY <1>1, <1>10, FlushAddrRegs
<1>11. CASE r.state = "FlushCheck"
  BY <1>1, <1>11, FlushCheckRegs
<1>12. CASE Resetting
  BY <1>1, <1>12, ResetRegs
<1>13. r.state = "Idle" => Taking
  BY DEF Taking
<1> QED BY <1>1, <1>3, <1>4, <1>5, <1>6, <1>7, <1>8, <1>9, <1>10, <1>11, <1>12, <1>13
        DEF States, Resetting

\* Every register keeps its type.
LEMMA TypesStep ==
    ASSUME NEW e, Do(e), ControlInv
    PROVE  Types'
<1>1. Types /\ FetchInv /\ RequestInv /\ NoAlias
  BY DEF ControlInv
<1>2. r' \in Registers
  BY RegsStep
<1>3. LineTypeOK'
  BY <1>1, LinesClock
<1>4. f' \in FetchRegs /\ f'.req_addr \in load.pcs \cup {NoPc}
  BY <1>1, FetchStep
<1>5. AskedType'
  BY RequestsStep DEF Requests
<1>6. bus' \in {None} \cup [addr : LineAddrs]
  BY <1>1, BusFacts
<1>7. /\ mem' \in [Lines -> Versions] /\ changes' \in Versions
      /\ fresh' \in [Lines -> SUBSET Versions]
      /\ fence' \in {"none", "flushi", "line", "end"} /\ heard' \in BOOLEAN /\ halted' \in BOOLEAN
      /\ load' = load /\ load' \in Workloads
  BY <1>1, EnvTypes
<1> QED BY <1>2, <1>3, <1>4, <1>5, <1>6, <1>7 DEF Types, AskedType

\* The fetch stage waits for the fetch that is served.
LEMMA FetchInvStep ==
    ASSUME NEW e, Do(e), ControlInv
    PROVE  FetchInv'
<1>1. Types /\ FetchInv /\ NoAlias
  BY DEF ControlInv
<1>2. (asked # None <=> Serving)'
  BY RequestsStep DEF Requests
<1>3. /\ f'.state = "WaitResp" => f'.resp_ready
      /\ f'.req_valid => f'.state # "Idle" /\ f'.req_addr # NoPc
      /\ Taken \/ (Serving /\ ~Ended) => f'.state = "WaitResp"
  BY <1>1, FetchStep
<1>4. asked' # None => Taken \/ (Serving /\ ~Ended)
  <2>1. CASE ~Taken /\ (Ended \/ asked = None)
    BY <1>1, <2>1, AskFacts
  <2> QED BY <1>1, <2>1 DEF FetchInv
<1> QED BY <1>2, <1>3, <1>4 DEF FetchInv

\* The banks show the fetch; only a reset and a flush invalidate.
LEMMA PortStep ==
    ASSUME NEW e, Do(e), ControlInv
    PROVE  PortInv'
<1>1. Types /\ NoAlias /\ r \in Registers
  BY DEF ControlInv, Types
<1>2. LookedInv'
  BY RequestsStep DEF Requests
<1>3. \A b \in {0, 1} : Rd(b)'.invalidate => r.state \in {"FlushAddr", "Reset"}
  BY <1>1, LinesClock
<1>4. rd0'.invalidate \/ rd1'.invalidate => r.state \in {"FlushAddr", "Reset"}
  BY <1>3 DEF Rd
<1>5. r.state = "FlushAddr" => r'.state = "FlushCheck"
  BY <1>1, FlushAddrRegs
<1>6. r.state = "Reset" => r'.state = "ResetWrite"
  BY <1>1, ResetRegs DEF Resetting
<1> QED BY <1>2, <1>4, <1>5, <1>6 DEF PortInv, LookedInv

\* No way holds a line that is missing.
LEMMA MissedFacts ==
    ASSUME Types, asked # None, Looked(asked.addr), NEW a, Missed(a)
    PROVE  /\ a \in LineAddrs /\ a.odd \in {0, 1} /\ a.set \in Sets
           /\ \A w \in WayNo : ~(Valid(a.odd, a.set, w) /\ Ram(a.odd)[a.set][w].tag = a.tag)
<1>1. asked.addr \in LineAddrs
  BY LoadFacts DEF Types
<1>2. asked.addr.odd \in {0, 1} /\ AddrNext(asked.addr) \in LineAddrs
      /\ AddrNext(asked.addr).odd = 1 - asked.addr.odd /\ radr.odd = asked.addr.odd
  BY <1>1, NumFacts DEF LineAddrs, Looked
<1>3. a = InBank(asked.addr, a.odd) /\ a \in LineAddrs /\ ~HitIn(a.odd)
  <2>1. CASE a = asked.addr /\ ~OwnHit
    BY <1>1, <1>2, <2>1 DEF InBank, OwnHit
  <2>2. CASE a = AddrNext(asked.addr) /\ ~OtherHit
    <3>1. asked.addr.odd # a.odd
      BY <1>2, <2>2
    <3> QED BY <1>2, <2>2, <3>1 DEF InBank, OtherHit
  <2> QED BY <2>1, <2>2 DEF Missed
<1>4. a.odd \in {0, 1} /\ a.set \in Sets
  BY <1>3 DEF LineAddrs
<1>5. Rd(a.odd).addr = BankAddr(a)
  BY <1>3, <1>4 DEF Looked
<1>6. Rd(a.odd).addr.set = a.set /\ Rd(a.odd).addr.tag = a.tag
  BY <1>5 DEF BankAddr
<1> QED BY <1>3, <1>4, <1>6 DEF HitIn, Valid

\* What a bank holds after a clock: what it held, or the line that was missing.
LEMMA BankStep ==
    ASSUME NEW e, Do(e), ControlInv, NEW b \in {0, 1}
    PROVE  \/ Ram(b)' = Ram(b) /\ ~Rd(b).invalidate /\ ~(Fills /\ r.req_addr.odd = b)
           \/ Emptied(Ram(b), Ram(b)') /\ Rd(b).invalidate /\ r.state \in {"FlushCheck", "ResetWrite"}
           \/ /\ Fills /\ r.req_addr.odd = b /\ r.req_addr \in LineAddrs
              /\ \A w \in WayNo : ~(Valid(b, r.req_addr.set, w)
                                     /\ Ram(b)[r.req_addr.set][w].tag = r.req_addr.tag)
              /\ \E h \in WayNo : \A s \in Sets, w \in WayNo :
                    Ram(b)'[s][w] = IF s = r.req_addr.set /\ w = h
                                    THEN [tag |-> r.req_addr.tag, flags |-> {"VALID"}, data |-> r.cache_line_i]
                                    ELSE Ram(b)[s][w]
<1>1. Types /\ FetchInv /\ PortInv /\ FillInv /\ NoAlias
  BY DEF ControlInv
<1>2. Rd(b).invalidate => r.state \in {"FlushCheck", "ResetWrite"}
  BY <1>1 DEF PortInv, Rd
<1>3. Fills => Given = r.req_addr /\ ~Rd(b).invalidate
  BY <1>2 DEF Fills, Given, Taking
<1>4. CASE Rd(b).invalidate
  BY <1>1, <1>2, <1>4, LinesClock
<1>5. CASE ~Rd(b).invalidate /\ ~(Fills /\ r.req_addr.odd = b)
  <2>1. ~(Fills /\ Given.odd = b)
    BY <1>3, <1>5
  <2> QED BY <1>1, <1>5, <2>1, LinesClock
<1>6. CASE Fills /\ r.req_addr.odd = b
  <2>1. Missed(r.req_addr) /\ asked # None /\ Looked(asked.addr)
    BY <1>1, <1>6 DEF Fills, FillInv, FetchInv, Serving, PortInv
  <2>2. /\ r.req_addr \in LineAddrs
        /\ \A w \in WayNo : ~(Valid(b, r.req_addr.set, w)
                               /\ Ram(b)[r.req_addr.set][w].tag = r.req_addr.tag)
    BY <1>1, <1>6, <2>1, MissedFacts
  <2>3. \E h \in WayNo : \A s \in Sets, w \in WayNo :
           Ram(b)'[s][w] = IF s = r.req_addr.set /\ w = h
                           THEN [tag |-> r.req_addr.tag, flags |-> {"VALID"}, data |-> r.cache_line_i]
                           ELSE Ram(b)[s][w]
    <3>1. Given = r.req_addr /\ ~Rd(b).invalidate /\ Given.odd = b /\ Fills
      BY <1>3, <1>6
    <3>2. \E h \in WayNo : \A s \in Sets, w \in WayNo :
             Ram(b)'[s][w] = IF s = Given.set /\ w = h
                             THEN [tag |-> Given.tag, flags |-> {"VALID"}, data |-> r.cache_line_i]
                             ELSE Ram(b)[s][w]
      BY <1>1, <3>1, LinesClock
    <3> HIDE DEF Given
    <3> QED BY <3>1, <3>2
  <2> QED BY <1>6, <2>2, <2>3
<1> QED BY <1>4, <1>5, <1>6

\* A line stays in one way of its set only.
LEMMA AliasStep ==
    ASSUME NEW e, Do(e), ControlInv
    PROVE  NoAlias'
<1>1. NoAlias
  BY DEF ControlInv
<1> SUFFICES ASSUME NEW b \in {0, 1}, NEW s \in Sets, NEW v \in WayNo, NEW w \in WayNo,
                    "VALID" \in Ram(b)'[s][v].flags, "VALID" \in Ram(b)'[s][w].flags,
                    Ram(b)'[s][v].tag = Ram(b)'[s][w].tag
             PROVE  v = w
  BY DEF NoAlias, Valid
<1>2. CASE Ram(b)' = Ram(b)
  BY <1>1, <1>2 DEF NoAlias, Valid
<1>3. CASE Emptied(Ram(b), Ram(b)')
  BY <1>1, <1>3 DEF NoAlias, Valid, Emptied
<1>4. CASE /\ \A x \in WayNo : ~(Valid(b, r.req_addr.set, x)
                               /\ Ram(b)[r.req_addr.set][x].tag = r.req_addr.tag)
           /\ \E h \in WayNo : \A t \in Sets, x \in WayNo :
                    Ram(b)'[t][x] = IF t = r.req_addr.set /\ x = h
                                    THEN [tag |-> r.req_addr.tag, flags |-> {"VALID"}, data |-> r.cache_line_i]
                                    ELSE Ram(b)[t][x]
  <2>1. PICK h \in WayNo : \A t \in Sets, x \in WayNo :
                    Ram(b)'[t][x] = IF t = r.req_addr.set /\ x = h
                                    THEN [tag |-> r.req_addr.tag, flags |-> {"VALID"}, data |-> r.cache_line_i]
                                    ELSE Ram(b)[t][x]
    BY <1>4
  <2>2. CASE s = r.req_addr.set /\ v = h /\ w # h
    BY <1>4, <2>1, <2>2 DEF Valid
  <2>3. CASE s = r.req_addr.set /\ w = h /\ v # h
    BY <1>4, <2>1, <2>3 DEF Valid
  <2>4. CASE s # r.req_addr.set \/ (v # h /\ w # h)
    BY <1>1, <2>1, <2>4 DEF NoAlias, Valid
  <2> QED BY <2>2, <2>3, <2>4
<1> QED BY <1>2, <1>3, <1>4, BankStep

----------------------------------------------------------------------------
(***************************************************************************)
(* Flush and reset.                                                        *)
(***************************************************************************)
\* How the machine comes to a reset or a flush.
LEMMA StateStep ==
    ASSUME NEW e, Do(e), ControlInv
    PROVE  /\ Resetting' => Resetting
           /\ r'.state = "ResetWrite" => r.state = "Reset"
           /\ Flushing' => Flushing \/ (Taking /\ r.req_flush)
           /\ r'.state = "FlushCheck" => r.state = "FlushAddr"
           /\ r.state = "CheckResp" => r'.state \in {"Idle", "SetupReadAdr"}
           /\ Taking /\ r.req_flush => r'.state = "FlushAddr"
           /\ Taking /\ ~r.req_flush => r'.state \in {"Idle", "CheckHit"}
<1>1. Types /\ FetchInv /\ r \in Registers /\ r.state \in States
  BY DEF ControlInv, Types, Registers
<1>2. f.resp_ready \/ ~Serving
  BY <1>1 DEF FetchInv
<1>3. CASE Taking
  <2>1. r.state \in {"Idle", "CheckHit"}
    BY <1>3 DEF Taking
  <2>2. r.req_flush => r'.state = "FlushAddr"
    BY <1>1, <1>3, TakingFacts
  <2>3. ~r.req_flush => r'.state \in {"CheckHit", "Idle"}
    BY <1>1, <1>3, TakingFacts DEF Taken
  <2> QED BY <1>3, <2>1, <2>2, <2>3 DEF Resetting, Flushing
<1>4. CASE r.state = "CheckHit" /\ ~Taking
  <2>1. r'.state = "TranslateAddress"
    BY <1>1, <1>2, <1>4, CheckHitRegs DEF Serving, Looking
  <2> QED BY <1>4, <2>1 DEF Resetting, Flushing
<1>5. CASE r.state = "TranslateAddress"
  <2>1. r'.state \in {"CheckResp", "WaitGrant"}
    BY <1>1, <1>5, RefusedRegs, RequestRegs
  <2> QED BY <1>5, <2>1 DEF Resetting, Flushing, Taking
<1>6. CASE r.state = "WaitGrant"
  <2>1. r'.state \in {"WaitResp", "WaitGrant"}
    BY <1>1, <1>6, WaitGrantRegs
  <2> QED BY <1>6, <2>1 DEF Resetting, Flushing, Taking
<1>7. CASE r.state = "WaitResp"
  <2>1. r'.state \in {"WaitResp", "CheckResp"}
    BY <1>1, <1>7, WaitRespRegs
  <2> QED BY <1>7, <2>1 DEF Resetting, Flushing, Taking
<1>8. CASE r.state = "CheckResp"
  <2>1. r'.state \in {"Idle", "SetupReadAdr"}
    BY <1>1, <1>2, <1>8, CheckRespRegs DEF Serving
  <2> QED BY <1>8, <2>1 DEF Resetting, Flushing, Taking
<1>9. CASE r.state = "SetupReadAdr"
  <2>1. r'.state = "CheckHit"
    BY <1>1, <1>9, SetupRegs
  <2> QED BY <1>9, <2>1 DEF Resetting, Flushing, Taking
<1>10. CASE r.state = "FlushAddr"
  <2>1. r'.state = "FlushCheck"
    BY <1>1, <1>10, FlushAddrRegs
  <2> QED BY <1>10, <2>1 DEF Resetting, Flushing, Taking
<1>11. CASE r.state = "FlushCheck"
  <2>1. r'.state \in {"Idle", "FlushAddr"}
    BY <1>1, <1>11, FlushCheckRegs
  <2> QED BY <1>11, <2>1 DEF Resetting, Flushing, Taking
<1>12. CASE Resetting
  <2>1. r'.state \in IF r.state = "Reset" THEN {"ResetWrite"} ELSE {"Reset", "Idle"}
    BY <1>1, <1>12, ResetRegs
  <2> QED BY <1>12, <2>1 DEF Resetting, Flushing, Taking
<1>13. r.state = "Idle" => Taking
  BY DEF Taking
<1> QED BY <1>1, <1>3, <1>4, <1>5, <1>6, <1>7, <1>8, <1>9, <1>10, <1>11, <1>12, <1>13
        DEF States, Resetting

\* A flush waits for the end of the fetch, and its request keeps its kind.
LEMMA FlushStep ==
    ASSUME NEW e, Do(e), ControlInv
    PROVE  FlushInv'
<1>1. Types /\ FetchInv /\ NoAlias /\ FlushInv
  BY DEF ControlInv
<1>2. /\ heard' = ((heard \/ Ended) /\ fence = "none" /\ e.fence = None)
      /\ fence' = IF Pulse THEN "end"
                  ELSE IF e.fence = "pipe" THEN "end"
                  ELSE IF e.fence = "all" THEN "flushi"
                  ELSE IF e.fence = "line" THEN "line" ELSE "none"
      /\ load' = load
  BY ClockIs
<1>3. e.fence = None \/ (heard /\ fence = "none" /\ e.fence \in load.fences)
  BY <1>1, EnvFacts
<1>4. FlushRegs
  BY RegsStep
<1>5. None \notin {"pipe", "all", "line"}
  BY NoneAssumption
<1>6. fence' \in {"flushi", "line"} => heard /\ fence = "none" /\ ~Pulse
  BY <1>2, <1>3, <1>5
<1>7. heard /\ ~Pulse => ~r'.req_flush
  BY <1>1, <1>4 DEF FlushInv, FlushRegs, Taking
<1>8. /\ fence' \in {"flushi", "line"} => ~Resetting' /\ ~r'.req_flush
      /\ fence' = "flushi" => "all" \in load'.fences
      /\ fence' = "line" => "line" \in load'.fences
  <2>1. heard => ~Resetting
    BY <1>1 DEF FlushInv
  <2>2. fence' = "flushi" => "all" \in load'.fences
   BY <1>2, <1>3, <1>5
  <2>3. fence' = "line" => "line" \in load'.fences
    BY <1>2, <1>3, <1>5
  <2> QED BY <1>6, <1>7, <2>1, <2>2, <2>3, StateStep
<1>9. heard' => ~Resetting' /\ fence' = "none" /\ (r'.req_flush => r'.state = "Idle")
  <2>1. heard' => fence' = "none" /\ ~Pulse
    BY <1>2, <1>5 DEF Pulse
  <2>2. Ended => ~Resetting
    BY <1>1, AskFacts DEF Serving, Looking, Resetting
  <2>3. Ended /\ r'.req_flush /\ ~Pulse => r'.state = "Idle"
    <3>1. Ended => (r.state = "CheckHit" /\ BothHit /\ f.resp_ready) \/ (r.state = "CheckResp" /\ Uncacheable)
      BY <1>1, RspFacts DEF Ended
    <3>2. r.state = "CheckResp" /\ Uncacheable /\ f.resp_ready => r'.state = "Idle"
      BY <1>1, CheckRespRegs DEF Types
    <3>3. Taking /\ ~Pulse => ~r'.req_flush
      BY <1>4 DEF FlushRegs
    <3> QED BY <3>1, <3>2, <3>3 DEF Taking, Ended
  <2>4. heard => ~Resetting
    BY <1>1 DEF FlushInv
  <2> QED BY <1>2, <1>7, <2>1, <2>2, <2>3, <2>4, StateStep
<1>10. Resetting' => fence' = "none" /\ (r'.state = "ResetWrite" => ~r'.req_flush)
  <2>1. Resetting => fence = "none" /\ ~heard
    BY <1>1 DEF FlushInv
  <2>2. Resetting => fence' = "none" /\ ~Pulse
    BY <1>2, <1>3, <1>5, <2>1 DEF Pulse
  <2>3. r.state = "Reset" /\ ~Pulse => ~r'.req_flush
    BY <1>4 DEF FlushRegs
  <2> QED BY <2>2, <2>3, StateStep DEF Resetting
<1>11. ~Resetting' /\ (r'.req_flush \/ Flushing') =>
          IF r'.req_flush_all
          THEN "all" \in load'.fences /\ r'.req_flush_addr = ZeroAddr /\ r'.req_flush_cnt = FLUSH_ALL_VALUE
          ELSE "line" \in load'.fences /\ r'.req_flush_addr = Flushed /\ r'.req_flush_cnt = 0
  <2>1. CASE Pulse
    BY <1>1, <1>2, <1>4, <2>1 DEF FlushRegs, FlushInv, Pulse
  <2>2. CASE ~Pulse
    <3>1. /\ r'.req_flush_all = r.req_flush_all /\ r'.req_flush_addr = r.req_flush_addr
          /\ r'.req_flush_cnt = r.req_flush_cnt /\ (r'.req_flush => r.req_flush /\ r.state # "Reset")
      BY <1>4, <2>2 DEF FlushRegs
    <3>2. ~Resetting' /\ (r'.req_flush \/ Flushing') => ~Resetting /\ (r.req_flush \/ Flushing)
      <4>1. Resetting /\ r.req_flush => r.state = "Reset"
        BY <1>1 DEF FlushInv, Resetting
      <4>2. Flushing' => ~Resetting
        BY StateStep DEF Flushing, Resetting, Taking
      <4> QED BY <3>1, <4>1, <4>2, StateStep
    <3> QED BY <1>1, <1>2, <3>1, <3>2 DEF FlushInv
  <2> QED BY <2>1, <2>2
<1> QED BY <1>8, <1>9, <1>10, <1>11 DEF FlushInv

\* A flush never makes a line valid.
LEMMA SweptBank ==
    ASSUME NEW e, Do(e), ControlInv, ~Fills, NEW b \in {0, 1}, NEW s \in Sets, NEW w \in WayNo,
           "VALID" \in Ram(b)'[s][w].flags
    PROVE  Valid(b, s, w) /\ Ram(b)'[s][w] = Ram(b)[s][w]
<1>1. Ram(b)' = Ram(b) \/ Emptied(Ram(b), Ram(b)')
  BY BankStep
<1> QED BY <1>1 DEF Emptied, Valid

\* The position a sweep over all lines is at is emptied when the sweep moves on.
LEMMA ClearedNow ==
    ASSUME NEW e, Do(e), ControlInv, r.state = "FlushCheck", r.req_flush_all, Tracked,
           NEW b \in {0, 1}, NEW s \in Sets, NEW w \in WayNo,
           Pos(b, s, w) <= FLUSH_ALL_VALUE - r.flush_cnt
    PROVE  "VALID" \notin Ram(b)'[s][w].flags
<1>1. Types /\ NoAlias /\ SweepInv /\ Flushing /\ ~Fills
  BY DEF ControlInv, Flushing, Fills
<1>2. /\ Pos(r.req_addr.odd, r.req_addr.set, r.req_addr.way) = FLUSH_ALL_VALUE - r.flush_cnt
      /\ Cleared
      /\ Rd(r.req_addr.odd).addr = BankAddr(r.req_addr) /\ Rd(r.req_addr.odd).invalidate
      /\ Rd(r.req_addr.odd).direct
  BY <1>1 DEF SweepInv
<1>3. r.req_addr.odd \in {0, 1} /\ r.req_addr.set \in Sets /\ r.req_addr.way \in WayNo
  BY <1>1 DEF Types, Registers, LineAddrs, WayNo
<1>4. PICK x : x = FLUSH_ALL_VALUE - r.flush_cnt
  OBVIOUS
<1>5. x \in Int /\ Pos(b, s, w) \in Int
  <2>1. r.flush_cnt \in Int
    BY <1>1, FlushValue DEF Types, Registers
  <2> QED BY <1>4, <2>1, FlushValue, PosFacts
<1>6. CASE Pos(b, s, w) < x
  BY <1>1, <1>2, <1>4, <1>6, SweptBank DEF Cleared
<1>7. CASE Pos(b, s, w) = x
  <2>1. b = r.req_addr.odd /\ s = r.req_addr.set /\ w = r.req_addr.way
    BY <1>2, <1>3, <1>4, <1>7, PosFacts
  <2>2. Given = r.req_addr
    BY DEF Given, Taking
  <2>3. Rd(b).addr.way = w
    BY <1>2, <2>1 DEF BankAddr
  <2>4. Ram(b)'[Given.set][Rd(b).addr.way].flags = {}
    <3>1. Rd(b).invalidate /\ Rd(b).direct /\ Given.odd = b
      BY <1>2, <2>1, <2>2
    <3> QED BY <1>1, <3>1, LinesClock
  <2> QED BY <2>1, <2>2, <2>3, <2>4
<1> QED BY <1>4, <1>5, <1>6, <1>7

\* While a flush goes on, another one of the same kind may be asked for.
LEMMA KindKept ==
    ASSUME NEW e, Do(e), ControlInv, Flushing
    PROVE  /\ Tracked' => Tracked /\ (r'.req_flush_all <=> r.req_flush_all)
           /\ Tracked /\ ~Pulse => Tracked'
<1>1. Types /\ FlushInv /\ ~Resetting /\ ~Taking /\ r.state # "Reset"
  BY DEF ControlInv, Flushing, Resetting, Taking
<1>2. FlushRegs /\ load' = load
  BY RegsStep, ClockIs
<1>3. r'.req_flush <=> Pulse \/ r.req_flush
  BY <1>1, <1>2 DEF FlushRegs
<1>4. r.req_flush_all \in BOOLEAN /\ r'.req_flush_all \in BOOLEAN
  BY <1>1, RegsStep DEF Types, Registers
<1>5. Tracked' => Tracked
  BY <1>2, <1>3 DEF Tracked
<1>6. Tracked /\ ~Pulse => Tracked'
  BY <1>2, <1>3 DEF Tracked
<1>7. ASSUME Tracked', ~(r'.req_flush_all <=> r.req_flush_all)
      PROVE  FALSE
  <2>1. Pulse /\ ~BothKinds(load)
    BY <1>2, <1>3, <1>7 DEF Tracked, FlushRegs
  <2>2. r.req_flush_all => "all" \in load.fences
    BY <1>1 DEF FlushInv
  <2>3. ~r.req_flush_all => "line" \in load.fences
    BY <1>1 DEF FlushInv
  <2>4. r'.req_flush_all <=> fence = "flushi"
    BY <1>2, <1>4, <2>1 DEF FlushRegs
  <2>5. (fence = "flushi" /\ "all" \in load.fences) \/ (fence = "line" /\ "line" \in load.fences)
    BY <1>1, <2>1 DEF FlushInv, Pulse
  <2>6. {"all", "line"} \subseteq load.fences
    BY <1>4, <1>7, <2>2, <2>3, <2>4, <2>5
  <2> QED BY <2>1, <2>6 DEF BothKinds
<1> QED BY <1>5, <1>6, <1>7

\* Where a sweep is, and what it has passed.
SweepAt == Tracked => IF r.req_flush_all
                      THEN /\ Pos(r.req_addr.odd, r.req_addr.set, r.req_addr.way)
                                = FLUSH_ALL_VALUE - r.flush_cnt
                           /\ Cleared
                      ELSE r.req_addr = Flushed /\ r.flush_cnt = 0

SweepShown == r.state = "FlushCheck" =>
                 /\ Rd(r.req_addr.odd).addr = BankAddr(r.req_addr) /\ Rd(r.req_addr.odd).invalidate
                 /\ Tracked => (Rd(r.req_addr.odd).direct <=> r.req_flush_all)

\* A flush starts.
LEMMA SweepStarts ==
    ASSUME NEW e, Do(e), ControlInv, Taking, r.req_flush
    PROVE  SweepAt' /\ r'.req_addr.word = 0 /\ ~r'.req_flush /\ ~Pulse
           /\ (r'.req_flush_all <=> r.req_flush_all)
           /\ r'.state = "FlushAddr" /\ (r'.req_flush_all => r'.flush_cnt = FLUSH_ALL_VALUE)
<1>1. Types /\ FetchInv /\ FlushInv /\ ~Resetting
  BY DEF ControlInv, Taking, Resetting
<1>2. FlushRegs /\ r'.state = "FlushAddr" /\ r'.req_addr = LineOf(r.req_flush_addr)
      /\ r'.flush_cnt = r.req_flush_cnt
  BY <1>1, TakingFacts
<1>3. ~Pulse
  BY <1>1 DEF FlushInv, Pulse
<1>4. r'.req_flush_all = r.req_flush_all /\ ~r'.req_flush
  BY <1>2, <1>3 DEF FlushRegs
<1>5. IF r.req_flush_all THEN r.req_flush_addr = ZeroAddr /\ r.req_flush_cnt = FLUSH_ALL_VALUE
      ELSE r.req_flush_addr = Flushed /\ r.req_flush_cnt = 0
  BY <1>1 DEF FlushInv
<1>6. LineOf(ZeroAddr) = ZeroAddr /\ LineOf(Flushed) = Flushed /\ ZeroAddr.word = 0 /\ Flushed.word = 0
  <2>1. Flushed = [tag |-> 0, set |-> 0, odd |-> 1, word |-> 0, way |-> 0]
    BY DEF Flushed, ZeroAddr
  <2>2. LineOf(ZeroAddr) = ZeroAddr
    BY Bounds, LineOfFacts DEF ZeroAddr
  <2>3. LineOf(Flushed) = Flushed
    BY <2>1, Bounds, LineOfFacts
  <2> QED BY <2>1, <2>2, <2>3 DEF ZeroAddr
<1>7. CASE r.req_flush_all
  <2>1. r'.req_addr = ZeroAddr /\ r'.flush_cnt = FLUSH_ALL_VALUE
    BY <1>2, <1>5, <1>6, <1>7
  <2>2. Pos(r'.req_addr.odd, r'.req_addr.set, r'.req_addr.way) = 0
    <3>1. r'.req_addr.odd = 0 /\ r'.req_addr.set = 0 /\ r'.req_addr.way = 0
      BY <2>1 DEF ZeroAddr
    <3> QED BY <3>1, Bounds DEF Pos
  <2>3. FLUSH_ALL_VALUE - r'.flush_cnt = 0
    BY <2>1, FlushValue
  <2>4. Cleared'
    BY <2>3, PosFacts DEF Cleared
  <2> QED BY <1>2, <1>3, <1>4, <1>6, <1>7, <2>1, <2>2, <2>3, <2>4 DEF SweepAt
<1>8. CASE ~r.req_flush_all
  BY <1>2, <1>3, <1>4, <1>5, <1>6, <1>8 DEF SweepAt
<1> QED BY <1>7, <1>8

\* State_FlushAddr keeps its address.
LEMMA SweepLooks ==
    ASSUME NEW e, Do(e), ControlInv, r.state = "FlushAddr"
    PROVE  /\ SweepAt' /\ r'.req_addr.word = 0 /\ SweepShown'
           /\ \A b \in {0, 1} : Ram(b)' = Ram(b)
           /\ r'.req_addr = r.req_addr /\ r'.flush_cnt = r.flush_cnt /\ r'.state = "FlushCheck"
<1>1. Types /\ NoAlias /\ PortInv /\ SweepInv /\ Flushing /\ ~Fills /\ r \in Registers
  BY DEF ControlInv, Flushing, Fills, Types
<1>2. r'.state = "FlushCheck" /\ r'.req_addr = r.req_addr /\ r'.flush_cnt = r.flush_cnt
  BY <1>1, FlushAddrRegs DEF KeepReq
<1>3. Given = r.req_addr /\ r.req_addr.odd \in {0, 1} /\ On(r.req_addr.odd) /\ r.req_addr \in LineAddrs
  BY <1>1 DEF Given, Taking, On, Registers, LineAddrs
<1>4. \A b \in {0, 1} : Ram(b)' = Ram(b)
  <2>1. \A b \in {0, 1} : ~Rd(b).invalidate
    BY <1>1 DEF PortInv, Rd
  <2> QED BY <1>1, <2>1, BankStep
<1>5. PICK b \in {0, 1} : b = r.req_addr.odd
  BY <1>3
<1>6. Rd(b)'.addr = BankAddr(r.req_addr) /\ Rd(b)'.invalidate /\ (Rd(b)'.direct <=> r.req_flush_all)
  <2>1. InBank(r.req_addr, b) = r.req_addr
    BY <1>5 DEF InBank
  <2>2. ~Resetting
    BY DEF Resetting
  <2> QED BY <1>1, <1>3, <1>5, <2>1, <2>2, LinesClock
<1>7. Tracked' => Tracked /\ (r'.req_flush_all <=> r.req_flush_all)
  BY <1>1, KindKept
<1>8. Cleared => Cleared'
  BY <1>2, <1>4 DEF Cleared, Valid
<1>9. SweepAt'
  <2>1. SweepAt
    BY <1>1 DEF SweepInv, SweepAt
  <2> QED BY <1>2, <1>7, <1>8, <2>1 DEF SweepAt
<1>10. r'.req_addr.odd = b
  BY <1>2, <1>5
<1>11. SweepShown'
  BY <1>2, <1>6, <1>7, <1>10 DEF SweepShown, Rd
<1> QED BY <1>1, <1>2, <1>4, <1>9, <1>11 DEF SweepInv

\* State_FlushCheck moves on.
LEMMA SweepMoves ==
    ASSUME NEW e, Do(e), ControlInv, r.state = "FlushCheck", r.flush_cnt # 0
    PROVE  SweepAt' /\ r'.req_addr.word = 0 /\ r'.state = "FlushAddr" /\ r'.flush_cnt = r.flush_cnt - 1
<1>1. Types /\ SweepInv /\ Flushing /\ r \in Registers
  BY DEF ControlInv, Flushing, Types
<1>2. /\ r'.state = "FlushAddr" /\ r'.flush_cnt = r.flush_cnt - 1
      /\ r.req_addr.word = 0 => r'.req_addr.word = 0
      /\ r.req_flush_all => r'.req_addr = AddrDirectNext
  BY <1>1, FlushCheckRegs
<1>3. r.req_addr.word = 0 /\ SweepAt
  BY <1>1 DEF SweepInv, SweepAt
<1>4. ASSUME Tracked'
      PROVE  /\ r'.req_flush_all
             /\ Pos(r'.req_addr.odd, r'.req_addr.set, r'.req_addr.way)
                   = FLUSH_ALL_VALUE - r'.flush_cnt
             /\ Cleared'
  <2>1. Tracked /\ (r'.req_flush_all <=> r.req_flush_all)
    BY <1>1, <1>4, KindKept
  <2>2. /\ r.req_flush_all
        /\ Pos(r.req_addr.odd, r.req_addr.set, r.req_addr.way) = FLUSH_ALL_VALUE - r.flush_cnt
    BY <1>3, <2>1 DEF SweepAt
  <2>3. PICK x : x = FLUSH_ALL_VALUE - r.flush_cnt
    OBVIOUS
  <2>4. r.flush_cnt \in Int /\ x \in Int /\ x # FLUSH_ALL_VALUE /\ FLUSH_ALL_VALUE - r'.flush_cnt = x + 1
    <3>1. r.flush_cnt \in Int
      BY <1>1, FlushValue DEF Registers
    <3> QED BY <1>2, <2>3, <3>1, FlushValue
  <2>5. Pos(r'.req_addr.odd, r'.req_addr.set, r'.req_addr.way) = x + 1
    BY <1>1, <1>2, <2>2, <2>3, <2>4, PosAdvances
  <2>6. ASSUME NEW b \in {0, 1}, NEW s \in Sets, NEW w \in WayNo,
               Pos(b, s, w) < FLUSH_ALL_VALUE - r'.flush_cnt
        PROVE  "VALID" \notin Ram(b)'[s][w].flags
    <3>1. Pos(b, s, w) \in Int
      BY FlushValue, PosFacts
    <3>2. Pos(b, s, w) <= FLUSH_ALL_VALUE - r.flush_cnt
      BY <2>3, <2>4, <2>6, <3>1
    <3> QED BY <2>1, <2>2, <3>2, ClearedNow
  <2> QED BY <2>1, <2>2, <2>4, <2>5, <2>6 DEF Cleared, Valid
<1> QED BY <1>2, <1>3, <1>4 DEF SweepAt

\* Every clock.
LEMMA SweepInvStep ==
    ASSUME NEW e, Do(e), ControlInv
    PROVE  SweepInv'
<1>1. Resetting' => \A b \in {0, 1}, s \in Sets, w \in WayNo : "VALID" \notin Ram(b)'[s][w].flags
  <2>1. Resetting => \A b \in {0, 1}, s \in Sets, w \in WayNo : ~Valid(b, s, w)
    BY DEF ControlInv, SweepInv
  <2>2. Resetting => ~Fills
    BY DEF Resetting, Fills
  <2> QED BY <2>1, <2>2, SweptBank, StateStep
<1>2. Flushing' => SweepAt' /\ r'.req_addr.word = 0
  <2>1. CASE Taking /\ r.req_flush
    BY <2>1, SweepStarts
  <2>2. CASE r.state = "FlushAddr"
    BY <2>2, SweepLooks
  <2>3. CASE r.state = "FlushCheck" /\ r.flush_cnt # 0
    BY <2>3, SweepMoves
  <2>4. CASE r.state = "FlushCheck" /\ r.flush_cnt = 0
    <3>1. r'.state = "Idle"
      BY <2>4, FlushCheckRegs DEF ControlInv, Types
    <3> QED BY <3>1 DEF Flushing
  <2> QED BY <2>1, <2>2, <2>3, <2>4, StateStep DEF Flushing
<1>3. SweepShown'
  <2>1. CASE r'.state = "FlushCheck"
    BY <2>1, StateStep, SweepLooks
  <2>2. CASE r'.state # "FlushCheck"
    BY <2>2 DEF SweepShown
  <2> QED BY <2>1, <2>2
<1> QED BY <1>1, <1>2, <1>3 DEF SweepInv, SweepAt, SweepShown, Valid

----------------------------------------------------------------------------
(***************************************************************************)
(* The control invariant.                                                  *)
(***************************************************************************)
\* Every clock keeps the control invariant.
LEMMA ControlStep ==
    ASSUME NEW e, Do(e), ControlInv
    PROVE  ControlInv'
<1>1. RequestInv' /\ LoadInv' /\ FillInv'
  BY RequestsStep DEF Requests
<1> QED BY <1>1, TypesStep, FetchInvStep, PortStep, AliasStep, FlushStep, SweepInvStep DEF ControlInv

\* A step without a clock changes nothing.
LEMMA ControlStutter ==
    ASSUME ControlInv, UNCHANGED vars
    PROVE  ControlInv'
<1>1. /\ ram0' = ram0 /\ lru0' = lru0 /\ rd0' = rd0 /\ ram1' = ram1 /\ lru1' = lru1 /\ rd1' = rd1
      /\ radr' = radr /\ r' = r /\ f' = f
      /\ load' = load /\ mem' = mem /\ changes' = changes /\ bus' = bus /\ asked' = asked
      /\ fresh' = fresh /\ fence' = fence /\ heard' = heard /\ halted' = halted
  BY DEF vars, ivars, envvars, linevars
<1>2. \A b : Ram(b)' = Ram(b) /\ Rd(b)' = Rd(b)
  BY <1>1 DEF Ram, Rd
<1>3. LineTypeOK'
  <2>1. /\ ram0 \in Memories /\ lru0 \in Tables /\ rd0 \in BankRegs
        /\ ram1 \in Memories /\ lru1 \in Tables /\ rd1 \in BankRegs /\ radr \in LineAddrs
    BY BankTypes DEF ControlInv, Types, LineTypeOK
  <2>2. (/\ Even!TagTypeOK <=> ram0 \in Memories /\ lru0 \in Tables /\ rd0 \in BankRegs
         /\ Odd!TagTypeOK <=> ram1 \in Memories /\ lru1 \in Tables /\ rd1 \in BankRegs)'
    BY BankTypes, PTL
  <2> QED BY <1>1, <2>1, <2>2 DEF LineTypeOK
<1>4. Types' /\ FetchInv'
  BY <1>1, <1>3 DEF ControlInv, Types, FetchInv, Serving, Looking
<1>5. OwnHit' <=> OwnHit
  BY <1>1 DEF OwnHit, HitIn, Valid, Ram, Rd
<1>6. OtherHit' <=> OtherHit
  BY <1>1 DEF OtherHit, HitIn, Valid, Ram, Rd
<1>7. PortInv'
  BY <1>1, <1>2 DEF ControlInv, PortInv, Looking, Looked
<1>8. RequestInv'
  BY <1>1, <1>5, <1>6 DEF ControlInv, RequestInv, Looking, Serving
<1>9. LoadInv' /\ FillInv'
  BY <1>1, <1>5, <1>6 DEF ControlInv, LoadInv, FillInv, Missed, Uncacheable
<1>10. NoAlias'
  BY <1>2 DEF ControlInv, NoAlias, Valid
<1>11. FlushInv'
  BY <1>1 DEF ControlInv, FlushInv, Resetting, Flushing
<1>12. SweepInv'
  BY <1>1, <1>2 DEF ControlInv, SweepInv, Resetting, Flushing, Tracked, Cleared, Valid, Ram, Rd
<1> QED BY <1>4, <1>7, <1>8, <1>9, <1>10, <1>11, <1>12 DEF ControlInv

\* The control invariant holds after the reset.
LEMMA ControlInit ==
    ASSUME Init
    PROVE  ControlInv
<1>1. /\ r = [state |-> "Reset", req_addr |-> ZeroAddr, req_addr_next |-> ZeroAddr,
              write_addr |-> ZeroAddr, req_mem_valid |-> FALSE, mem_addr |-> ZeroAddr,
              cached |-> FALSE, load_fault |-> FALSE, req_flush |-> TRUE,
              req_flush_all |-> FALSE, req_flush_addr |-> ZeroAddr,
              req_flush_cnt |-> 0, flush_cnt |-> 0, cache_line_i |-> Blank]
      /\ Even!TagInit /\ Odd!TagInit /\ radr = ZeroAddr
  BY DEF Init, IInit, LineInit
<1>2. /\ f = [state |-> "Idle", req_valid |-> FALSE, resp_ready |-> FALSE,
              req_addr |-> NoPc, mem_resp_shadow |-> NoPc, pc |-> NoPc,
              instr |-> None, fault |-> FALSE, progbuf_ena |-> FALSE]
      /\ load \in Workloads /\ mem = [n \in Lines |-> 0] /\ changes = 0
      /\ bus = None /\ asked = None /\ fresh = [n \in Lines |-> {0}]
      /\ fence = "none" /\ heard = FALSE /\ halted = FALSE
  BY DEF Init, FInit
<1>3. ram0 = [s \in Sets |-> [w \in WayNo |-> [tag |-> 0, flags |-> {}, data |-> Blank]]]
      /\ ram1 = [s \in Sets |-> [w \in WayNo |-> [tag |-> 0, flags |-> {}, data |-> Blank]]]
  BY <1>1 DEF Even!TagInit, Odd!TagInit, Even!Sets, Odd!Sets, Even!Way, Odd!Way, Even!ZeroLine, Odd!ZeroLine,
              Sets, WayNo, Blank
<1>4. lru0 = [s \in Sets |-> [w \in WayNo |-> 0]] /\ lru1 = [s \in Sets |-> [w \in WayNo |-> 0]]
  BY <1>1 DEF Even!TagInit, Odd!TagInit, Even!Sets, Odd!Sets, Even!Way, Odd!Way, Sets, WayNo
<1> DEFINE z == [tag |-> 0, set |-> 0, word |-> 0, way |-> 0]
<1>5. rd0 = [addr |-> z, direct |-> FALSE, invalidate |-> FALSE, re |-> FALSE, snoop |-> z]
      /\ rd1 = [addr |-> z, direct |-> FALSE, invalidate |-> FALSE, re |-> FALSE, snoop |-> z]
  BY <1>1 DEF Even!TagInit, Odd!TagInit, Even!ZeroAddr, Odd!ZeroAddr
<1>6. Blank \in Contents
  BY ValuesAssumption DEF Blank, Contents
<1>7. LineTypeOK
  <2>1. [tag |-> 0, flags |-> {}, data |-> Blank] \in Entries
    BY <1>6, Bounds DEF Entries
  <2>2. ram0 \in Memories /\ ram1 \in Memories
    BY <1>3, <2>1 DEF Memories
  <2>3. lru0 \in Tables /\ lru1 \in Tables
    BY <1>4, Bounds DEF Tables
  <2>4. z \in BankAddrs
    BY Bounds DEF BankAddrs
  <2>5. rd0 \in BankRegs /\ rd1 \in BankRegs
    BY <1>5, <2>4 DEF BankRegs
  <2> QED BY <1>1, <2>2, <2>3, <2>5, BankTypes, Bounds DEF LineTypeOK
<1>8. r \in Registers
  BY <1>1, <1>6, Bounds, FlushValue DEF Registers, States
<1>9. f \in FetchRegs
  BY <1>2 DEF FetchRegs, FetchStates
<1>10. Types
  <2>1. mem \in [Lines -> Versions] /\ changes \in Versions /\ fresh \in [Lines -> SUBSET Versions]
    BY <1>2, FetchAssumption DEF Versions
  <2> QED BY <1>2, <1>7, <1>8, <1>9, <2>1 DEF Types
<1>11. \A b \in {0, 1}, s \in Sets, w \in WayNo : ~Valid(b, s, w)
  BY <1>3 DEF Valid, Ram
<1>12. r.state = "Reset" /\ ~r.req_mem_valid
  BY <1>1
<1>13. FetchInv /\ PortInv
  BY <1>2, <1>5, <1>12 DEF FetchInv, PortInv, Serving, Looking
<1>14. RequestInv /\ LoadInv /\ FillInv
  BY <1>2, <1>12 DEF RequestInv, LoadInv, FillInv, Serving, Looking
<1>15. NoAlias
  BY <1>11 DEF NoAlias
<1>16. FlushInv
  BY <1>2, <1>12 DEF FlushInv, Resetting, Flushing
<1>17. SweepInv
  BY <1>11, <1>12 DEF SweepInv, Resetting, Flushing
<1> QED BY <1>10, <1>13, <1>14, <1>15, <1>16, <1>17 DEF ControlInv

\* A step is a clock.
LEMMA NextClock ==
    ASSUME Next
    PROVE  \E e : Do(e)
  BY DEF Next, Do

\* The control invariant holds in every state of every behaviour: whose fetch is
\* served, what the banks show, which line is missing, what a flush has still to do
\* (icache_lru.cpp, tagmemcoupled.h, fetch.cpp), whatever the workload.
THEOREM ControlHolds == Spec => []ControlInv
<1>1. Init => ControlInv
  BY ControlInit
<1>2. ControlInv /\ [Next]_vars => ControlInv'
  BY NextClock, ControlStep, ControlStutter
<1> QED BY <1>1, <1>2, PTL DEF Spec

\* The registers, the banks and the environment keep their types.
THEOREM TypeCorrect == Spec => []TypeOK
<1>1. ControlInv => TypeOK
  <2> SUFFICES ASSUME ControlInv
               PROVE  TypeOK
    OBVIOUS
  <2>1. Types
    BY DEF ControlInv
  <2>2. f.state \in FetchStates
    BY <2>1 DEF Types, FetchRegs
  <2>3. bus = None \/ bus.addr \in LineAddrs
    BY <2>1 DEF Types
  <2>4. mem \in [Lines -> 0 .. MaxChanges]
    BY <2>1 DEF Types, Versions
  <2> QED BY <2>1, <2>2, <2>3, <2>4 DEF TypeOK, Types
<1> QED BY <1>1, ControlHolds, PTL

\* The cache is empty when a flush of all lines ends (State_FlushCheck), for every
\* number of ways and sets: the sweep reaches every way of every line.
THEOREM FlushComplete == Spec => FlushEmpties
<1>1. ControlInv /\ [Next]_vars =>
         [(r.state = "FlushCheck" /\ r'.state = "Idle" /\ r.req_flush_all /\ Tracked)
          => \A s \in Sets, w \in 0 .. Ways - 1 :
                "VALID" \notin ram0'[s][w].flags \cup ram1'[s][w].flags]_vars
  <2> SUFFICES ASSUME ControlInv, Next, r.state = "FlushCheck", r'.state = "Idle", r.req_flush_all, Tracked,
                      NEW s \in Sets, NEW w \in WayNo
               PROVE  "VALID" \notin ram0'[s][w].flags /\ "VALID" \notin ram1'[s][w].flags
    BY DEF WayNo
  <2>1. PICK e : Do(e)
    BY NextClock
  <2>2. r \in Registers
    BY DEF ControlInv, Types
  <2>3. r.flush_cnt = 0
    BY <2>1, <2>2, FlushCheckRegs
  <2>4. \A b \in {0, 1} : "VALID" \notin Ram(b)'[s][w].flags
    <3>1. \A b \in {0, 1} : Pos(b, s, w) <= FLUSH_ALL_VALUE - r.flush_cnt
      BY <2>3, FlushValue, PosFacts
    <3> QED BY <2>1, <3>1, ClearedNow
  <2>5. \A b \in {0, 1} : Ram(b)' = IF b = 0 THEN ram0' ELSE ram1'
    BY DEF Ram
  <2> QED BY <2>4, <2>5
<1> QED BY <1>1, ControlHolds, PTL DEF Spec, FlushEmpties

----------------------------------------------------------------------------
(***************************************************************************)
(* The data: which version of the code is where.                           *)
(***************************************************************************)
\* The versions the path may find grow with the memory.
LEMMA MemStep ==
    ASSUME NEW e, Do(e), ControlInv, MemInv
    PROVE  MemInv'
<1>1. Types /\ FetchInv /\ NoAlias
  BY DEF ControlInv
<1>2. /\ mem' = NextMem(e) /\ load' = load
      /\ \A n \in Lines : n \notin load.changing => NextMem(e)[n] = mem[n]
      /\ \A n \in Lines : Grown(e)[n] = fresh[n] \cup {NextMem(e)[n]}
      /\ \A n \in Lines : fresh'[n] = IF Fenced(n) THEN {NextMem(e)[n]} ELSE Grown(e)[n]
  BY <1>1, EnvTypes
<1>3. \A n \in Lines : mem'[n] \in fresh'[n]
  BY <1>2
<1>4. \A n \in Lines : n \notin load'.changing => fresh'[n] = {0}
  BY <1>2 DEF MemInv
<1>5. asked' # None => /\ mem'[Num(asked'.addr)] \in asked'.ok.own
                       /\ mem'[Nxt(Num(asked'.addr))] \in asked'.ok.nxt
  <2>1. CASE Taken
    <3>1. asked' = [addr |-> f.req_addr,
                    ok |-> [own |-> Grown(e)[Num(f.req_addr)], nxt |-> Grown(e)[Nxt(Num(f.req_addr))]]]
          /\ f.req_addr \in PcSet
      BY <1>1, <2>1, AskFacts
    <3>2. Num(f.req_addr) \in Lines /\ Nxt(Num(f.req_addr)) \in Lines
      BY <3>1, Bounds, NumFacts, NxtFacts
    <3> QED BY <1>2, <3>1, <3>2
  <2>2. CASE ~Taken /\ ~Ended /\ asked # None
    <3>1. asked' = [addr |-> asked.addr,
                    ok |-> [own |-> asked.ok.own \cup {NextMem(e)[Num(asked.addr)]},
                            nxt |-> asked.ok.nxt \cup {NextMem(e)[Nxt(Num(asked.addr))]}]]
      BY <1>1, <2>2, AskFacts
    <3> QED BY <1>2, <3>1
  <2>3. CASE ~Taken /\ (Ended \/ asked = None)
    BY <1>1, <2>3, AskFacts
  <2> QED BY <2>1, <2>2, <2>3
<1> QED BY <1>3, <1>4, <1>5 DEF MemInv

\* More versions are allowed.
LEMMA MoreCode ==
    ASSUME NEW d, NEW n, NEW vs, NEW us, vs \subseteq us, IsCode(d, n, vs)
    PROVE  IsCode(d, n, us)
  BY DEF IsCode

\* A line that has no flush under way is in a version the next fetch may find.
LEMMA AskedStep ==
    ASSUME NEW e, Do(e), ControlInv, NEW d, NEW n \in Lines, AskedOf(d, n),
           IsCode(d, n, fresh[n]) \/ Due(n) \/ Flushing
    PROVE  AskedOf(d, n)'
<1>1. Types /\ FetchInv /\ NoAlias
  BY DEF ControlInv
<1>2. \A m \in Lines : Grown(e)[m] = fresh[m] \cup {NextMem(e)[m]}
  BY <1>1, EnvTypes
<1>3. CASE Taken
  <2>1. asked' = [addr |-> f.req_addr,
                  ok |-> [own |-> Grown(e)[Num(f.req_addr)], nxt |-> Grown(e)[Nxt(Num(f.req_addr))]]]
        /\ f.req_addr \in PcSet
    BY <1>1, <1>3, AskFacts
  <2>2. IsCode(d, n, fresh[n])
    BY <1>3 DEF Taken, Taking, Due, Flushing
  <2>3. IsCode(d, n, Grown(e)[n])
    BY <1>2, <2>2, MoreCode
  <2> QED BY <2>1, <2>3 DEF AskedOf
<1>4. CASE ~Taken /\ ~Ended /\ asked # None
  <2>1. asked' = [addr |-> asked.addr,
                  ok |-> [own |-> asked.ok.own \cup {NextMem(e)[Num(asked.addr)]},
                          nxt |-> asked.ok.nxt \cup {NextMem(e)[Nxt(Num(asked.addr))]}]]
    BY <1>1, <1>4, AskFacts
  <2>2. n = Num(asked.addr) => IsCode(d, n, asked'.ok.own)
    <3>1. asked.ok.own \subseteq asked'.ok.own
      BY <2>1
    <3> QED BY <1>4, <3>1, MoreCode DEF AskedOf
  <2>3. n = Nxt(Num(asked.addr)) => IsCode(d, n, asked'.ok.nxt)
    <3>1. asked.ok.nxt \subseteq asked'.ok.nxt
      BY <2>1
    <3> QED BY <1>4, <3>1, MoreCode DEF AskedOf
  <2> QED BY <2>1, <2>2, <2>3 DEF AskedOf
<1>5. CASE ~Taken /\ (Ended \/ asked = None)
  <2>1. asked' = None
    BY <1>1, <1>5, AskFacts
  <2> QED BY <2>1 DEF AskedOf
<1> QED BY <1>3, <1>4, <1>5

\* A line is not older than its last flush, or that flush is under way.
LEMMA KeptStep ==
    ASSUME NEW e, Do(e), ControlInv, MemInv, SweepKept(load), ~Resetting,
           NEW d, NEW n \in Lines, NEW swept, Kept(d, n, swept),
           swept => Flushing /\ ~r.req_flush /\ (r.req_flush_all \/ n = Num(Flushed))
    PROVE  /\ AskedOf(d, n)'
           /\ \/ IsCode(d, n, fresh'[n])
              \/ /\ n \in load'.changing
                 /\ Due(n)' \/ (Taking /\ Due(n) /\ ~Pulse) \/ (swept /\ ~Pulse)
<1>1. Types /\ FlushInv
  BY DEF ControlInv
<1>2. AskedOf(d, n)'
  BY AskedStep DEF Kept
<1>3. /\ \A m \in Lines : Grown(e)[m] = fresh[m] \cup {NextMem(e)[m]}
      /\ \A m \in Lines : fresh'[m] = IF Fenced(m) THEN {NextMem(e)[m]} ELSE Grown(e)[m]
      /\ load' = load
  BY <1>1, EnvTypes
<1>4. FlushRegs
  BY RegsStep
<1>5. CASE n \notin load.changing
  <2>1. MemInv'
    BY MemStep
  <2>2. fresh'[n] = {0} /\ fresh[n] = {0}
    BY <1>3, <1>5, <2>1 DEF MemInv
  <2> QED BY <1>2, <1>5, <2>2 DEF Kept
<1>6. CASE n \in load.changing /\ Fenced(n)
  <2>1. Pulse /\ ~r.req_flush
    BY <1>1, <1>6 DEF FlushInv, Fenced, Pulse
  <2>2. r'.req_flush /\ (r'.req_flush_all \/ n = Num(Flushed))
    BY <1>4, <1>6, <2>1 DEF FlushRegs, Fenced
  <2> QED BY <1>2, <1>3, <1>6, <2>2 DEF Due
<1>7. CASE n \in load.changing /\ ~Fenced(n)
  <2>1. IsCode(d, n, fresh[n]) => IsCode(d, n, fresh'[n])
    <3>1. fresh[n] \subseteq fresh'[n]
      BY <1>3, <1>7
    <3> QED BY <3>1, MoreCode
  <2>2. CASE Pulse
    <3>1. fence = "line" /\ n # Num(Flushed) /\ ~r.req_flush /\ "line" \in load.fences
      BY <1>1, <1>7, <2>2 DEF FlushInv, Fenced, Pulse
    <3>2. ~swept
      <4>1. swept => "all" \in load.fences
        BY <1>1, <3>1 DEF FlushInv
      <4>2. swept => BothKinds(load)
        BY <3>1, <4>1 DEF BothKinds
      <4> QED BY <1>7, <3>1, <4>2 DEF SweepKept
    <3> QED BY <1>2, <2>1, <3>1, <3>2 DEF Kept, Due
  <2>3. CASE ~Pulse
    <3>1. Due(n) /\ ~Taking => Due(n)'
      BY <1>4, <2>3 DEF FlushRegs, Due, Resetting
    <3> QED BY <1>2, <1>3, <1>7, <2>1, <2>3, <3>1 DEF Kept
  <2> QED BY <2>2, <2>3
<1> QED BY <1>5, <1>6, <1>7

\* The place of a line in the cache.
LEMMA PlaceFacts ==
    ASSUME Types, NEW b \in {0, 1}, NEW s \in Sets, NEW w \in WayNo, NEW a \in LineAddrs
    PROVE  Place(Num(a), b, s, w) <=> Ram(b)[s][w].tag = a.tag /\ s = a.set /\ b = a.odd
<1>1. Ram(b)[s][w].tag \in Tags
  <2>1. ram0 \in Memories /\ ram1 \in Memories
    BY BankTypes DEF Types, LineTypeOK
  <2> QED BY <2>1 DEF Ram, Memories, Entries
<1> DEFINE p == [tag |-> Ram(b)[s][w].tag, set |-> s, odd |-> b, word |-> 0, way |-> 0]
<1>2. p \in LineAddrs
  BY <1>1, Bounds DEF LineAddrs, WayNo
<1>3. p.tag = Ram(b)[s][w].tag /\ p.set = s /\ p.odd = b
  OBVIOUS
<1>4. Place(Num(a), b, s, w) <=> Num(a) = Num(p)
  BY DEF Place
<1> HIDE DEF p
<1>5. p.tag = a.tag /\ p.set = a.set /\ p.odd = a.odd => Num(a) = Num(p)
  BY DEF Num
<1>6. Num(a) = Num(p) => p.tag = a.tag /\ p.set = a.set /\ p.odd = a.odd
  BY <1>2, NumInjective
<1> QED BY <1>3, <1>4, <1>5, <1>6

\* A line the sweep has still to reach is empty once the sweep has passed it.
LEMMA UnsweptStep ==
    ASSUME NEW e, Do(e), ControlInv, NEW b \in {0, 1}, NEW s \in Sets, NEW w \in WayNo, NEW n,
           Unswept(b, s, w, n), ~Pulse, Valid(b, s, w), Place(n, b, s, w),
           "VALID" \in Ram(b)'[s][w].flags
    PROVE  Unswept(b, s, w, n)'
<1>1. Types /\ NoAlias /\ SweepInv /\ Flushing /\ ~r.req_flush /\ Tracked /\ r \in Registers
      /\ r.state # "Reset" /\ ~Taking
  BY DEF ControlInv, Unswept, Tracked, Types, Flushing, Taking
<1>2. FlushRegs
  BY RegsStep
<1>3. ~r'.req_flush /\ r'.req_flush_all = r.req_flush_all
  BY <1>1, <1>2 DEF FlushRegs
<1>4. CASE r.state = "FlushAddr"
  <2>1. r'.state = "FlushCheck" /\ r'.flush_cnt = r.flush_cnt
    BY <1>4, SweepLooks
  <2> QED BY <1>3, <2>1 DEF Unswept, Flushing
<1>5. CASE r.state = "FlushCheck" /\ r.req_flush_all
  <2>1. ~(Pos(b, s, w) <= FLUSH_ALL_VALUE - r.flush_cnt)
    BY <1>1, <1>5, ClearedNow
  <2>2. r.flush_cnt \in Int /\ Pos(b, s, w) \in Int /\ Pos(b, s, w) <= FLUSH_ALL_VALUE
    <3>1. r.flush_cnt \in Int
      BY <1>1, FlushValue DEF Registers
    <3> QED BY <3>1, FlushValue, PosFacts
  <2>3. r.flush_cnt # 0
    BY <2>1, <2>2, FlushValue
  <2>4. r'.state = "FlushAddr" /\ r'.flush_cnt = r.flush_cnt - 1
    BY <1>5, <2>3, SweepMoves
  <2>5. Pos(b, s, w) >= FLUSH_ALL_VALUE - r'.flush_cnt
    BY <2>1, <2>2, <2>4, FlushValue
  <2> QED BY <1>3, <1>5, <2>4, <2>5 DEF Unswept, Flushing
<1>6. CASE r.state = "FlushCheck" /\ ~r.req_flush_all
  <2>1. n = Num(Flushed) /\ r.req_addr = Flushed /\ Flushed \in LineAddrs
    BY <1>1, <1>6, Bounds DEF Unswept, SweepInv
  <2>2. Ram(b)[s][w].tag = r.req_addr.tag /\ s = r.req_addr.set /\ b = r.req_addr.odd
    BY <1>1, <2>1, PlaceFacts
  <2>3. Rd(b).addr = BankAddr(r.req_addr) /\ Rd(b).invalidate /\ ~Rd(b).direct
    BY <1>1, <1>6, <2>2 DEF SweepInv
  <2>4. Given = r.req_addr
    BY <1>1 DEF Given
  <2>5. HitAt(Ram(b), Rd(b), w)
    BY <2>2, <2>3 DEF HitAt, BankAddr, Valid
  <2>6. Ram(b)'[Given.set][w].flags = {}
    <3>1. Given.odd = b
      BY <2>2, <2>4
    <3> QED BY <1>1, <2>3, <2>5, <3>1, LinesClock
  <2> QED BY <2>2, <2>4, <2>6
<1> QED BY <1>1, <1>4, <1>5, <1>6 DEF Flushing

\* An entry that stays keeps its promise.
LEMMA EntryStays ==
    ASSUME NEW e, Do(e), ControlInv, MemInv, LineInv, SweepKept(load),
           NEW b \in {0, 1}, NEW s \in Sets, NEW w \in WayNo, NEW n \in Lines,
           "VALID" \in Ram(b)'[s][w].flags, Ram(b)'[s][w] = Ram(b)[s][w], Place(n, b, s, w),
           NEW d, d = Ram(b)[s][w].data
    PROVE  /\ Allowed(n) /\ n \notin load.faulty
           /\ AskedOf(d, n)'
           /\ IsCode(d, n, fresh'[n]) \/ (n \in load'.changing /\ (Due(n)' \/ Unswept(b, s, w, n)'))
<1>1. Valid(b, s, w)
  BY DEF Valid
<1>2. Allowed(n) /\ n \notin load.faulty /\ Kept(d, n, Unswept(b, s, w, n))
  BY <1>1 DEF LineInv
<1>3. ~Resetting
  BY <1>1 DEF ControlInv, SweepInv
<1>4. PICK x : x = Unswept(b, s, w, n)
  OBVIOUS
<1>5. Kept(d, n, x)
  BY <1>2, <1>4
<1>6. x => Flushing /\ ~r.req_flush /\ (r.req_flush_all \/ n = Num(Flushed))
  BY <1>4 DEF Unswept
<1>7. /\ AskedOf(d, n)'
      /\ \/ IsCode(d, n, fresh'[n])
         \/ /\ n \in load'.changing
            /\ Due(n)' \/ (Taking /\ Due(n) /\ ~Pulse) \/ (x /\ ~Pulse)
  BY <1>3, <1>5, <1>6, KeptStep
<1>8. x /\ ~Pulse => Unswept(b, s, w, n)'
  BY <1>1, <1>4, UnsweptStep
<1>9. Taking /\ Due(n) /\ ~Pulse => Unswept(b, s, w, n)'
  <2> SUFFICES ASSUME Taking, Due(n), ~Pulse
               PROVE  Unswept(b, s, w, n)'
    OBVIOUS
  <2>1. /\ ~r'.req_flush /\ r'.state = "FlushAddr" /\ (r'.req_flush_all <=> r.req_flush_all)
        /\ r'.req_flush_all => r'.flush_cnt = FLUSH_ALL_VALUE
    BY SweepStarts DEF Due
  <2>2. r'.req_flush_all => Pos(b, s, w) >= FLUSH_ALL_VALUE - r'.flush_cnt
    <3>1. Pos(b, s, w) \in Int /\ Pos(b, s, w) >= 0
      BY PosFacts, FlushValue
    <3> QED BY <2>1, <3>1, FlushValue
  <2> QED BY <2>1, <2>2 DEF Unswept, Due, Flushing
<1> QED BY <1>2, <1>7, <1>8, <1>9

\* Every line of the cache keeps its promise, and a new one has it.
LEMMA LineStep ==
    ASSUME NEW e, Do(e), ControlInv, MemInv, LineInv, ArriveInv, SweepKept(load)
    PROVE  LineInv'
<1>1. Types /\ FillInv /\ load' = load
  BY ClockIs DEF ControlInv
<1> SUFFICES ASSUME NEW b \in {0, 1}, NEW s \in Sets, NEW w \in WayNo, NEW n \in Lines,
                    "VALID" \in Ram(b)'[s][w].flags, Place(n, b, s, w)',
                    NEW d, d = Ram(b)'[s][w].data
             PROVE  /\ Allowed(n) /\ n \notin load.faulty
                    /\ AskedOf(d, n)'
                    /\ \/ IsCode(d, n, fresh'[n])
                       \/ n \in load'.changing /\ (Due(n)' \/ Unswept(b, s, w, n)')
  <2>1. \A n \in Lines : Allowed(n)' <=> Allowed(n)
    BY <1>1 DEF Allowed
  <2> QED BY <1>1, <2>1 DEF LineInv, Valid, Kept, AskedOf
<1>2. Ram(b)'[s][w] = Ram(b)[s][w] => Place(n, b, s, w)
  BY DEF Place
<1>3. CASE ~Fills
  BY <1>2, <1>3, SweptBank, EntryStays
<1>4. CASE Fills
  <2>1. CASE Ram(b)' = Ram(b)
    BY <1>2, <2>1, EntryStays
  <2>2. CASE /\ r.req_addr.odd = b /\ r.req_addr \in LineAddrs
             /\ \E h \in WayNo : \A t \in Sets, x \in WayNo :
                   Ram(b)'[t][x] = IF t = r.req_addr.set /\ x = h
                                   THEN [tag |-> r.req_addr.tag, flags |-> {"VALID"}, data |-> r.cache_line_i]
                                   ELSE Ram(b)[t][x]
    <3>1. PICK h \in WayNo : \A t \in Sets, x \in WayNo :
                   Ram(b)'[t][x] = IF t = r.req_addr.set /\ x = h
                                   THEN [tag |-> r.req_addr.tag, flags |-> {"VALID"}, data |-> r.cache_line_i]
                                   ELSE Ram(b)[t][x]
      BY <2>2
    <3>2. CASE ~(s = r.req_addr.set /\ w = h)
      <4>1. Ram(b)'[s][w] = Ram(b)[s][w]
        BY <3>1, <3>2
      <4> QED BY <1>2, <4>1, EntryStays
    <3>3. CASE s = r.req_addr.set /\ w = h
      <4>1. Ram(b)'[s][w].tag = r.req_addr.tag /\ d = r.cache_line_i
        BY <3>1, <3>3
      <4>2. n = Num(r.req_addr)
        BY <2>2, <3>3, <4>1 DEF Place, Num
      <4>3. Allowed(n) /\ Kept(d, n, FALSE) /\ n \notin load.faulty
        BY <1>1, <1>4, <4>1, <4>2 DEF ArriveInv, FillInv, Fills
      <4>4. ~Taking /\ ~Resetting
        BY <1>4 DEF Fills, Taking, Resetting
      <4>5. AskedOf(d, n)' /\ (IsCode(d, n, fresh'[n]) \/ (n \in load'.changing /\ Due(n)'))
        BY <4>3, <4>4, KeptStep
      <4> QED BY <4>3, <4>5
    <3> QED BY <3>2, <3>3
  <2>3. ~(Emptied(Ram(b), Ram(b)') /\ r.state \in {"FlushCheck", "ResetWrite"})
    BY <1>4 DEF Fills
  <2> QED BY <2>1, <2>2, <2>3, BankStep
<1> QED BY <1>3, <1>4

\* What the memory answers, word by word.
LEMMA AnswerWords ==
    ASSUME ControlInv, bus # None
    PROVE  /\ r.cached => Answer.data = CodeOf(Num(r.write_addr), mem[Num(r.write_addr)])
           /\ ~r.cached =>
                 LET n == Num(asked.addr)
                     w == asked.addr.word
                 IN  /\ Answer.data[w % 2] = Code(n, w, mem[n])
                     /\ Answer.data[(w % 2) + 1] = IF w + 1 < NWords THEN Code(n, w + 1, mem[n])
                                                   ELSE Code(Nxt(n), 0, mem[Nxt(n)])
<1>1. Types /\ FetchInv /\ RequestInv /\ LoadInv /\ r.state = "WaitResp" /\ bus.addr = r.mem_addr
  BY DEF ControlInv, RequestInv
<1>2. /\ Answer.data \in Contents
      /\ \A w \in Words : Answer.data[w] = WordAt(Num(bus.addr), bus.addr.word + w)
  BY <1>1, AnswerTypes
<1>3. ASSUME r.cached
      PROVE  Answer.data = CodeOf(Num(r.write_addr), mem[Num(r.write_addr)])
  <2>1. r.write_addr \in LineAddrs /\ r.mem_addr = LineOf(r.write_addr)
    BY <1>1, <1>3 DEF Types, Registers, LoadInv
  <2>2. Num(bus.addr) = Num(r.write_addr) /\ bus.addr.word = 0
    <3>1. LineOf(r.write_addr) = [tag |-> r.write_addr.tag, set |-> r.write_addr.set,
                                  odd |-> r.write_addr.odd, word |-> 0, way |-> 0]
          /\ Num(LineOf(r.write_addr)) = Num(r.write_addr)
      BY <2>1, LineOfFacts
    <3> QED BY <1>1, <2>1, <3>1
  <2>3. PICK n : n = Num(r.write_addr)
    OBVIOUS
  <2>4. \A w \in Words : Answer.data[w] = Code(n, w, mem[n])
    <3> SUFFICES ASSUME NEW w \in Words
                 PROVE  Answer.data[w] = Code(n, w, mem[n])
      OBVIOUS
    <3>1. w \in Int /\ 0 + w = w /\ w < NWords
      BY Bounds DEF Words
    <3>2. Answer.data[w] = WordAt(n, w)
      BY <1>2, <2>2, <2>3, <3>1
    <3> QED BY <3>1, <3>2 DEF WordAt
  <2>5. Answer.data = [w \in Words |-> Code(n, w, mem[n])]
    BY <1>2, <2>4 DEF Contents
  <2> QED BY <2>3, <2>5 DEF CodeOf
<1>4. ASSUME ~r.cached, NEW n, n = Num(asked.addr), NEW w, w = asked.addr.word
      PROVE  /\ Answer.data[w % 2] = Code(n, w, mem[n])
             /\ Answer.data[(w % 2) + 1] = IF w + 1 < NWords THEN Code(n, w + 1, mem[n])
                                           ELSE Code(Nxt(n), 0, mem[Nxt(n)])
  <2>1. asked.addr \in LineAddrs /\ bus.addr = DWordOf(asked.addr)
    BY <1>1, <1>4, LoadFacts DEF Types, LoadInv, FetchInv, Serving, Looking
  <2>2. Num(bus.addr) = n /\ bus.addr.word + (w % 2) = w /\ w % 2 \in {0, 1} /\ w \in Words
        /\ bus.addr.word \in Words
    BY <1>4, <2>1, LineOfFacts DEF LineAddrs
  <2>3. PICK i : i = w % 2
    OBVIOUS
  <2>4. PICK k : k = bus.addr.word
    OBVIOUS
  <2>5. i \in Words /\ i + 1 \in Words /\ w \in Int /\ w < NWords /\ k + i = w /\ k + (i + 1) = w + 1
    <3>1. i \in {0, 1} /\ k + i = w /\ w \in Words /\ k \in Words
      BY <2>2, <2>3, <2>4
    <3>2. w \in Int /\ k \in Int /\ w < NWords
      BY <3>1, Bounds DEF Words
    <3>3. i \in Words /\ i + 1 \in Words
      BY <3>1, Bounds DEF Words
    <3> QED BY <3>1, <3>2, <3>3
  <2>6. Answer.data[i] = WordAt(n, w) /\ Answer.data[i + 1] = WordAt(n, w + 1)
    <3>1. \A x \in Words : Answer.data[x] = WordAt(n, k + x)
      BY <1>2, <2>2, <2>4
    <3> QED BY <2>5, <3>1
  <2>7. WordAt(n, w) = Code(n, w, mem[n])
    BY <2>5 DEF WordAt
  <2>8. WordAt(n, w + 1) = IF w + 1 < NWords THEN Code(n, w + 1, mem[n])
                           ELSE Code(Nxt(n), 0, mem[Nxt(n)])
    <3>1. w + 1 < NWords \/ (w + 1) - NWords = 0
      BY <2>5, Bounds
    <3> QED BY <3>1 DEF WordAt
  <2> QED BY <2>3, <2>6, <2>7, <2>8
<1> QED BY <1>3, <1>4

\* A line arrives as the memory has it, and only where it is allowed.
LEMMA ArriveStep ==
    ASSUME NEW e, Do(e), ControlInv, MemInv, ArriveInv, SweepKept(load), NextAllowed(load)
    PROVE  ArriveInv'
<1>1. Types /\ FetchInv /\ RequestInv /\ LoadInv /\ NoAlias /\ r \in Registers /\ load' = load
      /\ r.state \in States
  BY ClockIs DEF ControlInv, Types, Registers
<1>2. \A n : Allowed(n)' <=> Allowed(n)
  BY <1>1 DEF Allowed
<1>3. CASE r.state = "TranslateAddress" /\ Num(r.req_addr) \in load.refused
  <2>1. r'.state = "CheckResp" /\ r'.load_fault = TRUE
    BY <1>1, <1>3, RefusedRegs
  <2> QED BY <2>1 DEF ArriveInv, Uncacheable
<1>4. CASE r.state = "TranslateAddress" /\ Num(r.req_addr) \notin load.refused
  <2>1. /\ r'.state = "WaitGrant"
        /\ r'.cached <=> Num(r.req_addr) \notin load.uncached
        /\ r'.cached => r'.write_addr = IF LineHit THEN r.req_addr_next ELSE r.req_addr
    BY <1>1, <1>4, RequestRegs
  <2>2. /\ r.req_addr = asked.addr /\ r.req_addr_next = AddrNext(asked.addr)
        /\ ~(OwnHit /\ (Overlay(asked.addr) => OtherHit))
        /\ asked.addr \in LineAddrs /\ asked.addr \in load.pcs /\ Looked(asked.addr)
    <3>1. Looking /\ ~Taking
      BY <1>4 DEF Looking, Taking
    <3>2. r.req_addr_next = AddrNext(asked.addr) /\ ~(OwnHit /\ (Overlay(asked.addr) => OtherHit))
      BY <1>1, <1>4, <3>1 DEF RequestInv, Serving
    <3> QED BY <3>1, <3>2, LookStep
  <2>3. LineHit <=> OwnHit
    BY <1>1, <2>2, ShownFacts DEF Types
  <2>4. CASE r'.cached /\ LineHit
    <3>1. Overlay(asked.addr) /\ Num(asked.addr) \notin load.refused \cup load.uncached
      BY <1>4, <2>1, <2>2, <2>3, <2>4
    <3>2. Num(r'.write_addr) = Nxt(Num(asked.addr))
      BY <2>1, <2>2, <2>4, NumFacts
    <3>3. Allowed(Nxt(Num(asked.addr)))
      BY <2>2, <3>1 DEF NextAllowed, Allowed
    <3> QED BY <1>2, <2>1, <3>2, <3>3 DEF ArriveInv
  <2>5. CASE r'.cached /\ ~LineHit
    <3>1. Num(r'.write_addr) = Num(r.req_addr)
      BY <2>1, <2>5
    <3>2. Allowed(Num(r.req_addr))
      BY <1>4 DEF Allowed
    <3> QED BY <1>2, <2>1, <3>1, <3>2 DEF ArriveInv
  <2>6. CASE ~r'.cached
    BY <2>1, <2>6 DEF ArriveInv
  <2> QED BY <2>4, <2>5, <2>6
<1>5. CASE r.state = "WaitGrant"
  <2>1. KeepLoad /\ r'.state \in {"WaitGrant", "WaitResp"}
    BY <1>1, <1>5, WaitGrantRegs
  <2> QED BY <1>2, <1>5, <2>1 DEF ArriveInv, KeepLoad
<1>6. CASE r.state = "WaitResp" /\ ~e.answer
  <2>1. KeepLoad /\ r'.state = "WaitResp"
    BY <1>1, <1>6, WaitRespRegs
  <2> QED BY <1>2, <1>6, <2>1 DEF ArriveInv, KeepLoad
<1>7. CASE r.state = "WaitResp" /\ e.answer
  <2>1. /\ r'.cached = r.cached /\ r'.state = "CheckResp"
        /\ r'.cache_line_i = Answer.data /\ r'.req_addr = r.write_addr
    BY <1>1, <1>7, WaitRespRegs
  <2>2. bus # None /\ asked # None /\ asked.addr \in LineAddrs /\ ~Taking /\ ~Resetting
    BY <1>1, <1>7, LoadFacts DEF RequestInv, FetchInv, Serving, Looking, Types, Taking, Resetting
  <2>3. r'.cached => Allowed(Num(r.write_addr)) /\ Kept(r.cache_line_i, Num(r.req_addr), FALSE)'
    <3> SUFFICES ASSUME r.cached
                 PROVE  Allowed(Num(r.write_addr)) /\ Kept(r.cache_line_i, Num(r.req_addr), FALSE)'
      BY <2>1
    <3>1. PICK n \in Lines : n = Num(r.write_addr)
      BY <1>1, NumFacts DEF Registers
    <3>2. PICK d : d = Answer.data
      OBVIOUS
    <3>3. d = CodeOf(n, mem[n])
      BY <2>2, <3>1, <3>2, AnswerWords
    <3>4. IsCode(d, n, fresh[n])
      BY <3>3 DEF MemInv, IsCode
    <3>5. AskedOf(d, n)
      BY <3>3 DEF AskedOf, MemInv, IsCode
    <3>6. Kept(d, n, FALSE)
      BY <3>4, <3>5 DEF Kept
    <3>7. AskedOf(d, n)' /\ (IsCode(d, n, fresh'[n]) \/ (n \in load'.changing /\ Due(n)'))
      BY <2>2, <3>6, KeptStep
    <3>8. r'.cache_line_i = d /\ Num(r'.req_addr) = n
      BY <2>1, <3>1, <3>2
    <3>9. Kept(r.cache_line_i, Num(r.req_addr), FALSE)'
      BY <3>7, <3>8 DEF Kept, AskedOf
    <3>10. Allowed(Num(r.write_addr))
      BY <1>7 DEF ArriveInv
    <3> QED BY <3>9, <3>10
  <2>4. ASSUME ~r'.cached, NEW n, n = Num(asked'.addr), NEW w, w = asked'.addr.word
        PROVE  /\ \E v \in asked'.ok.own : r'.cache_line_i[w % 2] = Code(n, w, v)
               /\ IF w + 1 < NWords
                  THEN \E v \in asked'.ok.own : r'.cache_line_i[(w % 2) + 1] = Code(n, w + 1, v)
                  ELSE \E v \in asked'.ok.nxt : r'.cache_line_i[(w % 2) + 1] = Code(Nxt(n), 0, v)
    <3>1. ~Taken /\ ~Ended
      BY <1>1, <1>7, <2>2, AskFacts, RspFacts DEF Taken
    <3>2. asked' = [addr |-> asked.addr,
                    ok |-> [own |-> asked.ok.own \cup {NextMem(e)[Num(asked.addr)]},
                            nxt |-> asked.ok.nxt \cup {NextMem(e)[Nxt(Num(asked.addr))]}]]
      BY <1>1, <2>2, <3>1, AskFacts
    <3>3. n = Num(asked.addr) /\ w = asked.addr.word
          /\ asked.ok.own \subseteq asked'.ok.own /\ asked.ok.nxt \subseteq asked'.ok.nxt
      BY <2>4, <3>2
    <3>4. mem[n] \in asked'.ok.own /\ mem[Nxt(n)] \in asked'.ok.nxt
      BY <2>2, <3>3 DEF MemInv
    <3>5. /\ r'.cache_line_i[w % 2] = Code(n, w, mem[n])
          /\ r'.cache_line_i[(w % 2) + 1] = IF w + 1 < NWords THEN Code(n, w + 1, mem[n])
                                            ELSE Code(Nxt(n), 0, mem[Nxt(n)])
      BY <2>1, <2>2, <2>4, <3>3, AnswerWords
    <3> QED BY <3>4, <3>5
  <2>5. Num(r'.req_addr) = Num(r.write_addr) /\ (~Uncacheable' => r'.cached)
    BY <2>1 DEF Uncacheable
  <2> QED BY <1>2, <2>1, <2>3, <2>4, <2>5 DEF ArriveInv
<1>8. CASE r.state \notin {"TranslateAddress", "WaitGrant", "WaitResp"}
  <2>1. r'.state \notin {"WaitGrant", "WaitResp", "CheckResp"}
    <3>1. f.resp_ready \/ ~Serving
      BY <1>1 DEF FetchInv
    <3>2. CASE Taking
      BY <3>2, StateStep
    <3>3. CASE r.state = "CheckHit" /\ ~Taking
      BY <1>1, <3>1, <3>3, CheckHitRegs DEF Serving, Looking
    <3>4. CASE r.state = "CheckResp"
      BY <3>4, StateStep
    <3>5. CASE r.state = "SetupReadAdr"
      BY <1>1, <3>5, SetupRegs
    <3>6. CASE r.state = "FlushAddr"
      BY <1>1, <3>6, FlushAddrRegs
    <3>7. CASE r.state = "FlushCheck"
      BY <1>1, <3>7, FlushCheckRegs
    <3>8. CASE Resetting
      BY <1>1, <3>8, ResetRegs
    <3>9. r.state = "Idle" => Taking
      BY DEF Taking
    <3> QED BY <1>1, <1>8, <3>2, <3>3, <3>4, <3>5, <3>6, <3>7, <3>8, <3>9 DEF States, Resetting
  <2> QED BY <2>1 DEF ArriveInv
<1> QED BY <1>1, <1>3, <1>4, <1>5, <1>6, <1>7, <1>8, EnvFacts

\* the line bank b shows
Shown(b) == IF b = 0 THEN Even!Out.data ELSE Odd!Out.data

\* A line that hits is one the fetch may find.
LEMMA ShownLine ==
    ASSUME ControlInv, LineInv, asked # None, Looked(asked.addr), NEW b \in {0, 1}, HitIn(b),
           NEW n, n = Num(InBank(asked.addr, b))
    PROVE  n \in Lines /\ Allowed(n) /\ n \notin load.faulty /\ AskedOf(Shown(b), n)
<1>1. Types /\ NoAlias /\ asked.addr \in LineAddrs
  BY LoadFacts DEF ControlInv, Types
<1>2. /\ ram0 \in Memories /\ lru0 \in Tables /\ rd0 \in BankRegs
      /\ ram1 \in Memories /\ lru1 \in Tables /\ rd1 \in BankRegs
  BY <1>1, BankTypes DEF Types, LineTypeOK
<1>3. Single(ram0) /\ Single(ram1)
  <2>1. Single(Ram(0)) /\ Single(Ram(1))
    BY <1>1 DEF NoAlias, Valid, Single
  <2> QED BY <2>1 DEF Ram
<1> DEFINE a == InBank(asked.addr, b)
<1>4. /\ a \in LineAddrs /\ a.odd = b /\ a.set \in Sets
      /\ Rd(b).addr.set = a.set /\ Rd(b).addr.tag = a.tag /\ ~Rd(b).direct
  <2>1. /\ Rd(b).addr.set = a.set /\ Rd(b).addr.tag = a.tag /\ a \in LineAddrs /\ a.odd = b
    BY <1>1, ShownFacts DEF Types
  <2> QED BY <2>1 DEF Looked, LineAddrs
<1> HIDE DEF a
<1>5. PICK h \in WayNo : Ram(b)[a.set][h].tag = a.tag /\ Valid(b, a.set, h)
  BY <1>4 DEF HitIn
<1>6. HitAt(Ram(b), Rd(b), h)
  BY <1>4, <1>5 DEF HitAt, Valid
<1>7. Shown(b) = Ram(b)[a.set][h].data
  <2>1. CASE b = 0
    <3>1. h = Even!HitIdx /\ Rd(b).addr.set = rd0.addr.set
      BY <1>2, <1>3, <1>4, <1>6, <2>1, SelectedFacts, Lookups DEF Ram, Rd
    <3> QED BY <1>4, <2>1, <3>1 DEF Shown, Even!Out, Ram
  <2>2. CASE b = 1
    <3>1. h = Odd!HitIdx /\ Rd(b).addr.set = rd1.addr.set
      BY <1>2, <1>3, <1>4, <1>6, <2>2, SelectedFacts, Lookups DEF Ram, Rd
    <3> QED BY <1>4, <2>2, <3>1 DEF Shown, Odd!Out, Ram
  <2> QED BY <2>1, <2>2
<1>8. n = Num(a) /\ n \in Lines
  BY <1>4, NumFacts DEF a
<1>9. Place(n, b, a.set, h)
  BY <1>1, <1>4, <1>5, <1>8, PlaceFacts
<1> QED BY <1>4, <1>5, <1>7, <1>8, <1>9 DEF LineInv, Kept

\* What the core reads of a line, and the first word of the other one.
LEMMA RDataWords ==
    ASSUME radr.odd \in {0, 1}, NEW w \in Words
    PROVE  /\ RData[w] = Shown(radr.odd)[w]
           /\ RData[w + 1] = IF w + 1 < NWords THEN Shown(radr.odd)[w + 1] ELSE Shown(1 - radr.odd)[0]
<1>1. w \in 0 .. NWords /\ w + 1 \in 0 .. NWords /\ w < NWords
  BY Bounds DEF Words
<1>2. RData = [i \in 0 .. NWords |->
                 IF i < NWords THEN (IF radr.odd = 0 THEN Even!Out.data ELSE Odd!Out.data)[i]
                 ELSE (IF radr.odd = 0 THEN Odd!Out.data ELSE Even!Out.data)[0]]
  BY DEF RData
<1>3. Shown(radr.odd) = (IF radr.odd = 0 THEN Even!Out.data ELSE Odd!Out.data)
      /\ Shown(1 - radr.odd) = (IF radr.odd = 0 THEN Odd!Out.data ELSE Even!Out.data)
  BY DEF Shown
<1> QED BY <1>1, <1>2, <1>3

\* An answer from the cache is the code of its address.
LEMMA HitGood ==
    ASSUME ControlInv, LineInv, r.state = "CheckHit", BothHit
    PROVE  Judge(Rsp) = "good"
<1>1. Types /\ FetchInv /\ PortInv /\ RequestInv /\ NoAlias
  BY DEF ControlInv
<1>2. asked # None /\ Looked(asked.addr) /\ r.req_addr = asked.addr
  BY <1>1 DEF FetchInv, Serving, Looking, PortInv, RequestInv
<1>3. asked.addr \in LineAddrs /\ asked.addr \in load.pcs /\ radr = asked.addr
      /\ asked.addr.odd \in {0, 1} /\ asked.addr.word \in Words
  BY <1>1, <1>2, LoadFacts DEF Types, LineAddrs, Looked
<1>4. OwnHit /\ (Overlay(asked.addr) => OtherHit)
  BY <1>1, <1>2, <1>3, ShownFacts DEF Types, BothHit
<1>5. PICK n : n = Num(asked.addr)
  OBVIOUS
<1>6. PICK w \in Words : w = asked.addr.word
  BY <1>3
<1>7. n \notin load.refused \cup load.faulty /\ IsCode(Shown(asked.addr.odd), n, asked.ok.own)
  <2>1. InBank(asked.addr, asked.addr.odd) = asked.addr /\ HitIn(asked.addr.odd)
    BY <1>3, <1>4 DEF InBank, OwnHit
  <2>2. Allowed(n) /\ n \notin load.faulty /\ AskedOf(Shown(asked.addr.odd), n)
    BY <1>2, <1>3, <1>5, <2>1, ShownLine
  <2> QED BY <1>2, <1>3, <1>5, <2>2 DEF Allowed, AskedOf
<1>8. Overlay(asked.addr) => IsCode(Shown(1 - asked.addr.odd), Nxt(n), asked.ok.nxt)
  <2> SUFFICES ASSUME Overlay(asked.addr)
               PROVE  IsCode(Shown(1 - asked.addr.odd), Nxt(n), asked.ok.nxt)
    OBVIOUS
  <2>1. 1 - asked.addr.odd \in {0, 1} /\ 1 - asked.addr.odd # asked.addr.odd
    BY <1>3
  <2>2. InBank(asked.addr, 1 - asked.addr.odd) = AddrNext(asked.addr) /\ HitIn(1 - asked.addr.odd)
    BY <1>3, <1>4, <2>1 DEF InBank, OtherHit
  <2>3. Num(AddrNext(asked.addr)) = Nxt(n)
    BY <1>3, <1>5, NumFacts
  <2>4. AskedOf(Shown(1 - asked.addr.odd), Nxt(n))
    BY <1>2, <2>1, <2>2, <2>3, ShownLine
  <2> QED BY <1>2, <1>5, <2>4 DEF AskedOf
<1>9. /\ Rsp.data[1] = RData[w] /\ Rsp.data[2] = RData[w + 1] /\ ~Rsp.fault
  BY <1>1, <1>2, <1>6, RspFacts
<1>10. /\ RData[w] = Shown(asked.addr.odd)[w]
       /\ RData[w + 1] = IF w + 1 < NWords THEN Shown(asked.addr.odd)[w + 1]
                         ELSE Shown(1 - asked.addr.odd)[0]
  BY <1>3, RDataWords
<1>11. w \in Nat /\ w < NWords /\ (w + 1 < NWords => w + 1 \in Words)
       /\ (~(w + 1 < NWords) => Overlay(asked.addr)) /\ 0 \in Words
  BY <1>6, Bounds DEF Words, Overlay
<1>12. Rsp.data[1] \in {Code(n, w, v) : v \in asked.ok.own}
  BY <1>7, <1>9, <1>10 DEF IsCode, CodeOf
<1>13. w + 1 < NWords => Rsp.data[2] \in {Code(n, w + 1, v) : v \in asked.ok.own}
  BY <1>7, <1>9, <1>10, <1>11 DEF IsCode, CodeOf
<1>14. ~(w + 1 < NWords) => Rsp.data[2] \in {Code(Nxt(n), 0, v) : v \in asked.ok.nxt}
  BY <1>8, <1>9, <1>10, <1>11 DEF IsCode, CodeOf
<1> QED BY <1>5, <1>6, <1>7, <1>9, <1>12, <1>13, <1>14 DEF Judge

\* An answer that comes from the memory, or a refusal.
LEMMA RespGood ==
    ASSUME ControlInv, ArriveInv, r.state = "CheckResp", Uncacheable
    PROVE  Judge(Rsp) \in {"good", "fault"}
<1>1. Types /\ FetchInv /\ FillInv /\ NoAlias
  BY DEF ControlInv
<1>2. asked # None
  BY <1>1 DEF FetchInv, Serving, Looking
<1>3. asked.addr \in LineAddrs /\ asked.addr.word \in Words
  BY <1>1, <1>2, LoadFacts DEF Types, LineAddrs
<1>4. /\ Rsp.data[1] = r.cache_line_i[r.req_addr.word % 2]
      /\ Rsp.data[2] = r.cache_line_i[(r.req_addr.word % 2) + 1]
      /\ Rsp.fault <=> r.load_fault
  BY <1>1, RspFacts
<1>5. PICK n : n = Num(asked.addr)
  OBVIOUS
<1>6. PICK w \in Words : w = asked.addr.word
  BY <1>3
<1>7. CASE r.load_fault
  <2>1. \/ n \in load.refused \cup load.faulty
        \/ Overlay(asked.addr) /\ Nxt(n) \in load.faulty
    BY <1>1, <1>5, <1>7 DEF FillInv
  <2> QED BY <1>4, <1>5, <1>7, <2>1 DEF Judge
<1>8. CASE ~r.load_fault
  <2>1. ~r.cached /\ r.req_addr = asked.addr /\ n \notin load.refused \cup load.faulty
    BY <1>1, <1>5, <1>8 DEF FillInv, Uncacheable
  <2>2. /\ \E v \in asked.ok.own : r.cache_line_i[w % 2] = Code(n, w, v)
        /\ IF w + 1 < NWords
           THEN \E v \in asked.ok.own : r.cache_line_i[(w % 2) + 1] = Code(n, w + 1, v)
           ELSE \E v \in asked.ok.nxt : r.cache_line_i[(w % 2) + 1] = Code(Nxt(n), 0, v)
    BY <1>5, <1>6, <1>8, <2>1 DEF ArriveInv
  <2>3. Rsp.data[1] = r.cache_line_i[w % 2] /\ Rsp.data[2] = r.cache_line_i[(w % 2) + 1] /\ ~Rsp.fault
    BY <1>4, <1>6, <1>8, <2>1
  <2>4. Rsp.data[1] \in {Code(n, w, v) : v \in asked.ok.own}
    BY <2>2, <2>3
  <2>5. w + 1 < NWords => Rsp.data[2] \in {Code(n, w + 1, v) : v \in asked.ok.own}
    BY <2>2, <2>3
  <2>6. ~(w + 1 < NWords) => Rsp.data[2] \in {Code(Nxt(n), 0, v) : v \in asked.ok.nxt}
    BY <2>2, <2>3
  <2> QED BY <1>5, <1>6, <2>1, <2>3, <2>4, <2>5, <2>6 DEF Judge
<1> QED BY <1>7, <1>8

\* Every answer is to the fetch that was asked, and right.
LEMMA JudgedStep ==
    ASSUME NEW e, Do(e), ControlInv, LineInv, ArriveInv
    PROVE  Judged'
<1>1. Types /\ FetchInv /\ NoAlias
  BY DEF ControlInv
<1>2. judged' = IF ~Ended THEN "none"
                ELSE IF asked = None THEN "unasked"
                ELSE IF f.state # "WaitResp" THEN "lost" ELSE Judge(Rsp)
  BY ClockIs
<1>3. CASE ~Ended
  BY <1>2, <1>3 DEF Judged
<1>4. CASE Ended
  <2>1. asked # None /\ f.state = "WaitResp"
    BY <1>1, <1>4, AskFacts DEF FetchInv
  <2>2. (r.state = "CheckHit" /\ BothHit) \/ (r.state = "CheckResp" /\ Uncacheable)
    BY <1>1, <1>4, RspFacts DEF Ended
  <2>3. Judge(Rsp) \in {"good", "fault"}
    BY <2>2, HitGood, RespGood
  <2> QED BY <1>2, <1>4, <2>1, <2>3 DEF Judged
<1> QED BY <1>3, <1>4

----------------------------------------------------------------------------
(***************************************************************************)
(* The theorems about the data.  They need of the workload that a line     *)
(* that follows a fetched one may be executed (NextAllowed) and that a     *)
(* sweep over all lines is not cut short while code changes (SweepKept).   *)
(***************************************************************************)
Careful == \A w \in Workloads : NextAllowed(w) /\ SweepKept(w)

\* Every clock keeps the data invariant.
LEMMA DataStep ==
    ASSUME NEW e, Do(e), PathInv, Careful
    PROVE  DataInv'
<1>1. ControlInv /\ MemInv /\ LineInv /\ ArriveInv
  BY DEF PathInv, DataInv
<1>2. NextAllowed(load) /\ SweepKept(load)
  BY <1>1 DEF Careful, ControlInv, Types
<1> QED BY <1>1, <1>2, MemStep, LineStep, ArriveStep, JudgedStep DEF DataInv

\* A step without a clock changes nothing.
LEMMA DataStutter ==
    ASSUME DataInv, UNCHANGED vars
    PROVE  DataInv'
<1>1. /\ ram0' = ram0 /\ ram1' = ram1 /\ r' = r /\ load' = load /\ mem' = mem
      /\ asked' = asked /\ fresh' = fresh /\ judged' = judged
  BY DEF vars, ivars, envvars, linevars
<1>2. MemInv' /\ Judged'
  BY <1>1 DEF DataInv, MemInv, Judged
<1>3. \A d, n : AskedOf(d, n)' <=> AskedOf(d, n)
  BY <1>1 DEF AskedOf
<1>4. \A b : Ram(b)' = Ram(b)
  BY <1>1 DEF Ram
<1>5. LineInv'
  BY <1>1, <1>3, <1>4 DEF DataInv, LineInv, Valid, Place, Allowed, Kept, AskedOf, Due, Unswept, Flushing
<1>6. ArriveInv'
  BY <1>1, <1>3 DEF DataInv, ArriveInv, Uncacheable, Allowed, Kept, AskedOf, Due
<1> QED BY <1>2, <1>5, <1>6 DEF DataInv

\* The data invariant holds after the reset.
LEMMA DataInit ==
    ASSUME Init
    PROVE  DataInv
<1>1. /\ mem = [n \in Lines |-> 0] /\ asked = None /\ fresh = [n \in Lines |-> {0}] /\ judged = "none"
      /\ r.state = "Reset"
  BY DEF Init, IInit
<1>2. ControlInv
  BY ControlInit
<1>3. \A b \in {0, 1}, s \in Sets, w \in WayNo : ~Valid(b, s, w)
  BY <1>1, <1>2 DEF ControlInv, SweepInv, Resetting
<1> QED BY <1>1, <1>3 DEF DataInv, MemInv, LineInv, ArriveInv, Judged

\* Every line of the cache, and the one that arrives, holds a version of its code that
\* the next fetch of it may find, or a flush of it is under way (icache_lru.cpp).
THEOREM PathInvariant == Careful => (Spec => []PathInv)
<1> SUFFICES ASSUME Careful
             PROVE  Spec => []PathInv
  OBVIOUS
<1>1. Init => PathInv
  BY ControlInit, DataInit DEF PathInv
<1>2. PathInv /\ [Next]_vars => PathInv'
  <2>1. ASSUME PathInv, Next
        PROVE  PathInv'
    <3>1. PICK e : Do(e)
      BY <2>1, NextClock
    <3> QED BY <2>1, <3>1, ControlStep, DataStep DEF PathInv
  <2>2. ASSUME PathInv, UNCHANGED vars
        PROVE  PathInv'
    BY <2>2, ControlStutter, DataStutter DEF PathInv
  <2> QED BY <2>1, <2>2
<1> QED BY <1>1, <1>2, PTL DEF Spec

\* An instruction handed to the decoder is the code of its address, never older than
\* the last fence before the fetch, and a fetch fails exactly when one of its lines is
\* refused (CheckHit, TranslateAddress and CheckResp of icache_lru.cpp).
THEOREM PathFetchReturnsCode == Careful => (Spec => []FetchReturnsCode)
<1> SUFFICES ASSUME Careful
             PROVE  Spec => []FetchReturnsCode
  OBVIOUS
<1>1. Judged => judged \notin {"stale", "unasked", "lost", "groundless", "unprotected"}
  BY DEF Judged
<1>2. PathInv /\ TypeOK => FetchReturnsCode
  BY <1>1 DEF PathInv, DataInv, FetchReturnsCode
<1> QED BY <1>2, PathInvariant, TypeCorrect, PTL

============================================================================
