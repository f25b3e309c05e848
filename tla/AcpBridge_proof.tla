-------------------------- MODULE AcpBridge_proof --------------------------
(***************************************************************************)
(* Proofs about the bridge from an accelerator to the L2 cache, for every  *)
(* number of lines, words of a line, contents and burst lengths, whether   *)
(* or not both engines of the accelerator work at the same time.           *)
(*                                                                         *)
(* The inductive invariant BridgeInv says which beat of which burst the    *)
(* registers stand for (StateInv, WriteInv, ReadInv), what the L2 cache    *)
(* works on meanwhile (PortInv), how many lines of a write burst it has    *)
(* answered (CountInv), and what the registers carry of the line that was  *)
(* read (CarryInv).  Every state of the bridge has a lemma ..Keeps: its    *)
(* clock keeps these; CachesKeep has the types of the caches, the memory   *)
(* and the counter.                                                        *)
(***************************************************************************)
EXTENDS AcpBridge, TLAPS

\* the bursts of the two engines, and the requests of the bridge to the L2 cache
ReadBursts == [addr : Words, len : 0 .. MaxLen, got : 0 .. MaxLen, taken : BOOLEAN]
WriteBursts ==
    [addr : Words, len : 0 .. MaxLen, data : Vals, sent : 0 .. MaxLen + 1, taken : BOOLEAN]
Requests == [line : 0 .. NLines - 1, data : Lines \cup {None}]

\* types of the bridge and the engines, of the caches and the memory
TypeInv ==
    /\ r \in Registers
    /\ rd = None \/ (rd \in ReadBursts /\ rd.got <= rd.len)
    /\ wr = None \/ (wr \in WriteBursts /\ wr.sent <= wr.len + 1)
    /\ port = None \/ port \in Requests

CacheInv ==
    /\ mem \in [Words -> Vals] /\ seen \in [Words -> Vals] \cup {None}
    /\ l1 \in [0 .. NLines - 1 -> Copies \cup {None}]
    /\ l2 \in [0 .. NLines - 1 -> Copies \cup {None}]
    /\ out \in [line : 0 .. NLines - 1, data : Lines] \cup {None}
    /\ done \in 0 .. MaxLen + 1

\* the states behind the read of a written line, and those of the read
WriteStates == {"WriteLineRequest", "WaitWriteConfirmResponse", "WaitWriteAccept"}
LineStates == {"ReadLineRequest", "WaitReadLineResponse"}

\* a word of a write burst is taken and its line not yet read
Pending == r.writing /\ r.state \in LineStates
\* a write of a line is inside the L2 cache
Posted == port # None /\ port.data # None

(***************************************************************************)
(* Which beat of which burst the registers stand for.                      *)
(***************************************************************************)
StateInv ==
    /\ r.state \in WriteStates \cup {"WriteDataAccept"} => r.writing
    /\ r.state = "WaitReadAccept" => ~r.writing
    /\ r.state \in LineStates => (r.rmw <=> r.writing)
    /\ r.state \in {"WaitWriteConfirmResponse", "WaitWriteAccept"} => r.req_len = 0
    /\ r.state = "CheckBurst" /\ r.writing => r.req_len # 0

\* the write burst: wr.sent counts its beats, and r.req_len those that are left
WriteInv ==
    /\ wr # None => (wr.taken <=> r.writing /\ r.state # "Idle") /\ (~wr.taken => wr.sent = 0)
    /\ r.writing /\ r.state # "Idle" =>
        /\ wr # None /\ r.req_len <= wr.len
        /\ r.req_addr = Beat(wr, wr.len - r.req_len)
        /\ wr.sent = wr.len - r.req_len + (IF r.state = "WriteDataAccept" THEN 0 ELSE 1)

\* the read burst: a taken one that lost its turn to a write stays at its first beat
ReadInv ==
    /\ rd # None /\ ~rd.taken => rd.got = 0
    /\ r.state \in LineStates \cup {"WaitReadAccept"} /\ ~r.writing =>
        /\ rd # None /\ rd.taken /\ r.req_len = rd.len - rd.got
        /\ r.req_addr = Beat(rd, rd.got)
    /\ r.state = "CheckBurst" /\ ~r.writing /\ r.req_len # 0 =>
        /\ rd # None /\ rd.taken /\ r.req_len = rd.len - rd.got + 1
        /\ r.req_addr = Beat(rd, rd.got - 1) /\ rd.got # 0

\* only a write of a line goes on while the bridge takes the next beat
PortInv ==
    /\ r.state = "WaitReadLineResponse" <=> port # None /\ port.data = None
    /\ r.state = "WaitReadLineResponse" => port.line = LineOf(r.req_addr)
    /\ r.state = "WaitWriteConfirmResponse" => Posted
    /\ Posted => /\ r.writing
                 /\ r.state \in {"WaitWriteConfirmResponse", "CheckBurst", "WriteDataAccept",
                                 "ReadLineRequest"}

\* the lines of the write burst: answered, inside the L2 cache, and before that
Opened == IF Posted THEN 1 ELSE 0
Ahead == IF r.state \in LineStates \cup {"WriteLineRequest"} THEN 1 ELSE 0
CountInv ==
    /\ wr # None /\ ~wr.taken => done = 0
    /\ r.writing /\ r.state # "Idle" => done + Opened + Ahead = wr.sent

\* what the registers carry: the beat until its line is read, the word that is
\* offered to the read engine, the line that is to be written
CarryInv ==
    /\ Pending => r.req_wdata = wr.data /\ (r.req_wstrb <=> Strobed(wr.sent - 1))
    /\ r.state = "WaitReadAccept" => r.resp_data = seen[r.req_addr]
    /\ r.state = "WriteLineRequest" => OwnLine(r.req_addr, wr.data)

CtrlInv == TypeInv /\ StateInv /\ WriteInv /\ ReadInv /\ PortInv /\ CountInv /\ CarryInv
BridgeInv == CtrlInv /\ CacheInv

----------------------------------------------------------------------------
\* The page: words, lines and beats.

\* a word is found by its line and its place in the line
LEMMA PageFacts ==
    /\ NWords \in Nat \ {0} /\ NLines \in Nat \ {0} /\ PageWords \in Nat \ {0}
    /\ 0 \in Words
    /\ \A a \in Words : /\ LineOf(a) \in 0 .. NLines - 1 /\ a % NWords \in Idx
                        /\ a = LineOf(a) * NWords + (a % NWords)
    /\ \A l \in 0 .. NLines - 1, i \in Idx : l * NWords + i \in Words
<1>1. /\ NWords \in Nat /\ NWords > 0 /\ NLines \in Nat /\ NLines > 0
  BY AcpAssumption
<1>2. PageWords \in Nat /\ PageWords > 0
  BY <1>1 DEF PageWords
<1>3. ASSUME NEW l \in 0 .. NLines - 1, NEW i \in Idx PROVE l * NWords + i \in Words
  <2>1. l * NWords \in Nat /\ (NLines - 1 - l) * NWords \in Nat
    BY <1>1, <1>3
  <2>2. (NLines - 1 - l) * NWords = NLines * NWords - NWords - l * NWords
    BY <1>1, <1>3
  <2> QED BY <1>1, <1>2, <1>3, <2>1, <2>2 DEF Words, PageWords, Idx
<1>4. ASSUME NEW a \in Words
      PROVE  /\ LineOf(a) \in 0 .. NLines - 1 /\ a % NWords \in Idx
             /\ a = LineOf(a) * NWords + (a % NWords)
  <2>1. a \in Nat /\ a < NLines * NWords
    BY <1>1, <1>2, <1>4 DEF Words, PageWords
  <2>2. /\ LineOf(a) \in Nat /\ a % NWords \in Idx
        /\ a = LineOf(a) * NWords + (a % NWords)
    BY <1>1, <2>1 DEF LineOf, Idx
  <2>3. ~(LineOf(a) >= NLines)
    <3>1. SUFFICES ASSUME LineOf(a) >= NLines PROVE FALSE
      OBVIOUS
    <3>2. (LineOf(a) - NLines) * NWords \in Nat
      BY <1>1, <2>2, <3>1
    <3>3. (LineOf(a) - NLines) * NWords = LineOf(a) * NWords - NLines * NWords
      BY <1>1, <2>2
    <3> QED BY <1>1, <2>1, <2>2, <3>2, <3>3 DEF Idx
  <2> QED BY <1>1, <2>2, <2>3
<1> QED BY <1>1, <1>2, <1>3, <1>4 DEF Words

\* what the remainder is that a quotient leaves
LEMMA Remainder ==
    ASSUME NEW p \in Nat, NEW q \in Nat, NEW m \in 0 .. p - 1
    PROVE  (p * q + m) % p = m
<1> DEFINE n == p * q + m
           k == n \div p
           l == n % p
<1>1. p > 0 /\ n \in Nat
  OBVIOUS
<1>2. k \in Nat /\ l \in 0 .. p - 1 /\ n = p * k + l
  BY <1>1
<1>3. n = p * q + m
  OBVIOUS
<1> HIDE DEF n, k, l
<1>4. p * (k - q) = m - l
  BY <1>2, <1>3
<1>5. ~(k - q >= 1)
  <2>1. SUFFICES ASSUME k - q - 1 \in Nat PROVE FALSE
    BY <1>2
  <2>2. p * ((k - q) - 1) \in Nat /\ p * ((k - q) - 1) = p * (k - q) - p
    BY <1>2, <2>1
  <2> QED BY <1>2, <1>4, <2>2
<1>6. ~(k - q <= -1)
  <2>1. SUFFICES ASSUME q - k - 1 \in Nat PROVE FALSE
    BY <1>2
  <2>2. p * ((q - k) - 1) \in Nat /\ p * ((q - k) - 1) = (0 - p * (k - q)) - p
    BY <1>2, <2>1
  <2> QED BY <1>2, <1>4, <2>2
<1>7. k = q
  BY <1>2, <1>5, <1>6
<1> QED BY <1>2, <1>3, <1>7 DEF l

\* a remainder that is counted on stays one
LEMMA RemainderStep ==
    ASSUME NEW p \in Nat \ {0}, NEW n \in Nat
    PROVE  ((n % p) + 1) % p = (n + 1) % p
<1> DEFINE q == n \div p
           m == n % p
<1>1. q \in Nat /\ m \in 0 .. p - 1 /\ n = p * q + m
  OBVIOUS
<1> HIDE DEF q, m
<1>2. (n + 1) % p = (m + 1) % p
  <2>1. CASE m + 1 < p
    <3>1. n + 1 = p * q + (m + 1) /\ m + 1 \in 0 .. p - 1
      BY <1>1, <2>1
    <3>2. (n + 1) % p = m + 1
      BY <1>1, <3>1, Remainder
    <3>3. (m + 1) % p = m + 1
      <4>1. m + 1 = p * 0 + (m + 1)
        BY <1>1
      <4> QED BY <3>1, <4>1, Remainder
    <3> QED BY <3>2, <3>3
  <2>2. CASE m + 1 = p
    <3>1. p * (q + 1) = p * q + p
      BY <1>1
    <3>2. n + 1 = p * (q + 1) + 0 /\ q + 1 \in Nat /\ 0 \in 0 .. p - 1
      BY <1>1, <2>2, <3>1
    <3>3. (n + 1) % p = 0
      BY <1>1, <3>2, Remainder
    <3>4. m + 1 = p * 1 + 0
      BY <1>1, <2>2
    <3>5. (m + 1) % p = 0
      BY <3>2, <3>4, Remainder
    <3> QED BY <3>3, <3>5
  <2> QED BY <1>1, <2>1, <2>2
<1> QED BY <1>2 DEF m

\* vb_req_addr_next of a beat is the address of the beat behind it
LEMMA NextBeat ==
    ASSUME NEW a \in Words, NEW i \in Nat
    PROVE  Next12((a + i) % PageWords) = (a + (i + 1)) % PageWords
<1>1. a + i \in Nat /\ (a + i) + 1 = a + (i + 1)
  BY DEF Words
<1> QED BY <1>1, PageFacts, RemainderStep DEF Next12

\* a beat is a word of the page, and the first one is at the address of the burst
LEMMA BeatFacts ==
    ASSUME NEW q, q.addr \in Words
    PROVE  /\ \A i \in Nat : Beat(q, i) \in Words /\ Next12(Beat(q, i)) = Beat(q, i + 1)
           /\ Beat(q, 0) = q.addr
<1>1. PageWords \in Nat /\ PageWords > 0
  BY PageFacts
<1>2. q.addr \in Nat /\ q.addr < PageWords
  BY <1>1 DEF Words
<1>3. ASSUME NEW i \in Nat PROVE Beat(q, i) \in Words
  BY <1>1, <1>2, <1>3 DEF Beat, Words
<1>4. ASSUME NEW i \in Nat PROVE Next12(Beat(q, i)) = Beat(q, i + 1)
  BY NextBeat DEF Beat
<1>5. Beat(q, 0) = q.addr
  <2>1. q.addr + 0 = PageWords * 0 + q.addr /\ q.addr \in 0 .. PageWords - 1
    BY <1>1, <1>2
  <2> QED BY <1>1, <2>1, Remainder DEF Beat
<1> QED BY <1>3, <1>4, <1>5

\* words of one line are told by their places
LEMMA LineFacts ==
    ASSUME NEW a \in Words, NEW b \in Words, LineOf(a) = LineOf(b)
    PROVE  a % NWords = b % NWords <=> a = b
BY PageFacts

\* what the caches answer for a line is a line
LEMMA AnsweredFacts ==
    ASSUME CacheInv, NEW l \in 0 .. NLines - 1, NEW late
    PROVE  Answered(l, late) \in Lines
<1>1. LineIn(l) \in Lines
  BY PageFacts DEF CacheInv, LineIn, Lines
<1>2. \A q \in Copies : q.data \in Lines
  BY DEF Copies
<1>3. (l1[l] # None => l1[l] \in Copies) /\ (l2[l] # None => l2[l] \in Copies)
  BY DEF CacheInv
<1>4. Below(l) \in Lines /\ (l1[l] # None => l1[l].data \in Lines)
  BY <1>1, <1>2, <1>3, Zenon DEF Below
<1> QED BY <1>4, Zenon DEF Answered, Held

----------------------------------------------------------------------------
\* The clocks, by the state of the bridge.

Step(answer, late, w_now, r_ready, b_ready) ==
    (answer => port # None) /\ Clock(answer, late, w_now, r_ready, b_ready)

\* an engine that has no part in the clock: it may start a burst
RdKept == rd' = rd \/ (rd = None /\ rd' \in Reads)
WrKept == wr' = wr \/ (wr = None /\ wr' \in Writes)

\* a new burst is well formed and not taken
LEMMA NewBursts ==
    /\ \A q \in Reads : q \in ReadBursts /\ q.got = 0 /\ ~q.taken /\ q # None
    /\ \A q \in Writes : q \in WriteBursts /\ q.sent = 0 /\ ~q.taken /\ q # None
<1>1. {0} \subseteq 0 .. MaxLen /\ {0} \subseteq 0 .. MaxLen + 1 /\ {FALSE} \subseteq BOOLEAN
  BY AcpAssumption
<1>2. Reads \subseteq ReadBursts /\ Writes \subseteq WriteBursts
  BY <1>1, Zenon DEF Reads, ReadBursts, Writes, WriteBursts
<1>3. ASSUME NEW q \in Reads PROVE q.got = 0 /\ q.taken = FALSE
  BY DEF Reads
<1>4. ASSUME NEW q \in Writes PROVE q.sent = 0 /\ q.taken = FALSE
  BY DEF Writes
<1> QED BY <1>2, <1>3, <1>4, NoneAssumption DEF ReadBursts, WriteBursts

\* what the invariant says of the engines when one of them starts a burst
LEMMA KeptBursts ==
    /\ TypeInv /\ RdKept => rd' = None \/ (rd' \in ReadBursts /\ rd'.got <= rd'.len)
    /\ TypeInv /\ WrKept => wr' = None \/ (wr' \in WriteBursts /\ wr'.sent <= wr'.len + 1)
    /\ RdKept /\ rd # None => rd' = rd
    /\ WrKept /\ wr # None => wr' = wr
    /\ RdKept /\ rd = None => rd' = None \/ (rd' # None /\ ~rd'.taken /\ rd'.got = 0)
    /\ WrKept /\ wr = None => wr' = None \/ (wr' # None /\ ~wr'.taken /\ wr'.sent = 0)
<1>1. MaxLen \in Nat
  BY AcpAssumption
<1>2. \A q \in ReadBursts : q.len \in Nat
  BY <1>1 DEF ReadBursts
<1>3. \A q \in WriteBursts : q.len \in Nat
  BY <1>1 DEF WriteBursts
<1> QED BY <1>2, <1>3, NewBursts DEF TypeInv, RdKept, WrKept

\* the types of the caches and the memory, whatever they answer
LEMMA CachesKeep ==
    ASSUME BridgeInv, NEW answer, NEW late, NEW w_now, NEW r_ready, NEW b_ready,
           Step(answer, late, w_now, r_ready, b_ready)
    PROVE  CacheInv'
<1> DEFINE L == 0 .. NLines - 1
<1>1. /\ CacheInv /\ 0 \in Vals /\ MaxLen \in Nat /\ out' = out
      /\ answer => port # None /\ port \in Requests
  BY AcpAssumption DEF BridgeInv, CtrlInv, TypeInv, Step, Clock
<1>2. answer => port.line \in L /\ (port.data # None => port.data \in [Idx -> Vals])
  BY <1>1 DEF Requests, Lines
<1>3. \A l \in L : /\ Without(l1, l) \in [L -> Copies \cup {None}]
                   /\ Without(l2, l) \in [L -> Copies \cup {None}]
  BY <1>1 DEF CacheInv, Without
<1>4. done' \in 0 .. MaxLen + 1
  <2>1. done' = IF wr = None THEN 0 ELSE IF answer /\ port.data # None THEN done + 1 ELSE done
    BY DEF Step, Clock
  <2>2. CASE wr # None /\ answer /\ port.data # None
    <3>1. Posted /\ r.writing /\ r.state # "Idle"
      BY <1>1, <2>2 DEF BridgeInv, CtrlInv, PortInv, Posted
    <3>2. done + 1 + Ahead = wr.sent /\ wr \in WriteBursts
      BY <2>2, <3>1 DEF BridgeInv, CtrlInv, CountInv, Opened, TypeInv
    <3>3. wr.sent \in 0 .. MaxLen + 1 /\ Ahead \in {0, 1} /\ done \in Nat
      BY <1>1, <3>2 DEF WriteBursts, Ahead, CacheInv
    <3> QED BY <1>1, <2>1, <2>2, <3>2, <3>3
  <2>3. CASE ~(wr # None /\ answer /\ port.data # None)
    BY <1>1, <2>1, <2>3 DEF CacheInv
  <2> QED BY <2>2, <2>3
<1>5. CASE answer /\ port.data = None
  <2>1. LineGiven(late)
    BY <1>5 DEF Step, Clock
  <2>2. \A a \in Words : Answered(LineOf(a), late)[a % NWords] \in Vals
    BY <1>1, AnsweredFacts, PageFacts DEF Lines
  <2>3. seen' \in [Words -> Vals]
    BY <2>1, <2>2 DEF LineGiven
  <2> QED BY <1>1, <1>2, <1>3, <1>4, <1>5, <2>1, <2>3 DEF CacheInv, LineGiven
<1>6. CASE ~(answer /\ port.data = None)
  <2>1. seen' = IF r'.state = r.state THEN seen ELSE None
    BY <1>6 DEF Step, Clock
  <2>2. CASE answer
    <3>1. LineWritten
      BY <1>6, <2>2 DEF Step, Clock
    <3>2. port.data[0] \in Vals
      <4>1. 0 \in Idx
        BY PageFacts DEF Idx
      <4> QED BY <1>2, <1>6, <2>2, <4>1, Zenon
    <3>3. mem' \in [Words -> Vals]
      BY <1>1, <3>1, <3>2 DEF CacheInv, LineWritten
    <3> QED BY <1>1, <1>2, <1>3, <1>4, <2>1, <2>2, <3>1, <3>3 DEF CacheInv, LineWritten
  <2>3. CASE ~answer
    BY <1>1, <1>4, <2>1, <2>3 DEF CacheInv, Step, Clock
  <2> QED BY <2>2, <2>3
<1> QED BY <1>5, <1>6

\* The L2 cache goes on with its request, or ends it.
PortKept(answer) ==
    /\ port' = IF answer THEN None ELSE port
    /\ done' = IF wr = None THEN 0 ELSE IF answer /\ Posted THEN done + 1 ELSE done
    /\ (answer => r.state # "WaitReadLineResponse") =>
          seen' = IF r'.state = r.state THEN seen ELSE None

\* the request of the bridge inside the L2 cache, in every clock that offers no new one
LEMMA PortKeeps ==
    ASSUME BridgeInv, NEW answer, NEW late, NEW w_now, NEW r_ready, NEW b_ready,
           Step(answer, late, w_now, r_ready, b_ready),
           ~Free \/ r.state \notin {"ReadLineRequest", "WriteLineRequest"}
    PROVE  PortKept(answer)
<1>1. port' = IF answer THEN None ELSE port
  BY DEF Step, Clock, PortRequest, Free
<1>2. answer => (port.data # None <=> Posted)
  BY DEF Step, Posted
<1>3. done' = IF wr = None THEN 0 ELSE IF answer /\ Posted THEN done + 1 ELSE done
  BY <1>2 DEF Step, Clock
<1>4. (answer => r.state # "WaitReadLineResponse") => ~(answer /\ port.data = None)
  BY DEF Step, BridgeInv, CtrlInv, PortInv
<1>5. ~(answer /\ port.data = None) => seen' = IF r'.state = r.state THEN seen ELSE None
  BY DEF Step, Clock
<1> QED BY <1>1, <1>3, <1>4, <1>5 DEF PortKept

\* every line of the write burst is still counted once
LEMMA CountKeeps ==
    ASSUME BridgeInv, NEW answer, PortKept(answer), WrKept,
           r'.writing /\ r'.state # "Idle" => r.writing /\ r.state # "Idle" /\ Ahead' = Ahead
    PROVE  CountInv'
<1>1. TypeInv /\ WriteInv /\ PortInv /\ CountInv /\ done \in Nat
  BY AcpAssumption DEF BridgeInv, CtrlInv, CacheInv
<1>2. wr # None => done' + Opened' = done + Opened
  BY <1>1 DEF PortKept, Opened, Posted
<1>3. wr' # None /\ ~wr'.taken => done' = 0
  <2>1. CASE wr = None
    BY <2>1 DEF PortKept
  <2>2. CASE wr # None
    <3>1. SUFFICES ASSUME ~wr'.taken PROVE done' = 0
      OBVIOUS
    <3>2. wr' = wr /\ done = 0 /\ ~(r.writing /\ r.state # "Idle")
      BY <1>1, <2>2, <3>1, KeptBursts DEF CountInv, WriteInv
    <3>3. ~Posted
      BY <1>1, <3>2 DEF PortInv
    <3> QED BY <2>2, <3>2, <3>3 DEF PortKept
  <2> QED BY <2>1, <2>2
<1>4. r'.writing /\ r'.state # "Idle" => done' + Opened' + Ahead' = wr'.sent
  <2>1. SUFFICES ASSUME r'.writing /\ r'.state # "Idle" PROVE done' + Opened' + Ahead' = wr'.sent
    OBVIOUS
  <2>2. wr # None /\ wr' = wr /\ done + Opened + Ahead = wr.sent /\ Ahead' = Ahead
    BY <1>1, <2>1, KeptBursts DEF CountInv, WriteInv
  <2> QED BY <1>2, <2>2
<1> QED BY <1>3, <1>4 DEF CountInv

\* nothing is carried where no line is read, offered or written
LEMMA NothingCarried ==
    ASSUME r'.state \notin {"WaitReadAccept", "WriteLineRequest"},
           r'.writing => r'.state \notin LineStates
    PROVE  CarryInv'
BY DEF CarryInv, Pending

\* the engines in clocks that do not concern them
LEMMA EnginesKeep ==
    ASSUME BridgeInv, NEW answer, NEW late, NEW w_now, NEW r_ready, NEW b_ready,
           Step(answer, late, w_now, r_ready, b_ready), r.state # "Idle"
    PROVE  /\ r.state # "WaitReadAccept" => RdKept
           /\ r.state \notin {"WriteDataAccept", "WaitWriteAccept"} => WrKept
<1>1. r.state # "WaitReadAccept" => RdKept
  BY DEF Step, Clock, RdKept, ArReady
<1>2. r.state \notin {"WriteDataAccept", "WaitWriteAccept"} => WrKept
  BY DEF Step, Clock, WrKept, AwReady
<1> QED BY <1>1, <1>2

\* the bridge waits
LEMMA WaitKeeps ==
    ASSUME BridgeInv, NEW answer, r.state # "Idle", r' = r, RdKept, WrKept, PortKept(answer),
           answer => r.state \notin {"WaitReadLineResponse", "WaitWriteConfirmResponse"}
    PROVE  CtrlInv'
<1>1. TypeInv /\ StateInv /\ WriteInv /\ ReadInv /\ PortInv /\ CountInv /\ CarryInv
  BY DEF BridgeInv, CtrlInv
<1>2. TypeInv'
  BY <1>1, KeptBursts DEF TypeInv, PortKept
<1>3. StateInv'
  BY <1>1 DEF StateInv
<1>4. WriteInv'
  <2>1. CASE wr = None
    BY <1>1, <2>1, KeptBursts DEF WriteInv
  <2>2. CASE wr # None
    BY <1>1, <2>2, KeptBursts DEF WriteInv, Beat
  <2> QED BY <2>1, <2>2
<1>5. ReadInv'
  <2>1. CASE rd = None
    BY <1>1, <2>1, KeptBursts DEF ReadInv
  <2>2. CASE rd # None
    BY <1>1, <2>2, KeptBursts DEF ReadInv, Beat
  <2> QED BY <2>1, <2>2
<1>6. PortInv'
  BY <1>1 DEF PortInv, PortKept, Posted
<1>7. CountInv'
  <2>1. Ahead' = Ahead
    BY DEF Ahead
  <2> QED BY <2>1, CountKeeps
<1>8. CarryInv'
  <2>1. seen' = seen
    BY DEF PortKept
  <2>2. r.writing => wr # None /\ wr' = wr
    BY <1>1, KeptBursts DEF WriteInv
  <2>3. r.state = "WriteLineRequest" => r.writing
    BY <1>1 DEF StateInv, WriteStates
  <2> QED BY <1>1, <2>1, <2>2, <2>3 DEF CarryInv, Pending, OwnLine
<1> QED BY <1>2, <1>3, <1>4, <1>5, <1>6, <1>7, <1>8 DEF CtrlInv

\* the burst that is taken, a write before a read
LEMMA IdleEffect ==
    ASSUME BridgeInv, NEW answer, NEW late, NEW w_now, NEW r_ready, NEW b_ready,
           Step(answer, late, w_now, r_ready, b_ready), r.state = "Idle"
    PROVE  /\ \/ RdKept
              \/ rd # None /\ ~rd.taken /\ rd' = [rd EXCEPT !.taken = TRUE]
           /\ \/ /\ wr # None /\ wr' = [wr EXCEPT !.taken = TRUE]
                 /\ r' = [r EXCEPT !.rmw = FALSE, !.writing = TRUE, !.req_addr = wr.addr,
                                   !.req_len = wr.len, !.state = "WriteDataAccept"]
              \/ /\ WrKept /\ rd # None /\ rd' = [rd EXCEPT !.taken = TRUE] /\ ~rd.taken
                 /\ r' = [r EXCEPT !.rmw = FALSE, !.writing = FALSE, !.req_addr = rd.addr,
                                   !.req_len = rd.len, !.state = "ReadLineRequest"]
              \/ WrKept /\ r' = [r EXCEPT !.rmw = FALSE, !.writing = FALSE]
<1>1. port = None /\ (wr # None => ~wr.taken)
  BY DEF BridgeInv, CtrlInv, PortInv, WriteInv, Posted
<1>2. \/ RdKept
      \/ rd # None /\ ~rd.taken /\ rd' = [rd EXCEPT !.taken = TRUE]
  BY DEF Step, Clock, RdKept, ArReady
<1>3. CASE wr # None
  <2>1. wr' = [wr EXCEPT !.taken = TRUE]
    BY <1>1, <1>3 DEF Step, Clock, AwReady
  <2>2. r' = [r EXCEPT !.rmw = FALSE, !.writing = TRUE, !.req_addr = wr.addr,
                       !.req_len = wr.len, !.state = "WriteDataAccept"]
    BY <1>1, <1>3 DEF Step, Clock, BridgeNext, BridgeIdle
  <2> QED BY <1>2, <1>3, <2>1, <2>2
<1>4. CASE wr = None
  <2>1. WrKept
    BY <1>4 DEF Step, Clock, WrKept
  <2>2. CASE rd # None /\ ~rd.taken
    <3>1. rd' = [rd EXCEPT !.taken = TRUE]
      BY <2>2 DEF Step, Clock, ArReady
    <3>2. r' = [r EXCEPT !.rmw = FALSE, !.writing = FALSE, !.req_addr = rd.addr,
                         !.req_len = rd.len, !.state = "ReadLineRequest"]
      BY <1>4, <2>2 DEF Step, Clock, BridgeNext, BridgeIdle
    <3> QED BY <2>1, <2>2, <3>1, <3>2
  <2>3. CASE ~(rd # None /\ ~rd.taken)
    <3>1. r' = [r EXCEPT !.rmw = FALSE, !.writing = FALSE]
      BY <1>4, <2>3 DEF Step, Clock, BridgeNext, BridgeIdle
    <3> QED BY <1>2, <2>1, <3>1
  <2> QED BY <2>2, <2>3
<1> QED BY <1>3, <1>4

\* a burst is taken
LEMMA IdleKeeps ==
    ASSUME BridgeInv, NEW answer, NEW late, NEW w_now, NEW r_ready, NEW b_ready,
           Step(answer, late, w_now, r_ready, b_ready), r.state = "Idle"
    PROVE  CtrlInv'
<1>1. /\ TypeInv /\ StateInv /\ WriteInv /\ ReadInv /\ PortInv /\ CountInv /\ CarryInv
      /\ port = None /\ (wr # None => ~wr.taken /\ wr.sent = 0) /\ MaxLen \in Nat
  BY AcpAssumption DEF BridgeInv, CtrlInv, PortInv, WriteInv, Posted
<1>2. PortKept(answer) /\ ~answer
  BY <1>1, PortKeeps DEF Step
<1>3. rd' = None \/ (rd' \in ReadBursts /\ rd'.got <= rd'.len)
  <2>1. CASE RdKept
    BY <1>1, <2>1, KeptBursts
  <2>2. CASE rd # None /\ rd' = [rd EXCEPT !.taken = TRUE]
    BY <1>1, <2>2 DEF TypeInv, ReadBursts
  <2> QED BY <2>1, <2>2, IdleEffect
<1>4. port' = None /\ ~Posted /\ ~Posted' /\ (wr # None => done = 0 /\ done' = 0)
  BY <1>1, <1>2 DEF PortKept, Posted, CountInv
<1>5. (rd # None /\ rd' = [rd EXCEPT !.taken = TRUE]) => rd'.taken /\ rd'.got = rd.got
                                                   /\ rd'.addr = rd.addr /\ rd'.len = rd.len
  BY <1>1 DEF TypeInv, ReadBursts
<1>6. CASE /\ wr # None /\ wr' = [wr EXCEPT !.taken = TRUE]
           /\ r' = [r EXCEPT !.rmw = FALSE, !.writing = TRUE, !.req_addr = wr.addr,
                              !.req_len = wr.len, !.state = "WriteDataAccept"]
  <2>1. wr \in WriteBursts
    BY <1>1, <1>6 DEF TypeInv
  <2>2. /\ wr' \in WriteBursts /\ wr' # None /\ wr'.taken /\ wr'.sent = 0
        /\ wr'.addr = wr.addr /\ wr'.len = wr.len /\ wr.len \in 0 .. MaxLen /\ wr.addr \in Words
    BY <1>1, <1>6, <2>1, NoneAssumption DEF WriteBursts
  <2>3. /\ r'.state = "WriteDataAccept" /\ r'.writing /\ r'.req_addr = wr.addr
        /\ r'.req_len = wr.len /\ r' \in Registers
    BY <1>1, <1>6, <2>2 DEF TypeInv, Registers, States
  <2>4. TypeInv'
    BY <1>1, <1>3, <1>4, <2>2, <2>3 DEF TypeInv
  <2>5. StateInv'
    BY <2>3 DEF StateInv, WriteStates, LineStates
  <2>6. WriteInv'
    <3>1. (wr.addr + 0) % PageWords = wr.addr
      BY <2>2, BeatFacts DEF Beat
    <3>2. Beat(wr, wr.len - r.req_len)' = wr.addr
      BY <2>2, <2>3, <3>1 DEF Beat
    <3> QED BY <2>2, <2>3, <3>2 DEF WriteInv
  <2>7. ReadInv'
    BY <1>1, <1>5, <2>3, IdleEffect, KeptBursts DEF ReadInv, LineStates
  <2>8. PortInv'
    BY <1>4, <2>3, NoneAssumption DEF PortInv, Posted
  <2>9. CountInv'
    <3>1. done' = 0 /\ Opened' = 0 /\ Ahead' = 0
      BY <1>4, <1>6, <2>3 DEF Opened, Ahead, LineStates
    <3> QED BY <2>2, <3>1 DEF CountInv
  <2>10. CarryInv'
    BY <2>3, NothingCarried DEF LineStates
  <2> QED BY <2>4, <2>5, <2>6, <2>7, <2>8, <2>9, <2>10 DEF CtrlInv
<1>7. CASE /\ WrKept /\ rd # None /\ ~rd.taken /\ rd' = [rd EXCEPT !.taken = TRUE]
           /\ r' = [r EXCEPT !.rmw = FALSE, !.writing = FALSE, !.req_addr = rd.addr,
                              !.req_len = rd.len, !.state = "ReadLineRequest"]
  <2>1. rd \in ReadBursts /\ rd.got = 0
    BY <1>1, <1>7 DEF TypeInv, ReadInv
  <2>2. /\ rd' # None /\ rd'.taken /\ rd'.got = 0 /\ rd'.addr = rd.addr /\ rd'.len = rd.len
        /\ rd.len \in 0 .. MaxLen /\ rd.addr \in Words
    BY <1>1, <1>5, <1>7, <2>1, <1>3, NoneAssumption DEF ReadBursts
  <2>3. /\ r'.state = "ReadLineRequest" /\ ~r'.writing /\ ~r'.rmw /\ r'.req_addr = rd.addr
        /\ r'.req_len = rd.len /\ r' \in Registers
    BY <1>1, <1>7, <2>2 DEF TypeInv, Registers, States
  <2>4. TypeInv'
    BY <1>1, <1>3, <1>4, <1>7, <2>3, KeptBursts DEF TypeInv
  <2>5. StateInv'
    BY <2>3 DEF StateInv, WriteStates, LineStates
  <2>6. WriteInv'
    BY <1>1, <1>7, <2>3, KeptBursts DEF WriteInv
  <2>7. ReadInv'
    <3>1. (rd.addr + 0) % PageWords = rd.addr
      BY <2>2, BeatFacts DEF Beat
    <3>2. Beat(rd, rd.got)' = rd.addr
      BY <2>2, <3>1 DEF Beat
    <3> QED BY <2>2, <2>3, <3>2 DEF ReadInv
  <2>8. PortInv'
    BY <1>4, <2>3, NoneAssumption DEF PortInv, Posted
  <2>9. CountInv' /\ CarryInv'
    BY <1>2, <1>7, <2>3, CountKeeps, NothingCarried
  <2> QED BY <2>4, <2>5, <2>6, <2>7, <2>8, <2>9 DEF CtrlInv
<1>8. CASE WrKept /\ r' = [r EXCEPT !.rmw = FALSE, !.writing = FALSE]
  <2>1. r'.state = "Idle" /\ ~r'.writing /\ r' \in Registers
    BY <1>1, <1>8 DEF TypeInv, Registers
  <2>2. TypeInv'
    BY <1>1, <1>3, <1>4, <1>8, <2>1, KeptBursts DEF TypeInv
  <2>3. StateInv' /\ WriteInv'
    BY <1>1, <1>8, <2>1, KeptBursts DEF StateInv, WriteInv, WriteStates, LineStates
  <2>4. ReadInv'
    BY <1>1, <1>5, <2>1, IdleEffect, KeptBursts DEF ReadInv, LineStates
  <2>5. PortInv'
    BY <1>4, <2>1, NoneAssumption DEF PortInv, Posted
  <2>6. CountInv' /\ CarryInv'
    BY <1>2, <1>8, <2>1, CountKeeps, NothingCarried
  <2> QED BY <2>2, <2>3, <2>4, <2>5, <2>6 DEF CtrlInv
<1> QED BY <1>6, <1>7, <1>8, IdleEffect

\* a beat of the write burst is taken
LEMMA WriteDataKeeps ==
    ASSUME BridgeInv, NEW answer, NEW late, NEW w_now, NEW r_ready, NEW b_ready,
           Step(answer, late, w_now, r_ready, b_ready), r.state = "WriteDataAccept"
    PROVE  CtrlInv'
<1>1. /\ TypeInv /\ StateInv /\ WriteInv /\ ReadInv /\ PortInv /\ CountInv /\ CarryInv
      /\ MaxLen \in Nat
  BY AcpAssumption DEF BridgeInv, CtrlInv
<1>2. PortKept(answer) /\ RdKept
  BY PortKeeps, EnginesKeep
<1>3. wr # None /\ wr.taken /\ wr \in WriteBursts /\ r \in Registers
  BY <1>1 DEF WriteInv, TypeInv, StateInv
<1>4. /\ wr.len \in 0 .. MaxLen /\ wr.sent \in Nat /\ wr.data \in Vals /\ r.req_len \in 0 .. MaxLen
      /\ r.writing /\ r.req_len <= wr.len /\ wr.sent = wr.len - r.req_len
      /\ r.req_addr = Beat(wr, wr.sent) /\ r.req_addr \in Words
  BY <1>1, <1>3 DEF WriteInv, WriteBursts, StateInv, Registers
<1>5. CASE ~w_now
  <2>1. r' = r /\ wr' = wr
    BY <1>3, <1>5 DEF Step, Clock, BridgeNext
  <2> QED BY <1>2, <2>1, WaitKeeps DEF WrKept
<1>6. CASE w_now
  <2> DEFINE strb == Strobed(wr.sent)
             beat == [data |-> wr.data, strb |-> strb]
  <2>1. strb \in BOOLEAN
    BY DEF Strobed
  <2>2. wr.sent <= wr.len
    BY <1>4
  <2>3. beat # None
    <3> HIDE DEF strb
    <3> QED BY <1>4, <2>1, NoneAssumption
  <2>4. r' = [r EXCEPT !.req_wdata = beat.data, !.req_wstrb = beat.strb, !.rmw = TRUE,
                       !.state = "ReadLineRequest"]
    <3> HIDE DEF beat
    <3>1. r' = BridgeNext(IF wr # None /\ ~wr.taken THEN wr ELSE None,
                          IF rd # None /\ ~rd.taken THEN rd ELSE None, beat, r_ready, b_ready,
                          IF ~answer THEN None
                          ELSE IF port.data = None THEN [line |-> Answered(port.line, late)]
                          ELSE [line |-> port.data], Free)
      BY <1>3, <1>6, <2>2, Zenon DEF Step, Clock, beat
    <3> QED BY <2>3, <3>1 DEF BridgeNext
  <2>5. beat.data = wr.data /\ (beat.strb = strb)
    OBVIOUS
  <2> HIDE DEF beat
  <2>6. wr' = [wr EXCEPT !.sent = @ + 1]
    BY <1>3, <1>6, <2>2, <2>3 DEF Step, Clock, beat
  <2>7. r' = [r EXCEPT !.req_wdata = wr.data, !.req_wstrb = strb, !.rmw = TRUE,
                       !.state = "ReadLineRequest"]
    BY <2>4, <2>5, Zenon
  <2> HIDE DEF strb
  <2>8. /\ r'.state = "ReadLineRequest" /\ r'.writing /\ r'.rmw /\ r'.req_addr = r.req_addr
        /\ r'.req_len = r.req_len /\ r'.req_wdata = wr.data /\ (r'.req_wstrb <=> strb)
        /\ r' \in Registers
    BY <1>3, <1>4, <2>7, <2>1 DEF Registers, States
  <2>9. /\ wr' \in WriteBursts /\ wr' # None /\ wr'.taken /\ wr'.sent = wr.sent + 1
        /\ wr'.addr = wr.addr /\ wr'.len = wr.len /\ wr'.data = wr.data
    BY <1>1, <1>3, <1>4, <2>6, NoneAssumption DEF WriteBursts
  <2>10. TypeInv'
    <3>1. port' = None \/ port' \in Requests
      BY <1>1, <1>2 DEF TypeInv, PortKept
    <3>2. wr'.sent <= wr'.len + 1
      BY <1>4, <2>9
    <3> QED BY <1>1, <1>2, <2>8, <2>9, <3>1, <3>2, KeptBursts DEF TypeInv
  <2>11. StateInv'
    BY <2>8 DEF StateInv, WriteStates, LineStates
  <2>12. WriteInv'
    <3>1. Beat(wr, wr.len - r.req_len)' = Beat(wr, wr.sent)
      BY <1>4, <2>8, <2>9 DEF Beat
    <3> QED BY <1>4, <2>8, <2>9, <3>1 DEF WriteInv
  <2>13. ReadInv'
    BY <1>1, <1>2, <2>8, KeptBursts DEF ReadInv, LineStates
  <2>14. PortInv'
    BY <1>1, <1>2, <2>8 DEF PortInv, PortKept, Posted
  <2>15. CountInv'
    <3>1. done + Opened + Ahead = wr.sent /\ Ahead = 0 /\ Ahead' = 1 /\ done \in Nat
      BY <1>1, <1>4, <2>8 DEF CountInv, Ahead, LineStates, BridgeInv, CacheInv
    <3>2. done' + Opened' = done + Opened
      BY <1>2, <1>3, <3>1 DEF PortKept, Opened, Posted
    <3>3. Opened \in Nat /\ Opened' \in Nat /\ done' \in Nat
      BY <1>2, <1>3, <3>1 DEF PortKept, Opened
    <3>4. PICK d, o, d2, o2, s \in Nat :
             done = d /\ Opened = o /\ done' = d2 /\ Opened' = o2 /\ wr.sent = s
      BY <1>4, <3>1, <3>3
    <3>5. d2 + o2 = s
      <4>1. (d + o) + 0 = s
        BY <3>1, <3>4
      <4>2. d2 + o2 = d + o
        BY <3>2, <3>4
      <4> QED BY <4>1, <4>2
    <3>6. done' + Opened' + Ahead' = wr'.sent
      <4>1. wr'.sent = s + 1
        BY <2>9, <3>4
      <4>2. (d2 + o2) + 1 = s + 1
        BY <3>5
      <4> QED BY <3>1, <3>4, <4>1, <4>2
    <3> QED BY <2>9, <3>6 DEF CountInv
  <2>16. CarryInv'
    <3>1. (wr.sent + 1) - 1 = wr.sent
      BY <1>4
    <3>2. Strobed(wr.sent - 1)' <=> strb
      BY <2>9, <3>1 DEF strb, Strobed
    <3> QED BY <2>8, <2>9, <3>2 DEF CarryInv
  <2> QED BY <2>10, <2>11, <2>12, <2>13, <2>14, <2>15, <2>16 DEF CtrlInv
<1> QED BY <1>5, <1>6

\* the line of a word is asked for
LEMMA ReadLineKeeps ==
    ASSUME BridgeInv, NEW answer, NEW late, NEW w_now, NEW r_ready, NEW b_ready,
           Step(answer, late, w_now, r_ready, b_ready), r.state = "ReadLineRequest"
    PROVE  CtrlInv'
<1>1. /\ TypeInv /\ StateInv /\ WriteInv /\ ReadInv /\ PortInv /\ CountInv /\ CarryInv
      /\ r \in Registers
  BY DEF BridgeInv, CtrlInv, TypeInv
<1>2. RdKept /\ WrKept
  BY EnginesKeep
<1>3. CASE ~Free
  <2>1. r' = r
    BY <1>3 DEF Step, Clock, BridgeNext
  <2> QED BY <1>2, <1>3, <2>1, PortKeeps, WaitKeeps
<1>4. CASE Free
  <2>1. r' = [r EXCEPT !.state = "WaitReadLineResponse"]
    BY <1>4 DEF Step, Clock, BridgeNext
  <2>2. /\ port' = [line |-> LineOf(r.req_addr), data |-> None]
        /\ done' = IF wr = None THEN 0 ELSE done
    BY <1>4 DEF Step, Clock, PortRequest, Free
  <2>3. /\ r'.state = "WaitReadLineResponse" /\ r' \in Registers /\ r'.req_addr = r.req_addr
        /\ r'.req_len = r.req_len /\ r'.writing = r.writing /\ r'.rmw = r.rmw
        /\ r'.req_wstrb = r.req_wstrb /\ r'.req_wdata = r.req_wdata
    BY <1>1, <2>1 DEF Registers, States
  <2>4. LineOf(r.req_addr) \in 0 .. NLines - 1
    BY <1>1, PageFacts DEF Registers
  <2>5. port' \in Requests /\ port' # None /\ port'.data = None /\ port'.line = LineOf(r.req_addr)
    BY <2>2, <2>4, NoneAssumption DEF Requests
  <2>6. TypeInv'
    BY <1>1, <1>2, <2>3, <2>5, KeptBursts DEF TypeInv
  <2>7. StateInv'
    BY <1>1, <2>3 DEF StateInv, WriteStates, LineStates
  <2>8. WriteInv'
    BY <1>1, <1>2, <2>3, KeptBursts DEF WriteInv, Beat
  <2>9. ReadInv'
    BY <1>1, <1>2, <2>3, KeptBursts DEF ReadInv, LineStates, Beat
  <2>10. PortInv'
    BY <2>3, <2>5 DEF PortInv, LineOf, Posted
  <2>11. CountInv'
    <3>1. Opened = 0 /\ Opened' = 0 /\ Ahead' = Ahead
      BY <1>4, <2>3, <2>5 DEF Opened, Ahead, Posted, LineStates, Free
    <3>2. CASE wr = None
      BY <1>1, <2>2, <2>3, <3>2 DEF CountInv, WriteInv
    <3>3. CASE wr # None
      <4>1. wr' = wr /\ done' = done
        BY <1>2, <2>2, <3>3, KeptBursts
      <4> QED BY <1>1, <2>3, <3>1, <4>1 DEF CountInv
    <3> QED BY <3>2, <3>3
  <2>12. CarryInv'
    <3>1. r.writing => wr # None /\ wr' = wr
      BY <1>1, <1>2, KeptBursts DEF WriteInv
    <3> QED BY <1>1, <2>3, <3>1 DEF CarryInv, Pending, LineStates
  <2> QED BY <2>6, <2>7, <2>8, <2>9, <2>10, <2>11, <2>12 DEF CtrlInv
<1> QED BY <1>3, <1>4

\* the line of a word arrives: it is given to the read engine or modified
LEMMA LineReadKeeps ==
    ASSUME BridgeInv, NEW answer, NEW late, NEW w_now, NEW r_ready, NEW b_ready,
           Step(answer, late, w_now, r_ready, b_ready), r.state = "WaitReadLineResponse"
    PROVE  CtrlInv'
<1>1. /\ TypeInv /\ StateInv /\ WriteInv /\ ReadInv /\ PortInv /\ CountInv /\ CarryInv
      /\ CacheInv /\ r \in Registers /\ r.req_addr \in Words
  BY DEF BridgeInv, CtrlInv, TypeInv, Registers
<1>2. RdKept /\ WrKept
  BY EnginesKeep
<1>3. PortKept(answer)
  BY PortKeeps
<1>4. CASE ~answer
  <2>1. r' = r
    BY <1>4 DEF Step, Clock, BridgeNext
  <2> QED BY <1>2, <1>3, <1>4, <2>1, WaitKeeps
<1>5. CASE answer
  <2> DEFINE line == Answered(LineOf(r.req_addr), late)
             i == r.req_addr % NWords
  <2>1. port # None /\ port.data = None /\ port.line = LineOf(r.req_addr)
    BY <1>1 DEF PortInv
  <2>2. line \in Lines /\ i \in Idx
    BY <1>1, AnsweredFacts, PageFacts
  <2>3. [line |-> line] # None
    BY <2>2, NoneAssumption
  <2>4. port' = None /\ seen' = [a \in Words |-> Answered(LineOf(a), late)[a % NWords]]
    BY <1>5, <2>1 DEF Step, Clock, LineGiven
  <2>5. r' = LineRead(line)
    <3>1. LineRead([line |-> line].line) = LineRead(line)
      BY Zenon
    <3>2. r' = IF [line |-> line] # None THEN LineRead([line |-> line].line) ELSE r
      BY <1>5, <2>1 DEF Step, Clock, BridgeNext
    <3> QED BY <2>3, <3>1, <3>2
  <2>6. \A a \in Words : LineOf(a) = LineOf(r.req_addr) => seen'[a] = line[a % NWords]
    BY <2>4
  <2>7. r.writing => wr # None /\ wr' = wr
    BY <1>1, <1>2, KeptBursts DEF WriteInv
  <2>8. CASE r.rmw
    <3> DEFINE new == Modified(line)
    <3>1. r' = [r EXCEPT !.resp_data = line[i], !.line_data = new, !.state = "WriteLineRequest"]
      BY <2>5, <2>8 DEF LineRead
    <3>2. new \in Lines /\ line[i] \in Vals
      BY <1>1, <2>2 DEF Modified, Lines, Registers
    <3>3. \A j \in Idx : new[j] = IF j = i /\ r.req_wstrb THEN r.req_wdata ELSE line[j]
      BY <2>2 DEF Modified, Lines
    <3> HIDE DEF new, line
    <3>4. /\ r'.state = "WriteLineRequest" /\ r'.writing /\ r'.rmw /\ r'.req_addr = r.req_addr
          /\ r'.req_len = r.req_len /\ r'.line_data = new /\ r' \in Registers /\ r.writing
      BY <1>1, <2>8, <3>1, <3>2 DEF Registers, States, StateInv, LineStates
    <3>5. TypeInv'
      BY <1>1, <1>2, <2>4, <3>4, KeptBursts DEF TypeInv
    <3>6. StateInv'
      BY <3>4 DEF StateInv, WriteStates, LineStates
    <3>7. WriteInv'
      BY <1>1, <1>2, <3>4, KeptBursts DEF WriteInv, Beat
    <3>8. ReadInv'
      BY <1>1, <1>2, <3>4, KeptBursts DEF ReadInv, LineStates
    <3>9. PortInv'
      BY <2>4, <3>4 DEF PortInv, Posted
    <3>10. CountInv'
      BY <1>2, <1>3, <3>4, CountKeeps DEF Ahead, LineStates
    <3>11. CarryInv'
      <4>1. r.req_wdata = wr.data /\ (r.req_wstrb <=> Strobed(wr.sent - 1))
        BY <1>1, <3>4 DEF CarryInv, Pending, LineStates
      <4>2. ASSUME NEW b \in Words, LineOf(b) = LineOf(r.req_addr)
            PROVE  new[b % NWords] = IF b = r.req_addr /\ Strobed(wr.sent - 1) THEN wr.data
                                     ELSE seen'[b]
        <5>1. b % NWords \in Idx /\ (b % NWords = i <=> b = r.req_addr)
          BY <1>1, <4>2, LineFacts, PageFacts
        <5>2. new[b % NWords] = IF b = r.req_addr /\ r.req_wstrb THEN r.req_wdata
                                ELSE line[b % NWords]
          BY <3>3, <5>1
        <5> QED BY <2>6, <4>1, <4>2, <5>2
      <4>3. \A b \in Words : LineOf(b) = LineOf(r'.req_addr) =>
               r'.line_data[b % NWords] = IF b = r'.req_addr /\ Strobed(wr'.sent - 1) THEN wr'.data
                                          ELSE seen'[b]
        BY <2>7, <3>4, <4>2
      <4>4. OwnLine(r.req_addr, wr.data)'
        BY <4>3 DEF OwnLine, LineOf, Strobed
      <4> QED BY <3>4, <4>4 DEF CarryInv, Pending, LineStates
    <3> QED BY <3>5, <3>6, <3>7, <3>8, <3>9, <3>10, <3>11 DEF CtrlInv
  <2>9. CASE ~r.rmw
    <3>1. r' = [r EXCEPT !.resp_data = line[i], !.line_data = line, !.state = "WaitReadAccept"]
      BY <2>5, <2>9 DEF LineRead
    <3>2. line[i] \in Vals /\ seen'[r.req_addr] = line[i]
      BY <1>1, <2>2, <2>6 DEF Lines
    <3> HIDE DEF line, i
    <3>3. /\ r'.state = "WaitReadAccept" /\ ~r'.writing /\ r'.req_addr = r.req_addr
          /\ r'.req_len = r.req_len /\ r'.resp_data = line[i] /\ r' \in Registers /\ ~r.writing
      BY <1>1, <2>2, <2>9, <3>1, <3>2 DEF Registers, States, StateInv, LineStates
    <3>4. TypeInv'
      BY <1>1, <1>2, <2>4, <3>3, KeptBursts DEF TypeInv
    <3>5. StateInv'
      BY <3>3 DEF StateInv, WriteStates, LineStates
    <3>6. WriteInv'
      BY <1>1, <1>2, <3>3, KeptBursts DEF WriteInv, Beat
    <3>7. ReadInv'
      BY <1>1, <1>2, <3>3, KeptBursts DEF ReadInv, LineStates, Beat
    <3>8. PortInv'
      BY <2>4, <3>3 DEF PortInv, Posted
    <3>9. CountInv'
      BY <1>2, <1>3, <3>3, CountKeeps
    <3>10. CarryInv'
      BY <3>2, <3>3 DEF CarryInv, Pending, LineStates
    <3> QED BY <3>4, <3>5, <3>6, <3>7, <3>8, <3>9, <3>10 DEF CtrlInv
  <2> QED BY <2>8, <2>9
<1> QED BY <1>4, <1>5

\* the modified line is written: behind the last beat its answer is awaited
LEMMA WriteLineKeeps ==
    ASSUME BridgeInv, NEW answer, NEW late, NEW w_now, NEW r_ready, NEW b_ready,
           Step(answer, late, w_now, r_ready, b_ready), r.state = "WriteLineRequest"
    PROVE  CtrlInv'
<1>1. /\ TypeInv /\ StateInv /\ WriteInv /\ ReadInv /\ PortInv /\ CountInv /\ r \in Registers
      /\ r.req_addr \in Words /\ r.line_data \in Lines /\ r.req_len \in 0 .. MaxLen /\ r.writing
      /\ done \in Nat
  BY AcpAssumption DEF BridgeInv, CtrlInv, CacheInv, TypeInv, Registers, StateInv, WriteStates
<1>2. RdKept /\ WrKept
  BY EnginesKeep
<1>3. ASSUME ~Free PROVE CtrlInv'
  <2>1. r' = r /\ ~answer
    BY <1>1, <1>3 DEF Step, Clock, BridgeNext, PortInv, Posted
  <2> QED BY <1>2, <1>3, <2>1, PortKeeps, WaitKeeps
<1> SUFFICES ASSUME Free PROVE CtrlInv'
  BY <1>3
<1>4. /\ port' = [line |-> LineOf(r.req_addr), data |-> r.line_data]
      /\ done' = IF wr = None THEN 0 ELSE done
      /\ r' = [r EXCEPT !.state = AfterLine]
  BY DEF Step, Clock, PortRequest, BridgeNext, Free
<1>5. /\ r'.state = AfterLine /\ r' \in Registers /\ r'.req_addr = r.req_addr
      /\ r'.req_len = r.req_len /\ r'.writing = r.writing
  BY <1>1, <1>4 DEF Registers, States, AfterLine
<1>6. LineOf(r.req_addr) \in 0 .. NLines - 1 /\ r.line_data # None
  BY <1>1, PageFacts, NoneAssumption
<1>7. /\ port' \in Requests /\ port' # None /\ port'.data = r.line_data /\ port'.data # None
      /\ port'.line = LineOf(r.req_addr)
  BY <1>1, <1>4, <1>6, NoneAssumption DEF Requests
<1>8. TypeInv'
  BY <1>1, <1>2, <1>5, <1>7, KeptBursts DEF TypeInv
<1>9. StateInv'
  BY <1>1, <1>5 DEF StateInv, WriteStates, LineStates, AfterLine
<1>10. WriteInv'
  BY <1>1, <1>2, <1>5, KeptBursts DEF WriteInv, Beat, AfterLine
<1>11. ReadInv'
  BY <1>1, <1>2, <1>5, KeptBursts DEF ReadInv, LineStates, AfterLine
<1>12. PortInv'
  BY <1>1, <1>5, <1>7 DEF PortInv, Posted, AfterLine
<1>13. CountInv'
  <2>1. wr # None /\ wr' = wr /\ wr.taken /\ done + Opened + Ahead = wr.sent
    BY <1>1, <1>2, KeptBursts DEF WriteInv, CountInv
  <2>2. Opened = 0 /\ Opened' = 1 /\ Ahead = 1 /\ Ahead' = 0
    BY <1>5, <1>7 DEF Opened, Posted, Ahead, LineStates, AfterLine, Free
  <2> QED BY <1>1, <1>4, <2>1, <2>2 DEF CountInv
<1>14. CarryInv'
  BY <1>5, NothingCarried DEF LineStates, AfterLine
<1> QED BY <1>8, <1>9, <1>10, <1>11, <1>12, <1>13, <1>14 DEF CtrlInv

\* the write of the last line of a burst is answered
LEMMA ConfirmKeeps ==
    ASSUME BridgeInv, NEW answer, NEW late, NEW w_now, NEW r_ready, NEW b_ready,
           Step(answer, late, w_now, r_ready, b_ready), r.state = "WaitWriteConfirmResponse"
    PROVE  CtrlInv'
<1>1. /\ TypeInv /\ StateInv /\ WriteInv /\ ReadInv /\ PortInv /\ r \in Registers
      /\ r.writing
  BY DEF BridgeInv, CtrlInv, TypeInv, StateInv, WriteStates
<1>2. RdKept /\ WrKept
  BY EnginesKeep
<1>3. PortKept(answer)
  BY PortKeeps
<1>4. CASE ~answer
  <2>1. r' = r
    BY <1>4 DEF Step, Clock, BridgeNext
  <2> QED BY <1>2, <1>3, <1>4, <2>1, WaitKeeps
<1>5. CASE answer
  <2>1. Posted /\ port.data \in Lines
    BY <1>1 DEF PortInv, Posted, TypeInv, Requests
  <2>2. [line |-> port.data] # None
    BY <2>1, NoneAssumption
  <2>3. r' = [r EXCEPT !.state = "WaitWriteAccept"]
    BY <1>5, <2>1, <2>2 DEF Step, Clock, BridgeNext, Posted
  <2>4. /\ r'.state = "WaitWriteAccept" /\ r' \in Registers /\ r'.req_addr = r.req_addr
        /\ r'.req_len = r.req_len /\ r'.writing = r.writing
    BY <1>1, <2>3 DEF Registers, States
  <2>5. TypeInv'
    BY <1>1, <1>2, <1>3, <1>5, <2>4, KeptBursts DEF TypeInv, PortKept
  <2>6. StateInv'
    BY <1>1, <2>4 DEF StateInv, WriteStates, LineStates
  <2>7. WriteInv'
    BY <1>1, <1>2, <2>4, KeptBursts DEF WriteInv, Beat
  <2>8. ReadInv'
    BY <1>1, <1>2, <2>4, KeptBursts DEF ReadInv, LineStates
  <2>9. PortInv'
    BY <1>3, <1>5, <2>4 DEF PortInv, PortKept, Posted
  <2>10. CountInv'
    BY <1>1, <1>2, <1>3, <2>4, CountKeeps DEF Ahead, LineStates
  <2>11. CarryInv'
    BY <2>4, NothingCarried DEF LineStates
  <2> QED BY <2>5, <2>6, <2>7, <2>8, <2>9, <2>10, <2>11 DEF CtrlInv
<1> QED BY <1>4, <1>5

\* the registers behind a beat and behind a burst
LEMMA OverFacts ==
    ASSUME r \in Registers
    PROVE  /\ BeatOver \in Registers /\ BeatOver.req_addr = r.req_addr
           /\ BeatOver.req_len = r.req_len /\ (BeatOver.writing <=> r.writing)
           /\ BurstOver \in Registers /\ BurstOver.state = "Idle"
           /\ (BurstOver.writing <=> r.writing) /\ BurstOver.req_len = r.req_len
<1>1. 0 \in Vals /\ 0 \in Words /\ ZeroLine \in Lines
  BY AcpAssumption, PageFacts DEF ZeroLine, Lines
<1> HIDE DEF ZeroLine
<1>2. /\ BeatOver \in Registers /\ BeatOver.req_addr = r.req_addr
      /\ BeatOver.req_len = r.req_len /\ BeatOver.writing = r.writing
  BY <1>1 DEF BeatOver, Registers
<1> HIDE DEF BeatOver
<1>3. /\ BurstOver \in Registers /\ BurstOver.state = "Idle"
      /\ BurstOver.writing = BeatOver.writing /\ BurstOver.req_len = BeatOver.req_len
  BY <1>1, <1>2 DEF BurstOver, Registers, States
<1> QED BY <1>2, <1>3

\* the accelerator takes the response of its write burst
LEMMA WriteAcceptKeeps ==
    ASSUME BridgeInv, NEW answer, NEW late, NEW w_now, NEW r_ready, NEW b_ready,
           Step(answer, late, w_now, r_ready, b_ready), r.state = "WaitWriteAccept"
    PROVE  CtrlInv'
<1>1. /\ TypeInv /\ StateInv /\ WriteInv /\ ReadInv /\ PortInv /\ CountInv /\ r \in Registers
      /\ r.writing /\ wr # None /\ wr.taken
  BY DEF BridgeInv, CtrlInv, TypeInv, StateInv, WriteInv, WriteStates
<1>2. RdKept
  BY EnginesKeep
<1>3. PortKept(answer) /\ port = None
  BY <1>1, PortKeeps DEF PortInv, Posted
<1>4. CASE ~b_ready
  <2>1. r' = r /\ wr' = wr
    BY <1>1, <1>4 DEF Step, Clock, BridgeNext
  <2> QED BY <1>2, <1>3, <2>1, WaitKeeps DEF WrKept, Step
<1>5. CASE b_ready
  <2>1. r' = BurstOver /\ wr' = None
    BY <1>1, <1>5 DEF Step, Clock, BridgeNext
  <2>2. r'.state = "Idle" /\ r' \in Registers
    BY <1>1, <2>1, OverFacts
  <2>3. port' = None
    BY <1>3 DEF PortKept
  <2>4. TypeInv'
    BY <1>1, <1>2, <2>1, <2>2, <2>3, KeptBursts DEF TypeInv
  <2>5. StateInv' /\ WriteInv'
    BY <2>1, <2>2 DEF StateInv, WriteInv, WriteStates, LineStates
  <2>6. ReadInv'
    BY <1>1, <1>2, <2>2, KeptBursts DEF ReadInv, LineStates
  <2>7. PortInv'
    BY <2>2, <2>3 DEF PortInv, Posted
  <2>8. CountInv' /\ CarryInv'
    BY <2>1, <2>2, NothingCarried DEF CountInv, LineStates
  <2> QED BY <2>4, <2>5, <2>6, <2>7, <2>8 DEF CtrlInv
<1> QED BY <1>4, <1>5

\* the accelerator takes a beat of its read burst
LEMMA ReadAcceptKeeps ==
    ASSUME BridgeInv, NEW answer, NEW late, NEW w_now, NEW r_ready, NEW b_ready,
           Step(answer, late, w_now, r_ready, b_ready), r.state = "WaitReadAccept"
    PROVE  CtrlInv'
<1>1. /\ TypeInv /\ StateInv /\ WriteInv /\ ReadInv /\ PortInv /\ CountInv
      /\ r \in Registers /\ ~r.writing /\ rd # None /\ rd.taken /\ rd \in ReadBursts
      /\ rd.got <= rd.len /\ MaxLen \in Nat
  BY AcpAssumption DEF BridgeInv, CtrlInv, TypeInv, StateInv, ReadInv, WriteStates
<1>2. WrKept
  BY EnginesKeep
<1>3. PortKept(answer) /\ port = None
  BY <1>1, PortKeeps DEF PortInv, Posted
<1>4. CASE ~r_ready
  <2>1. r' = r /\ rd' = rd
    BY <1>1, <1>4 DEF Step, Clock, BridgeNext, ArReady
  <2> QED BY <1>2, <1>3, <2>1, WaitKeeps DEF RdKept, Step
<1>5. CASE r_ready
  <2>1. r' = [r EXCEPT !.state = "CheckBurst"]
    BY <1>5 DEF Step, Clock, BridgeNext
  <2>2. rd' = IF rd.got = rd.len THEN None ELSE [rd EXCEPT !.got = @ + 1]
    BY <1>1, <1>5 DEF Step, Clock
  <2>3. /\ r'.state = "CheckBurst" /\ r' \in Registers /\ r'.req_addr = r.req_addr
        /\ r'.req_len = r.req_len /\ ~r'.writing
    BY <1>1, <2>1 DEF Registers, States
  <2>4. port' = None
    BY <1>3 DEF PortKept
  <2>5. rd.len \in 0 .. MaxLen /\ rd.got \in 0 .. MaxLen /\ r.req_len = rd.len - rd.got
    BY <1>1 DEF ReadBursts, ReadInv, LineStates
  <2>6. rd.got # rd.len => /\ rd' \in ReadBursts /\ rd' # None /\ rd'.taken
                           /\ rd'.got = rd.got + 1 /\ rd'.len = rd.len /\ rd'.addr = rd.addr
    BY <1>1, <2>2, <2>5, NoneAssumption DEF ReadBursts
  <2>7. TypeInv'
    <3>1. rd' = None \/ (rd' \in ReadBursts /\ rd'.got <= rd'.len)
      BY <1>1, <2>2, <2>5, <2>6
    <3> QED BY <1>1, <1>2, <2>3, <2>4, <3>1, KeptBursts DEF TypeInv
  <2>8. StateInv'
    BY <2>3 DEF StateInv, WriteStates, LineStates
  <2>9. WriteInv'
    BY <1>1, <1>2, <2>3, KeptBursts DEF WriteInv
  <2>10. ReadInv'
    <3>1. CASE rd.got = rd.len
      BY <2>2, <2>3, <2>5, <3>1 DEF ReadInv, LineStates
    <3>2. CASE rd.got # rd.len
      <4>1. Beat(rd, rd.got - 1)' = Beat(rd, rd.got)
        BY <2>5, <2>6, <3>2 DEF Beat
      <4> QED BY <1>1, <2>3, <2>5, <2>6, <3>2, <4>1 DEF ReadInv, LineStates
    <3> QED BY <3>1, <3>2
  <2>11. PortInv'
    BY <2>3, <2>4 DEF PortInv, Posted
  <2>12. CountInv' /\ CarryInv'
    BY <1>2, <1>3, <2>3, CountKeeps, NothingCarried DEF LineStates
  <2> QED BY <2>7, <2>8, <2>9, <2>10, <2>11, <2>12 DEF CtrlInv
<1> QED BY <1>4, <1>5

\* the next beat, or the end of the burst
LEMMA CheckBurstKeeps ==
    ASSUME BridgeInv, NEW answer, NEW late, NEW w_now, NEW r_ready, NEW b_ready,
           Step(answer, late, w_now, r_ready, b_ready), r.state = "CheckBurst"
    PROVE  CtrlInv'
<1>1. /\ TypeInv /\ StateInv /\ WriteInv /\ ReadInv /\ PortInv /\ CountInv /\ r \in Registers
      /\ r.req_addr \in Words /\ r.req_len \in 0 .. MaxLen /\ MaxLen \in Nat
      /\ (r.writing => r.req_len # 0) /\ (Posted => r.writing)
  BY AcpAssumption DEF BridgeInv, CtrlInv, TypeInv, StateInv, Registers, PortInv
<1>2. RdKept /\ WrKept
  BY EnginesKeep
<1>3. PortKept(answer) /\ r' = CheckBurst
  BY PortKeeps, ZenonT(120) DEF Step, Clock, BridgeNext
<1>4. port = None \/ Posted
  BY <1>1 DEF PortInv, Posted
<1>5. CASE r.req_len = 0
  <2>1. r' = BurstOver
    BY <1>3, <1>5 DEF CheckBurst
  <2>2. r'.state = "Idle" /\ r' \in Registers /\ ~r.writing /\ ~r'.writing
    BY <1>1, <1>5, <2>1, OverFacts
  <2>3. port' = None
    BY <1>1, <1>3, <1>4, <2>2 DEF PortKept
  <2>4. TypeInv'
    BY <1>1, <1>2, <2>2, <2>3, KeptBursts DEF TypeInv
  <2>5. StateInv' /\ WriteInv' /\ ReadInv'
    BY <1>1, <1>2, <2>2, KeptBursts DEF StateInv, WriteInv, ReadInv, WriteStates, LineStates
  <2>6. PortInv'
    BY <2>2, <2>3 DEF PortInv, Posted
  <2>7. CountInv' /\ CarryInv'
    BY <1>2, <1>3, <2>2, CountKeeps, NothingCarried
  <2> QED BY <2>4, <2>5, <2>6, <2>7 DEF CtrlInv
<1>6. CASE r.req_len # 0
  <2> DEFINE next == IF r.writing THEN "WriteDataAccept" ELSE "ReadLineRequest"
  <2>1. r' = [BeatOver EXCEPT !.req_len = @ - 1, !.req_addr = Next12(@), !.rmw = FALSE,
                              !.state = next]
    BY <1>3, <1>6 DEF CheckBurst
  <2>2. Next12(r.req_addr) \in Words
    <3>1. PageWords \in Nat /\ PageWords > 0
      BY PageFacts
    <3> QED BY <1>1, <3>1 DEF Next12, Words
  <2>3. /\ r'.state = next /\ r' \in Registers /\ r'.req_addr = Next12(r.req_addr)
        /\ r'.req_len = r.req_len - 1 /\ r'.writing = r.writing /\ ~r'.rmw
    <3>1. next \in States /\ r.req_len - 1 \in 0 .. MaxLen
      BY <1>1, <1>6 DEF States
    <3>2. /\ BeatOver \in Registers /\ BeatOver.req_addr = r.req_addr
          /\ BeatOver.req_len = r.req_len /\ (BeatOver.writing <=> r.writing)
      BY <1>1, OverFacts
    <3> HIDE DEF next
    <3> QED BY <1>1, <2>1, <2>2, <3>1, <3>2 DEF Registers
  <2>4. TypeInv'
    <3>1. port' = None \/ port' \in Requests
      BY <1>1, <1>3 DEF TypeInv, PortKept
    <3> QED BY <1>1, <1>2, <2>3, <3>1, KeptBursts DEF TypeInv
  <2>5. StateInv'
    BY <2>3 DEF StateInv, WriteStates, LineStates
  <2>6. WriteInv'
    <3>1. CASE r.writing
      <4>1. /\ wr # None /\ wr \in WriteBursts /\ r.req_len <= wr.len /\ wr.taken
            /\ r.req_addr = Beat(wr, wr.len - r.req_len) /\ wr.sent = wr.len - r.req_len + 1
        BY <1>1, <3>1 DEF WriteInv, TypeInv
      <4>2. wr' = wr /\ wr.addr \in Words /\ wr.len \in 0 .. MaxLen /\ wr.len - r.req_len \in Nat
        BY <1>1, <1>2, <4>1, KeptBursts DEF WriteBursts
      <4>3. wr.len - (r.req_len - 1) = (wr.len - r.req_len) + 1
        BY <1>1, <4>2
      <4>4. Beat(wr, wr.len - r.req_len)' = Beat(wr, (wr.len - r.req_len) + 1)
        BY <2>3, <4>2, <4>3 DEF Beat
      <4>5. Next12(r.req_addr) = Beat(wr, (wr.len - r.req_len) + 1)
        BY <4>1, <4>2, BeatFacts
      <4> QED BY <1>1, <1>6, <2>3, <3>1, <4>1, <4>2, <4>3, <4>4, <4>5 DEF WriteInv
    <3>2. CASE ~r.writing
      BY <1>1, <1>2, <2>3, <3>2, KeptBursts DEF WriteInv
    <3> QED BY <3>1, <3>2
  <2>7. ReadInv'
    <3>1. CASE r.writing
      BY <1>1, <1>2, <2>3, <3>1, KeptBursts DEF ReadInv, LineStates
    <3>2. CASE ~r.writing
      <4>1. /\ rd # None /\ rd \in ReadBursts /\ rd.taken /\ r.req_len = rd.len - rd.got + 1
            /\ r.req_addr = Beat(rd, rd.got - 1) /\ rd.got # 0
        BY <1>1, <1>6, <3>2 DEF ReadInv, TypeInv
      <4>2. rd' = rd /\ rd.addr \in Words /\ rd.len \in 0 .. MaxLen /\ rd.got \in Nat
        BY <1>1, <1>2, <4>1, KeptBursts DEF ReadBursts
      <4>3. rd.got - 1 \in Nat /\ (rd.got - 1) + 1 = rd.got /\ r.req_len - 1 = rd.len - rd.got
        BY <1>1, <4>1, <4>2
      <4>4. Next12(r.req_addr) = Beat(rd, rd.got)
        BY <4>1, <4>2, <4>3, BeatFacts
      <4>5. Beat(rd, rd.got)' = Beat(rd, rd.got)
        BY <4>2 DEF Beat
      <4> QED BY <2>3, <3>2, <4>1, <4>2, <4>3, <4>4, <4>5 DEF ReadInv, LineStates
    <3> QED BY <3>1, <3>2
  <2>8. PortInv'
    BY <1>1, <1>3, <1>4, <2>3 DEF PortInv, PortKept, Posted
  <2>9. CountInv' /\ CarryInv'
    <3>1. r'.writing => r.writing /\ r'.state = "WriteDataAccept"
      BY <2>3
    <3>2. r'.writing => Ahead = 0 /\ Ahead' = 0
      BY <3>1 DEF Ahead, LineStates
    <3>3. r'.state \in {"WriteDataAccept", "ReadLineRequest"}
      BY <2>3
    <3> QED BY <1>2, <1>3, <3>1, <3>2, <3>3, CountKeeps, NothingCarried DEF LineStates
  <2> QED BY <2>4, <2>5, <2>6, <2>7, <2>8, <2>9 DEF CtrlInv
<1> QED BY <1>5, <1>6

\* a core changes the contents of the caches and the memory only
LEMMA CoreStepKeeps == ASSUME BridgeInv, CoreStep PROVE BridgeInv'
<1> DEFINE L == 0 .. NLines - 1
<1>1. CtrlInv /\ CacheInv /\ Cores \subseteq L
  BY AcpAssumption DEF BridgeInv
<1>2. UNCHANGED <<r, rd, wr, port, seen, done>>
  BY DEF CoreStep, CoreLoad, CoreStore, Offload, OffloadDone, Evict
<1>3. CtrlInv'
  BY <1>1, <1>2 DEF CtrlInv, TypeInv, StateInv, WriteInv, ReadInv, PortInv, CountInv, CarryInv,
     Posted, Pending, Opened, Ahead, OwnLine, Beat
<1>4. \A l \in L, line \in Lines, dirty \in BOOLEAN :
         /\ Copied(l1, l, line, dirty) \in [L -> Copies \cup {None}]
         /\ Copied(l2, l, line, dirty) \in [L -> Copies \cup {None}]
  BY <1>1 DEF CacheInv, Copied, Copies
<1>5. \A l \in L : /\ Without(l1, l) \in [L -> Copies \cup {None}]
                   /\ Without(l2, l) \in [L -> Copies \cup {None}]
  BY <1>1 DEF CacheInv, Without
<1>6. \A l \in L : Below(l) \in Lines /\ Held(l) \in Lines
  BY <1>1, AnsweredFacts DEF Answered
<1>7. ASSUME NEW l \in Cores, CoreLoad(l) PROVE CacheInv'
  BY <1>1, <1>2, <1>4, <1>6, <1>7 DEF CacheInv, CoreLoad
<1>8. ASSUME NEW l \in Cores, Offload(l) PROVE CacheInv'
  <2>1. l1[l] \in Copies /\ l1[l].data \in Lines
    BY <1>1, <1>8 DEF CacheInv, Offload, Copies
  <2> QED BY <1>1, <1>2, <1>5, <1>8, <2>1 DEF CacheInv, Offload
<1>9. ASSUME NEW l \in Cores, Evict(l) PROVE CacheInv'
  <2>1. l2[l] \in Copies /\ l2[l].data \in [Idx -> Vals]
    BY <1>1, <1>9 DEF CacheInv, Evict, Copies, Lines
  <2>2. mem' \in [Words -> Vals]
    BY <1>1, <1>9, <2>1, PageFacts DEF CacheInv, Evict
  <2> QED BY <1>1, <1>2, <1>5, <1>9, <2>2 DEF CacheInv, Evict
<1>10. ASSUME NEW a \in Words, LineOf(a) \in Cores, NEW v \in Vals, CoreStore(a, v)
       PROVE  CacheInv'
  <2>1. [Held(LineOf(a)) EXCEPT ![a % NWords] = v] \in Lines
    BY <1>1, <1>6, <1>10 DEF Lines
  <2> QED BY <1>1, <1>2, <1>4, <1>5, <1>10, <2>1 DEF CacheInv, CoreStore
<1>11. ASSUME OffloadDone PROVE CacheInv'
  <2>1. out.line \in L /\ out.data \in Lines
    BY <1>1, <1>11 DEF CacheInv, OffloadDone
  <2> QED BY <1>1, <1>2, <1>4, <1>5, <1>11, <2>1 DEF CacheInv, OffloadDone
<1> QED BY <1>3, <1>7, <1>8, <1>9, <1>10, <1>11 DEF CoreStep, BridgeInv

----------------------------------------------------------------------------
\* Every behaviour.

\* the reset state
LEMMA BridgeStart == Init => BridgeInv
<1>1. SUFFICES ASSUME Init PROVE BridgeInv
  OBVIOUS
<1>2. /\ 0 \in Words /\ 0 \in Vals /\ MaxLen \in Nat
  BY PageFacts, AcpAssumption
<1>3. ZeroLine \in Lines
  BY <1>2 DEF ZeroLine, Lines
<1>4. r \in Registers /\ r.state = "Idle" /\ ~r.writing
  <2> HIDE DEF ZeroLine
  <2>1. r = [state |-> "Idle", req_addr |-> 0, req_wstrb |-> FALSE, req_wdata |-> 0,
             req_len |-> 0, writing |-> FALSE, rmw |-> FALSE, line_data |-> ZeroLine,
             resp_data |-> 0]
    BY <1>1 DEF Init
  <2> QED BY <1>2, <1>3, <2>1 DEF Registers, States
<1>5. TypeInv /\ CacheInv
  BY <1>1, <1>2, <1>4 DEF Init, TypeInv, CacheInv
<1>6. StateInv /\ WriteInv /\ ReadInv /\ PortInv
  BY <1>1, <1>4, NoneAssumption DEF Init, StateInv, WriteInv, ReadInv, PortInv,
     WriteStates, LineStates, Posted
<1>7. CountInv /\ CarryInv
  BY <1>1, <1>4 DEF Init, CountInv, CarryInv, Pending, LineStates
<1> QED BY <1>5, <1>6, <1>7 DEF BridgeInv, CtrlInv

\* every clock of the bridge, and every step of a core, keeps the invariant
LEMMA BridgeStep == BridgeInv /\ [Next]_vars => BridgeInv'
<1>1. ASSUME BridgeInv, NEW answer \in BOOLEAN, NEW late \in BOOLEAN, NEW w_now \in BOOLEAN,
             NEW r_ready \in BOOLEAN, NEW b_ready \in BOOLEAN,
             Step(answer, late, w_now, r_ready, b_ready)
      PROVE  BridgeInv'
  <2>1. r.state \in States
    BY <1>1 DEF BridgeInv, CtrlInv, TypeInv, Registers
  <2>2. CtrlInv'
    BY <1>1, <2>1, IdleKeeps, WriteDataKeeps, ReadLineKeeps, LineReadKeeps, WriteLineKeeps,
       ConfirmKeeps, WriteAcceptKeeps, ReadAcceptKeeps, CheckBurstKeeps DEF States
  <2> QED BY <1>1, <2>2, CachesKeep DEF BridgeInv
<1>2. ASSUME BridgeInv, UNCHANGED vars PROVE BridgeInv'
  BY <1>2 DEF vars, BridgeInv, CtrlInv, CacheInv, TypeInv, StateInv, WriteInv, ReadInv, PortInv,
     CountInv, CarryInv, Posted, Pending, Opened, Ahead, OwnLine, Beat
<1> QED BY <1>1, <1>2, CoreStepKeeps DEF Next, Step

\* the types
LEMMA BridgeTypes == BridgeInv => TypeOK
<1>1. SUFFICES ASSUME BridgeInv PROVE TypeOK
  OBVIOUS
<1>2. TypeInv /\ CacheInv
  BY <1>1 DEF BridgeInv, CtrlInv
<1> QED BY <1>2 DEF TypeInv, CacheInv, TypeOK, ReadBursts, WriteBursts, Requests

(***************************************************************************)
(* A beat of a read burst carries the word of its own address, as the      *)
(* caches answered it when its line was read, across the end of a line and *)
(* of the page (CheckBurst, WaitReadLineResponse), whatever    *)
(* the cores load and store and whatever copies the caches displace.       *)
(***************************************************************************)
THEOREM ReadsOwn == Spec => []ReadsOwnWord
<1>1. BridgeInv => ReadsOwnWord
  <2>1. SUFFICES ASSUME BridgeInv PROVE ReadsOwnWord
    OBVIOUS
  <2>2. StateInv /\ ReadInv /\ CarryInv /\ TypeOK
    BY <2>1, BridgeTypes DEF BridgeInv, CtrlInv
  <2> QED BY <2>2 DEF ReadsOwnWord, StateInv, ReadInv, CarryInv
<1> QED BY <1>1, BridgeStart, BridgeStep, PTL DEF Spec

(***************************************************************************)
(* Every line of a write burst is the line of its own beat as it was read, *)
(* changed in that word only; and the response is given when the L2 cache  *)
(* has answered one line for every beat, although only the write of the    *)
(* last line is awaited.                                                   *)
(***************************************************************************)
THEOREM WritesOwn == Spec => []WritesOwnLine
<1>1. BridgeInv => WritesOwnLine
  <2>1. SUFFICES ASSUME BridgeInv PROVE WritesOwnLine
    OBVIOUS
  <2>2. /\ TypeInv /\ PortInv /\ StateInv /\ WriteInv /\ CountInv /\ CarryInv /\ done \in Nat
        /\ MaxLen \in Nat
    BY <2>1, AcpAssumption DEF BridgeInv, CtrlInv, CacheInv
  <2>3. ASSUME r.state \in WriteStates
        PROVE  /\ wr # None /\ wr \in WriteBursts /\ r.req_len \in Nat /\ wr.len \in Nat
               /\ r.req_addr = Beat(wr, wr.len - r.req_len) /\ wr.sent = wr.len - r.req_len + 1
               /\ done + Opened + Ahead = wr.sent
    BY <2>2, <2>3 DEF StateInv, WriteInv, CountInv, TypeInv, WriteBursts, Registers, WriteStates
  <2>4. ASSUME r.state = "WriteLineRequest"
        PROVE  wr # None /\ OwnLine(Beat(wr, wr.sent - 1), wr.data)
    <3>1. wr.sent - 1 = wr.len - r.req_len /\ wr # None
      BY <2>3, <2>4 DEF WriteStates
    <3>2. Beat(wr, wr.sent - 1) = r.req_addr
      BY <2>3, <2>4, <3>1 DEF WriteStates
    <3> QED BY <2>2, <2>4, <3>1, <3>2 DEF CarryInv
  <2>5. ASSUME r.state = "WaitWriteAccept"
        PROVE  wr # None /\ port = None /\ done = wr.len + 1
    <3>1. port = None /\ r.req_len = 0 /\ Opened = 0 /\ Ahead = 0
      BY <2>2, <2>5 DEF PortInv, Posted, StateInv, Opened, Ahead, LineStates
    <3> QED BY <2>2, <2>3, <2>5, <3>1 DEF WriteStates
  <2> QED BY <2>4, <2>5 DEF WritesOwnLine
<1> QED BY <1>1, BridgeStart, BridgeStep, PTL DEF Spec
=============================================================================
