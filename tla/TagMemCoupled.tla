--------------------------- MODULE TagMemCoupled ---------------------------
(***************************************************************************)
(* Tag and data memory of the L1 instruction cache:                        *)
(* sc/rtl/riverlib/cache/tagmemcoupled.h.  Two set-associative memories    *)
(* hold the even and the odd lines, so that an access to the last 32-bit   *)
(* word of a line reads the first word of the next line in the same clock. *)
(* An address is the record [tag, set, odd, word, way]: set addresses a    *)
(* bank, odd is the lowest bit of the line index, word is the 32-bit word  *)
(* of the line and way the low bits that select a way by direct access.    *)
(***************************************************************************)
EXTENDS Integers

CONSTANTS Ways, NSets, NTags, NWords, Values

ASSUME CoupledAssumption ==
    /\ Ways \in Nat \ {0} /\ NSets \in Nat \ {0} /\ NTags \in Nat \ {0}
    /\ NWords \in Nat \ {0, 1}

Tags  == 0 .. NTags - 1
Words == 0 .. NWords - 1

VARIABLES
    ram0, lru0, rd0,    \* memx[EVEN]
    ram1, lru1, rd1,    \* memx[ODD]
    radr                \* r.req_addr: the address of the previous clock

linevars == <<ram0, lru0, rd0, ram1, lru1, rd1, radr>>

Even == INSTANCE TagMemNWay WITH ram <- ram0, lru <- lru0, rd <- rd0
Odd  == INSTANCE TagMemNWay WITH ram <- ram1, lru <- lru1, rd <- rd1

Sets == 0 .. NSets - 1
LineAddrs == [tag : Tags, set : Sets, odd : {0, 1}, word : Words, way : 0 .. Ways - 1]
ZeroAddr == [tag |-> 0, set |-> 0, odd |-> 0, word |-> 0, way |-> 0]

LineInit == Even!TagInit /\ Odd!TagInit /\ radr = ZeroAddr
LineTypeOK == Even!TagTypeOK /\ Odd!TagTypeOK /\ radr \in LineAddrs

----------------------------------------------------------------------------
\* the address LINE_SZ bytes further
AddrNext(a) ==
    LET n == (a.tag * NSets + a.set) * 2 + a.odd + 1
    IN  [a EXCEPT !.odd = n % 2, !.set = (n \div 2) % NSets,
                  !.tag = (n \div (2 * NSets)) % NTags]

Overlay(a) == a.word = NWords - 1

\* line index without its lowest bit
BankAddr(a) == [tag |-> a.tag, set |-> a.set, word |-> a.word, way |-> a.way]

\* inputs of bank b: the bank that does not own the address is given the next
\* line and takes part only in an overlay
Bank(c, b) ==
    LET own == c.addr.odd = b
        on  == own \/ Overlay(c.addr)
    IN  [direct |-> c.direct /\ on, invalidate |-> c.invalidate /\ on,
         re |-> c.re /\ on, we |-> c.we /\ on,
         addr |-> BankAddr(IF own THEN c.addr ELSE AddrNext(c.addr)),
         snoop |-> BankAddr(ZeroAddr), wdata |-> c.wdata,
         wstrb |-> IF own THEN c.wstrb ELSE {}, wflags |-> c.wflags]

LineHit == IF radr.odd = 0 THEN Even!Hit ELSE Odd!Hit

HitNext == IF ~Overlay(radr) THEN LineHit
           ELSE IF radr.odd = 0 THEN Odd!Hit ELSE Even!Hit

\* the line and the first word of the other bank's line
RData ==
    LET own == IF radr.odd = 0 THEN Even!Out.data ELSE Odd!Out.data
        nxt == IF radr.odd = 0 THEN Odd!Out.data ELSE Even!Out.data
    IN  [w \in 0 .. NWords |-> IF w < NWords THEN own[w] ELSE nxt[0]]

LineClock(c) ==
    /\ Even!TagClock(Bank(c, 0))
    /\ Odd!TagClock(Bank(c, 1))
    /\ radr' = c.addr
============================================================================
