------------------------------- MODULE Arith -------------------------------
(***************************************************************************)
(* The arithmetic units of the execute stage, with words of W bits instead *)
(* of 64: core/arith/int_div.cpp, divstage64.cpp, int_mul.cpp, shift.cpp,  *)
(* int_addsub.cpp.  A unit keeps its registers from one instruction to the *)
(* next; FncIsa is what the functional simulator computes.                 *)
(***************************************************************************)
EXTENDS FncIsa

CONSTANTS
    K,          \* bits of the quotient a divider stage finds (4 in the code)
    Operands,   \* words the program computes with
    First,      \* instructions the units may have executed before
    None        \* nothing is requested

ASSUME ArithAssumption ==
    /\ K \in Nat \ {0} /\ W % (2 * K) = 0 /\ \E n \in 1 .. W : W = 2^n
    /\ Operands \subseteq Words

DivOps == {"DIV", "DIVU", "DIVW", "DIVUW", "REM", "REMU", "REMW", "REMUW"}
MulOps == {"MUL", "MULW", "MULH", "MULHSU", "MULHU"}
AluOps == {"ADD", "SUB", "ADDW", "SUBW", "SLT", "SLTU",
           "SLL", "SRL", "SRA", "SLLW", "SRLW", "SRAW"}
\* unsigned_op and rv32 of the decoder, w_arith_residual_high
Unsigned == {"DIVU", "REMU", "DIVUW", "REMUW", "MULHU"}
Rv32 == {"DIVW", "DIVUW", "REMW", "REMUW", "MULW", "ADDW", "SUBW", "SLLW", "SRLW", "SRAW"}
ResidualHigh == {"REM", "REMU", "REMW", "REMUW", "MULH", "MULHSU", "MULHU"}

VARIABLES
    req,        \* [op, x, y] under way, or None
    d,          \* registers of the divider
    m,          \* registers of the multiplier
    res,        \* result register of the one-clock units
    count       \* instructions executed before this one
avars == <<req, d, m, res, count>>

SignExt(v, w) == Word(SInt(v, w))
Signed(op, v, w) == op \notin Unsigned /\ Bit(v, w - 1) = 1
OpWidth(op) == IF op \in Rv32 THEN Half ELSE W

----------------------------------------------------------------------------
(***************************************************************************)
(* Divider.  ena counts the clocks since the request: bit ena - 1 of the   *)
(* shift register is set.                                                  *)
(***************************************************************************)
Steps == W \div (2 * K)
DivReset == [ena |-> 0, op |-> "DIV", invert |-> FALSE, zero |-> FALSE, overflow |-> FALSE,
             divident |-> 0, divisor |-> 0, bits |-> 0, result |-> 0]

DivLatch(r, q) ==
    LET w == OpWidth(q.op)
        x == q.x % 2^w
        y == q.y % 2^w
        a1 == IF Signed(q.op, x, w) THEN 2^w - x ELSE x
        a2 == IF Signed(q.op, y, w) THEN 2^w - y ELSE y
    IN  [r EXCEPT !.ena = 1, !.op = q.op, !.divident = a1, !.divisor = a2 * 2^(W - 2 * K),
                  !.invert = IF q.op \in ResidualHigh THEN Signed(q.op, x, w)
                             ELSE Signed(q.op, x, w) # Signed(q.op, y, w),
                  !.zero = IF q.op \in Unsigned THEN y = 0 ELSE y % 2^(w - 1) = 0,
                  !.overflow = q.op \notin Unsigned /\ a1 = 2^(W - 1) /\ a2 = 2^W - 1]

\* divstage64: K bits of the quotient, by comparison with the multiples
Stage(divident, divisor) ==
    LET b == CHOOSE b \in 0 .. 2^K - 1 :
                 /\ b * divisor <= divident
                 /\ b = 2^K - 1 \/ (b + 1) * divisor > divident
    IN  [bits |-> b, resid |-> divident - b * divisor]

DivStep(r) ==
    LET s0 == Stage(r.divident, r.divisor * 2^K)
        s1 == Stage(s0.resid, r.divisor)
    IN  [r EXCEPT !.ena = @ + 1, !.divident = s1.resid, !.divisor = @ \div 2^(2 * K),
                  !.bits = (@ * 2^(2 * K) + s0.bits * 2^K + s1.bits) % 2^W]

DivResult(r) ==
    LET inverted(v) == IF r.invert THEN Word(-v) ELSE v
        sized(v) == SignExt(v, OpWidth(r.op))
    IN  IF r.op \in ResidualHigh
        THEN IF r.overflow THEN 0 ELSE sized(inverted(r.divident))
        ELSE IF r.zero THEN 2^W - 1
        ELSE IF r.overflow THEN 2^(W - 1)
        ELSE sized(inverted(r.bits))

\* the result is taken one step early
DivNext_Early(r) ==
    IF r.ena = 0 \/ r.ena = Steps + 2 THEN [r EXCEPT !.ena = 0]
    ELSE IF r.ena = Steps THEN [r EXCEPT !.ena = Steps + 2, !.result = DivResult(r)]
    ELSE DivStep(r)
DivNext(r) ==
    IF r.ena = 0 \/ r.ena = Steps + 2 THEN [r EXCEPT !.ena = 0]
    ELSE IF r.ena = Steps + 1 THEN [r EXCEPT !.ena = @ + 1, !.result = DivResult(r)]
    ELSE DivStep(r)

----------------------------------------------------------------------------
(***************************************************************************)
(* Multiplier: digits of two bits, summed by a tree in three clocks.       *)
(***************************************************************************)
MulReset == [ena |-> 0, op |-> "MUL", a1 |-> 0, a2 |-> 0, inv |-> FALSE, zero |-> FALSE,
             result |-> 0]

\* all but the sign bit is zero
NoMagnitude(v) == v % 2^(W - 1) = 0
Magnitude(v) == IF Bit(v, W - 1) = 1 /\ ~NoMagnitude(v) THEN Word(-v) ELSE v

MulLatch(r, q) ==
    LET n == [r EXCEPT !.ena = 1, !.op = q.op, !.inv = FALSE, !.zero = FALSE]
    IN  CASE q.op = "MULW" -> [n EXCEPT !.a1 = SignExt(q.x, Half), !.a2 = SignExt(q.y, Half)]
          [] q.op = "MULHSU" ->
               [n EXCEPT !.zero = NoMagnitude(q.x) \/ q.y = 0, !.inv = Bit(q.x, W - 1) = 1,
                         !.a1 = Magnitude(q.x), !.a2 = q.y]
          [] q.op = "MULH" ->
               [n EXCEPT !.zero = NoMagnitude(q.x) \/ NoMagnitude(q.y),
                         !.inv = Bit(q.x, W - 1) # Bit(q.y, W - 1),
                         !.a1 = Magnitude(q.x), !.a2 = Magnitude(q.y)]
          [] OTHER -> [n EXCEPT !.a1 = q.x, !.a2 = q.y]

\* wb_lvl0 .. wb_lvl5
Product(r) ==
    LET lvl[n \in 0 .. Levels] ==
            [i \in 0 .. (Half \div 2^n) - 1 |->
               IF n = 0 THEN ((r.a2 \div 4^i) % 4) * r.a1
               ELSE lvl[n - 1][2 * i + 1] * 2^(2^n) + lvl[n - 1][2 * i]]
    IN  lvl[Levels][0]

MulResult(r) ==
    LET p == Product(r)
    IN  CASE r.op = "MULW" -> SignExt(p, Half)
          [] r.op \in ResidualHigh ->
               IF r.zero THEN 0
               ELSE (IF r.inv THEN 4^W - 1 - p ELSE p) \div 2^W
          [] OTHER -> Word(p)

MulNext(r) ==
    IF r.ena \in {0, 4} THEN [r EXCEPT !.ena = 0]
    ELSE IF r.ena = 3 THEN [r EXCEPT !.ena = 4, !.result = MulResult(r)]
    ELSE [r EXCEPT !.ena = @ + 1]

----------------------------------------------------------------------------
AddSub(op, x, y) ==
    LET a1 == IF op \in Rv32 THEN SignExt(x, Half) ELSE x
        a2 == IF op \in Rv32 THEN SignExt(y, Half) ELSE y
        r == CASE op \in {"ADD", "ADDW"} -> Word(a1 + a2)
               [] op \in {"SUB", "SUBW"} -> Word(a1 - a2)
               [] op = "SLT" -> Bit(Word(a1 - a2), W - 1)
               [] op = "SLTU" -> IF a1 < a2 THEN 1 ELSE 0
    IN  IF op \in Rv32 THEN SignExt(r, Half) ELSE r

\* wb_sll, wb_srl, wb_sra
Shift64(op, x, s) ==
    LET msk == IF Bit(x, W - 1) = 1 THEN 2^W - 2^(W - s) ELSE 0
    IN  CASE op = "SLL" -> (x * 2^s) % 2^W
          [] op = "SRL" -> x \div 2^s
          [] op = "SRA" -> msk + x \div 2^s
\* wb_sllw, wb_srlw, wb_sraw
Shift32(op, x, s) ==
    LET v == x % 2^Half
        msk == IF Bit(x, Half - 1) = 1 THEN 2^W - 2^(Half - s) ELSE 0
    IN  CASE op = "SLLW" -> SignExt(v * 2^s, Half)
          [] op = "SRLW" -> SignExt(v \div 2^s, Half)
          [] op = "SRAW" -> msk + v \div 2^s
Shift(op, x, y) ==
    IF op \in Rv32 THEN Shift32(op, x, y % Half) ELSE Shift64(op, x, y % W)

----------------------------------------------------------------------------
ArithInit == req = None /\ d = DivReset /\ m = MulReset /\ res = 0 /\ count = 0

\* the execute stage gives an instruction to its unit
Request(q) ==
    /\ req = None
    /\ req' = q
    /\ d' = IF q.op \in DivOps THEN DivLatch(d, q) ELSE d
    /\ m' = IF q.op \in MulOps THEN MulLatch(m, q) ELSE m
    /\ res' = IF q.op \notin AluOps THEN res
              ELSE IF q.op \in {"SLL", "SRL", "SRA", "SLLW", "SRLW", "SRAW"}
              THEN Shift(q.op, q.x, q.y) ELSE AddSub(q.op, q.x, q.y)
    /\ UNCHANGED count

\* o_valid of the unit
Valid == req # None /\ CASE req.op \in DivOps -> d.ena = Steps + 2
                          [] req.op \in MulOps -> m.ena = 4
                          [] OTHER -> TRUE
Result == CASE req.op \in DivOps -> d.result [] req.op \in MulOps -> m.result [] OTHER -> res

ArithClock ==
    /\ req # None
    /\ d' = DivNext(d) /\ m' = MulNext(m) /\ UNCHANGED res
    /\ req' = IF Valid THEN None ELSE req
    /\ count' = IF Valid THEN count + 1 ELSE count

Requests == [op : DivOps \cup MulOps \cup AluOps, x : Operands, y : Operands]
ArithNext ==
    \/ count = 0 /\ \E q \in First : Request(q)
    \/ count = 1 /\ \E q \in Requests : Request(q)
    \/ ArithClock
    \/ count = 2 /\ UNCHANGED avars
ArithSpec == ArithInit /\ [][ArithNext]_avars

----------------------------------------------------------------------------
Least == 2^(W - 1)

(***************************************************************************)
(* What the units are known not to compute: a division by the least number *)
(* is taken for one by zero, a high product with it for zero.              *)
(***************************************************************************)
Excepted(q) ==
    \/ q.op = "DIV" /\ q.y = Least
    \/ q.op = "DIVW" /\ q.y % 2^Half = 2^(Half - 1)
    \/ q.op = "MULH" /\ Least \in {q.x, q.y}
    \/ q.op = "MULHSU" /\ q.x = Least

(***************************************************************************)
(* The divider, the multiplier, the adder and the shifter give what the    *)
(* functional simulator gives, in whatever order instructions use their    *)
(* registers (bits_i, inv, zero); the comparison of signed numbers does    *)
(* where their difference fits in a word.                                  *)
(***************************************************************************)
UnitsAgree ==
    Valid /\ ~Excepted(req) =>
        /\ req.op \in DivOps => Result = SimDiv(req.op, req.x, req.y)
        /\ req.op \in MulOps => Result = SimMul(req.op, req.x, req.y)
        /\ req.op \in AluOps =>
              \/ Result = SimAlu(req.op, req.x, req.y)
              \/ req.op = "SLT" /\ SInt(req.x, W) - SInt(req.y, W) \notin -Least .. Least - 1
============================================================================
