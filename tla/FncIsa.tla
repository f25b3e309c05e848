------------------------------- MODULE FncIsa -------------------------------
(***************************************************************************)
(* What the functional simulator computes for the integer instructions:    *)
(* debugger/src/cpu_fnc_plugin/riscv-ext-m.cpp and riscv-rv64i-user.cpp,   *)
(* with registers of W bits instead of 64 and half words of W / 2 bits.    *)
(***************************************************************************)
EXTENDS Integers

CONSTANT W      \* width of a register

Half == W \div 2
Words == 0 .. 2^W - 1

\* the low w bits of v as a signed number, and a number as a word
SInt(v, w) == LET l == v % 2^w IN IF l >= 2^(w - 1) THEN l - 2^w ELSE l
Word(n) == n % 2^W
Bit(v, i) == (v \div 2^i) % 2
Abs(n) == IF n < 0 THEN -n ELSE n
Sgn(n) == IF n < 0 THEN -1 ELSE 1

\* division of C++, which truncates towards zero
Quot(x, y) == Sgn(x) * Sgn(y) * (Abs(x) \div Abs(y))
Rem(x, y) == x - y * Quot(x, y)

SimDiv(op, x, y) ==
    LET sw == SInt(x, Half)
        tw == SInt(y, Half)
        uw == x % 2^Half
        vw == y % 2^Half
    IN  CASE op = "DIV" -> IF y = 0 THEN Word(-1) ELSE Word(Quot(SInt(x, W), SInt(y, W)))
          [] op = "DIVU" -> IF y = 0 THEN Word(-1) ELSE x \div y
          [] op = "DIVW" -> IF tw = 0 THEN Word(-1) ELSE Word(SInt(Quot(sw, tw), Half))
          [] op = "DIVUW" -> IF vw = 0 THEN Word(-1) ELSE Word(SInt(uw \div vw, Half))
          [] op = "REM" -> IF y = 0 THEN x ELSE Word(Rem(SInt(x, W), SInt(y, W)))
          [] op = "REMU" -> IF y = 0 THEN x ELSE x % y
          [] op = "REMW" -> IF tw = 0 THEN Word(sw) ELSE Word(Rem(sw, tw))
          [] op = "REMUW" -> IF vw = 0 THEN Word(sw) ELSE Word(SInt(uw % vw, Half))

(***************************************************************************)
(* The upper half of a product: sums of pairs of words, the carry between  *)
(* them found from the most significant bits of the summands and the sum.  *)
(***************************************************************************)
Carry(m1, m2, res) ==
    IF (m1 = 1 /\ m2 = 1) \/ ((m1 = 1 \/ m2 = 1) /\ res = 0) THEN 1 ELSE 0

\* x shifted left by s, plus y
AddPairs(x, y, s) ==
    LET lo == (x.lo * 2^s + y.lo) % 2^W
    IN  [lo |-> lo,
         hi |-> (x.hi * 2^s + x.lo \div 2^(W - s) + y.hi
                 + Carry(Bit(x.lo, W - 1 - s), Bit(y.lo, W - 1), Bit(lo, W - 1))) % 2^W]

Level0(x, d) ==
    CASE d = 0 -> [lo |-> 0, hi |-> 0]
      [] d = 1 -> [lo |-> x, hi |-> 0]
      [] d = 2 -> [lo |-> (2 * x) % 2^W, hi |-> Bit(x, W - 1)]
      [] d = 3 -> LET lo == (3 * x) % 2^W
                  IN  [lo |-> lo,
                       hi |-> Bit(x, W - 1) + Carry(Bit(x, W - 2), Bit(x, W - 1), Bit(lo, W - 1))]

Levels == CHOOSE n \in 0 .. W : 2^n = Half
SimHigh(x, y) ==
    LET lvl[n \in 0 .. Levels] ==
            [i \in 0 .. (Half \div 2^n) - 1 |->
               IF n = 0 THEN Level0(x, (y \div 4^i) % 4)
               ELSE AddPairs(lvl[n - 1][2 * i + 1], lvl[n - 1][2 * i], 2^n)]
    IN  lvl[Levels][0].hi

\* a negative number that is not the least one is made positive: "not -0"
Negated(v) == Bit(v, W - 1) = 1 /\ v # 2^(W - 1)
Positive(v) == IF Negated(v) THEN Word(-v) ELSE v

SimMul(op, x, y) ==
    LET y1 == IF op = "MULH" THEN Positive(y) ELSE y
        inv == Negated(x) # (op = "MULH" /\ Negated(y))
        hi == SimHigh(Positive(x), y1)
    IN  CASE op = "MUL" -> Word(SInt(x, W) * SInt(y, W))
          [] op = "MULW" -> Word(SInt(SInt(x, Half) * SInt(y, Half), Half))
          [] op = "MULHU" -> SimHigh(x, y)
          [] op \in {"MULH", "MULHSU"} ->
               IF x = 0 \/ y = 0 THEN 0 ELSE IF inv THEN 2^W - 1 - hi ELSE hi

SimAlu(op, x, y) ==
    LET sh == y % W
        shw == y % Half
    IN  CASE op = "ADD" -> Word(x + y)
          [] op = "SUB" -> Word(x - y)
          [] op = "ADDW" -> Word(SInt(x + y, Half))
          [] op = "SUBW" -> Word(SInt(x - y, Half))
          [] op = "SLT" -> IF SInt(x, W) < SInt(y, W) THEN 1 ELSE 0
          [] op = "SLTU" -> IF x < y THEN 1 ELSE 0
          [] op = "SLL" -> Word(x * 2^sh)
          [] op = "SRL" -> x \div 2^sh
          [] op = "SRA" -> Word(SInt(x, W) \div 2^sh)
          [] op = "SLLW" -> Word(SInt(x * 2^shw, Half))
          [] op = "SRLW" -> Word(SInt((x % 2^Half) \div 2^shw, Half))
          [] op = "SRAW" -> Word(SInt(x, Half) \div 2^shw)
============================================================================
