------------------------------ MODULE MCUnits ------------------------------
(***************************************************************************)
(* The units that work without others: the replacement table, checked      *)
(* against the textbook definition of least recently used order, and the   *)
(* arithmetic units, checked against the functional simulator with words   *)
(* of 8 bits.  A behaviour is one of either kind.                          *)
(***************************************************************************)
EXTENDS LruNWay, Arith, Sequences

VARIABLE unit   \* "lru" or "arith"
uvars == <<unit, mem, radr, req, d, m, res, count>>

Table == unit = "lru" /\ TableNext /\ UNCHANGED <<unit, avars>>
Arithmetic == unit = "arith" /\ ArithNext /\ UNCHANGED <<unit, vars>>

UnitsInit == TableInit /\ ArithInit /\ unit \in {"lru", "arith"}
UnitsSpec == UnitsInit /\ [][Table \/ Arithmetic]_uvars

\* operands at the limits of words and half words
MCOperands == {0, 1, 3, 7, 8, 9, 16, 85, 127, 128, 129, 248, 255}
MCFirst == {[op |-> "DIVU", x |-> 255, y |-> 1], [op |-> "REM", x |-> 129, y |-> 3],
            [op |-> "MULH", x |-> 0, y |-> 129], [op |-> "MULHSU", x |-> 129, y |-> 7]}

AsSeq(row) == [i \in 1 .. Ways |-> row[i - 1]]
Others(row, w) == SelectSeq(AsSeq(row), LAMBDA x : x # w)

(***************************************************************************)
(* An update of a complete row moves one way behind all others (used) or   *)
(* before all others (invalidated) and keeps the order of the rest, or     *)
(* restores the initial order; no row but the one that was read changes.   *)
(***************************************************************************)
RowFollowsLru ==
    [][\A s \in Sets :
          IsPermutation(mem[s]) /\ mem'[s] # mem[s] =>
             /\ s = radr
             /\ \/ mem'[s] = RowInit
                \/ \E w \in Way :
                      AsSeq(mem'[s]) \in {Append(Others(mem[s], w), w),
                                          <<w>> \o Others(mem[s], w)}]_vars
============================================================================
