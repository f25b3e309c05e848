------------------------------ MODULE LruNWay ------------------------------
(***************************************************************************)
(* Replacement table of an N-way set-associative cache:                    *)
(* sc/rtl/riverlib/cache/lrunway.h.                                        *)
(*                                                                         *)
(* Every set (line index) of the cache owns one table row, a sequence of   *)
(* way numbers packed into one word.  Entry 0 is the next way to displace, *)
(* entry Ways-1 the most recently used one.  A row is read through the     *)
(* registered address radr and written, in the same clock, at i_waddr.     *)
(***************************************************************************)
EXTENDS Integers

CONSTANTS
    Ways,   \* WAYS_TOTAL = 1 << waybits
    Sets    \* line indices 0 .. LINES_TOTAL-1

ASSUME WaysAssumption == Ways \in Nat \ {0}
ASSUME SetsAssumption == Sets # {}

Way == 0 .. Ways - 1

VARIABLES
    mem,    \* r.mem:  one row of way numbers per set
    radr    \* r.radr: set whose row is on the read port

vars == <<mem, radr>>

Row == [Way -> Way]

TypeOK == mem \in [Sets -> Row] /\ radr \in Sets

(***************************************************************************)
(* Rows are plain registers without reset; the simulation model starts     *)
(* them at zero, which is no permutation of the ways.                      *)
(***************************************************************************)
TableInit ==
    /\ mem = [s \in Sets |-> [i \in Way |-> 0]]
    /\ radr \in Sets

(***************************************************************************)
(* Definitions named X_<variant> are mutated forms of X: a plausible slip  *)
(* in the code, which the properties have to notice.  No specification     *)
(* uses them.                                                              *)
(***************************************************************************)

(***************************************************************************)
(* The value of a row after i_init.                                        *)
(***************************************************************************)
RowInit == [i \in Way |-> i]

\* shift_ena_up is never cleared
RowUp_NoStop(row, w) ==
    IF row[Ways - 1] = w THEN row
    ELSE [i \in Way |-> IF i = Ways - 1 THEN w ELSE row[i + 1]]

(***************************************************************************)
(* "Last used goes on top": the entries above way w move one place down,   *)
(* w becomes entry Ways-1.  The loop of the source stops shifting below    *)
(* the topmost entry equal to w.                                           *)
(***************************************************************************)
RowUp(row, w) ==
    IF row[Ways - 1] = w THEN row
    ELSE [i \in Way |->
            IF i = Ways - 1 THEN w
            ELSE IF \A j \in i + 1 .. Ways - 2 : row[j] # w THEN row[i + 1]
            ELSE row[i]]

\* the two entries change places instead of a shift
RowDown_Swap(row, w) ==
    [i \in Way |-> IF i = 0 THEN w ELSE IF row[i] = w THEN row[0] ELSE row[i]]

(***************************************************************************)
(* "Marked as invalid goes down": the mirror image, w becomes entry 0.     *)
(***************************************************************************)
RowDown(row, w) ==
    IF row[0] = w THEN row
    ELSE [i \in Way |->
            IF i = 0 THEN w
            ELSE IF \A j \in 1 .. i - 1 : row[j] # w THEN row[i - 1]
            ELSE row[i]]

\* o_lru: the way to displace of the set that was addressed one clock ago
Lru == mem[radr][0]

(***************************************************************************)
(* One clock.  TagMemNWay drives i_waddr with the address it read one      *)
(* clock ago, which is radr; init has priority over up, up over down.      *)
(***************************************************************************)
TableClock(init, up, down, raddr, lru) ==
    /\ radr' = raddr
    /\ mem' = IF init \/ up \/ down
              THEN [mem EXCEPT ![radr] =
                      IF init THEN RowInit
                      ELSE IF up THEN RowUp(mem[radr], lru)
                      ELSE RowDown(mem[radr], lru)]
              ELSE mem

(***************************************************************************)
(* The table by itself, under every input.                                 *)
(***************************************************************************)
TableNext == \E init, up, down \in BOOLEAN, raddr \in Sets, lru \in Way :
            TableClock(init, up, down, raddr, lru)

TableSpec == TableInit /\ [][TableNext]_vars

----------------------------------------------------------------------------
\* Properties

IsPermutation(row) == \A i, j \in Way : row[i] = row[j] => i = j

(***************************************************************************)
(* Once a row names every way exactly once, which i_init establishes, no   *)
(* sequence of updates loses or doubles a way: every way stays reachable   *)
(* as a victim.                                                            *)
(***************************************************************************)
StaysPermutation ==
    [][\A s \in Sets : IsPermutation(mem[s]) => IsPermutation(mem'[s])]_vars

============================================================================
