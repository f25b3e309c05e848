----------------------------- MODULE QueueFifo -----------------------------
(***************************************************************************)
(* What the request queue of CacheTop and MemAccess (core/queue.h)         *)
(* promises: a first-in first-out queue of at most Depth words.  In one    *)
(* clock a word may be offered (we), and the oldest word may be taken (re),*)
(* which is the offered word when the queue is empty.  A word offered to a *)
(* full queue from which none is taken is refused.                         *)
(***************************************************************************)
EXTENDS Sequences, Naturals

CONSTANTS
    Depth,      \* number of words the queue holds
    Data,       \* the words
    None        \* no word is taken

VARIABLES
    q,          \* the words in the queue, the oldest first
    got         \* the word taken in the last clock, or None

FifoInit == q = <<>> /\ got = None

Offered(we, x) == IF we THEN Append(q, x) ELSE q

FifoTake(we, x) ==
    /\ Offered(we, x) # <<>>
    /\ got' = Head(Offered(we, x))
    /\ q' = Tail(Offered(we, x))

FifoKeep(we, x) ==
    /\ q' = IF Len(q) < Depth THEN Offered(we, x) ELSE q
    /\ got' = None

FifoNext ==
    \E we \in BOOLEAN, x \in Data : FifoTake(we, x) \/ FifoKeep(we, x)

FifoSpec == FifoInit /\ [][FifoNext]_<<q, got>>
============================================================================
