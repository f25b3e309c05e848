--------------------------- MODULE MCDCacheMem -----------------------------
EXTENDS DCacheMem
\* loads and stores to three lines of a set in two ways
Plain == [types |-> {{}, {"Store"}}, values |-> {1}, tags |-> {0, 1, 2}]
\* the atomic pair between stores to two lines
Atomic == [types |-> {{"Store"}, {"Reserve"}, {"Store", "Release"}}, values |-> {0},
           tags |-> {0, 1}]
\* a cached line among lines that are uncached, protected and faulting
Strange == [types |-> {{}, {"Store"}}, values |-> {1}, tags |-> {2, 3, 4, 5}]
MCWorkloads == {Plain, Atomic, Strange}
\* the atomic pair on one line
MCPair == {[types |-> {{"Reserve"}, {"Store", "Release"}}, values |-> {0}, tags |-> {0}]}
MCReserve == {[types |-> {{}, {"Store"}, {"Reserve"}}, values |-> {1}, tags |-> {0}]}
============================================================================
