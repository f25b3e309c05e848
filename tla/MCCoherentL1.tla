--------------------------- MODULE MCCoherentL1 ----------------------------
EXTENDS CoherentL1
\* both cores store, or one of them stores two values
Both == [writers |-> {0, 1}, values |-> {0}]
One == [writers |-> {0}, values |-> {0, 1}]
MCWorkloads == {Both, One}
MCBoth == {Both}
============================================================================
