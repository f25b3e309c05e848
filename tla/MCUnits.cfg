SPECIFICATION UnitsSpec
CONSTANTS
    None = None
    Ways = 4
    Sets = {0, 1}
    W = 8
    K = 2
    Operands <- MCOperands
    First <- MCFirst
INVARIANT UnitsAgree
PROPERTIES StaysPermutation RowFollowsLru
