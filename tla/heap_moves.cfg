SPECIFICATION Spec
CONSTANTS
    Process = {p1, p2}
    Container = {a, b}
    MaxCount = 2
    MaxSize = 2
    MaxMoves = 3
INVARIANTS NoFault CopyFaithful ListAccountsForHeap EveryBlockRecorded
CHECK_DEADLOCK FALSE
SYMMETRY HeapSymmetry
