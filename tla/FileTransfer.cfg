CONSTANTS 
 r1 = r1
 r2 = r2
 p1 = p1
 p2 = p2
 t1 = t1
 Requests <- MCRequests
 None = None
 Foreign = Foreign
 Size <- MCSize
 Window = 1
 MaxConns = 2
 MaxLosses = 1
SPECIFICATION CasesSpec
INVARIANTS QueuesHold StoredIsUsed
PROPERTIES DoneIsWhole FileIsKept TransferSettles
CHECK_DEADLOCK FALSE
