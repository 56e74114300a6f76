------------------------- MODULE MCDaemonOperations -------------------------
EXTENDS DaemonOperations

CONSTANTS raw, leased

\* One operation of each mode.
OneOfEach == [o \in Ids |-> IF o = raw THEN "raw" ELSE "worker"]
=============================================================================
