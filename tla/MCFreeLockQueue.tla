--------------------------- MODULE MCFreeLockQueue ---------------------------
\* Small instances of FreeLockQueue.
EXTENDS FreeLockQueue
=============================================================================
