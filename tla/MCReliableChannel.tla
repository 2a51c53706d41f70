------------------------- MODULE MCReliableChannel -------------------------
\* ReliableChannel for TLC.
EXTENDS ReliableChannel
=============================================================================
