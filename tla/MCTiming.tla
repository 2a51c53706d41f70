------------------------------ MODULE MCTiming ------------------------------
\* Timing for TLC.  A time unit is about five milliseconds for the server's loop and
\* the snapshots; heartbeats and timeout are scaled down.
EXTENDS Timing
=============================================================================
