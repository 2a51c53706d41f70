-------------------------- MODULE MCInterpolation --------------------------
\* Interpolation for TLC: places on either side of north, and one facing the other way.
EXTENDS Interpolation

SomePoses == {[pos |-> 0, rot |-> 1], [pos |-> 3, rot |-> 2 * PI - 2], [pos |-> 1, rot |-> PI + 1]}
=============================================================================
