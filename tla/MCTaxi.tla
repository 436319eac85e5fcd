------------------------------- MODULE MCTaxi -------------------------------
EXTENDS Taxi, TLC

\* A negative timer, one that disarms, and one with ticks before it fires.
AllTimers == {-1, 0, 2}
\* The two cases of timerfd_settime.
TwoTimers == {0, 1}

\* Drivers are interchangeable (used by runs without liveness only).
Symmetry == Permutations(Driver)
=============================================================================
