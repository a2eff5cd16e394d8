\* One second is 3 ns here, so every input up to MaxN reaches two whole
\* hours and every carry (nanos to secs, secs to mins, mins to hours)
\* happens.  The widths are wide enough that no try_from fails.
\* The enumeration of inputs stops at MaxN: no deadlock check.
CONSTANTS
    NanosPerSec = 3
    SecsBits = 30
    MinsBits = 20
    MaxN = 22000
SPECIFICATION Spec
INVARIANT DecompositionCorrect
CHECK_DEADLOCK FALSE
