\* Three creations at once for three threads, two restarts.
CONSTANTS
    Keys = {k1, k2, k3}
    Threads = {t1, t2, t3}
    MaxRestarts = 2
    None = None
SPECIFICATION Spec
SYMMETRY Symmetry
INVARIANTS HandedOutIsUsable AcceptingMeansSettled
\* Every creation ends, and the runtime has no more threads to start.
CHECK_DEADLOCK FALSE
