\* Two processes on one machine's entries; calls fail, processes die.
CONSTANTS
    p1 = p1
    p2 = p2
    m1 = m1
    a1 = a1
    a2 = a2
    t1 = t1
    Procs = {p1, p2}
    Machines = {m1}
    Accounts = {a1, a2}
    Tokens = {t1}
    Faults <- AllFaults
    Crashes = TRUE
    None = None
SPECIFICATION Spec
SYMMETRY ValueSymmetry
INVARIANTS
    WholePairs
    
