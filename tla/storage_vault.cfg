\* One process, two machines, either backend; calls may fail.
CONSTANTS
    p1 = p1
    m1 = m1
    m2 = m2
    a1 = a1
    a2 = a2
    t1 = t1
    Procs = {p1}
    Machines = {m1, m2}
    Accounts = {a1, a2}
    Tokens = {t1}
    Faults <- ReportedFaults
    Crashes = FALSE
    None = None
SPECIFICATION Spec
INVARIANT TypeOK
 
