\* One process that may not write to the storage.
CONSTANTS
    p1 = p1
    m1 = m1
    a1 = a1
    t1 = t1
    Procs = {p1}
    Machines = {m1}
    Accounts = {a1}
    Tokens = {t1}
    Faults <- NoFaults
    Crashes = FALSE
    None = None
SPECIFICATION Spec
PROPERTY ReadOnlyKept
