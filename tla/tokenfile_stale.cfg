\* One goroutine; the writer renames complete files into place.
CONSTANTS
    c1 = c1
    Callers = {c1}
    MaxWrites = 3
    Deployments <- AtomicWriter
    None = None
SPECIFICATION Spec
INVARIANT UnmodifiedSinceRead
