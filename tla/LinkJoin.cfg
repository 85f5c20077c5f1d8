SPECIFICATION Spec
INVARIANTS
    ProxyAwaitsBoth
CHECK_DEADLOCK FALSE
