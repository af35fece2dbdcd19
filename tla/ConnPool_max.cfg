\* Two handlers and a pool of one.  Excess connections park their handlers for good.
SPECIFICATION Spec
CONSTANTS
    Handlers = {h1, h2}
    Main = m
    MaxConns = 1
INVARIANT WithinMaxConns
CHECK_DEADLOCK FALSE
