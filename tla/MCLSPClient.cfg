\* Two workers; the CLI's tools are shared by all workers of a session.
SPECIFICATION Spec
CONSTANTS
    Caller = {c1, c2}
    None = none
    MaxCalls = 2
PROPERTIES
    CallsReturn
CHECK_DEADLOCK FALSE
