CONSTANTS
    a1 = a1
    a2 = a2
    Slots <- MCSlots
    ResolveOutcomes <- ResolveMayFail
SPECIFICATION Spec
CHECK_DEADLOCK FALSE
INVARIANT KeysValidOnReturn
