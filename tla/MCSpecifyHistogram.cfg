SPECIFICATION SearchSpec
INVARIANT Close
PROPERTY Shrinks
CHECK_DEADLOCK FALSE
