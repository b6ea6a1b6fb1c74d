SPECIFICATION Spec
CONSTANTS
    Cooldown = 4
    MaxTime = 14
    Never = Never
INVARIANTS
    BurstOfTwo
    BoundedWait
