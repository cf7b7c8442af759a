SPECIFICATION Spec
CONSTANTS
    small = small
    other = other
    big = big
    Msg = {small, other, big}
    SizeOf <- Sizes
    Limits <- OneLimit
    MayFail = TRUE
CHECK_DEADLOCK FALSE
INVARIANTS
    TypeOK
    
    
