SPECIFICATION Spec
CONSTANTS
    DEPTH = 4
    MAX_BLOCKS = 2
    IRQ_LIMIT = 2
    Lbas <- MCLbas
    MAX_LATE = 2
PROPERTIES ImplementsBlockDevice 
