\* The layout for the endpoints of the device and for the last one there may be
CONSTANTS
    Numbers = {0, 1, 2, 15}
    DpramSize = 4096
SPECIFICATION Spec
INVARIANT ObjectsDisjoint
