\* Bodies with up to three items, two tools and two includes.
SPECIFICATION Spec
CONSTANTS
    Bodies <- MCBodies
    Types <- MCTypes
    Tools <- MCTools
    Includes <- MCIncludes
INVARIANTS
    TypeOK
    ClientIsHeard
    AddedOnce
    PatchedTwice
CHECK_DEADLOCK FALSE
