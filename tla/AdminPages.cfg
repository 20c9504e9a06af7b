\* Two tabs over one key and one label, with two cookies to draw.
SPECIFICATION Spec
CONSTANTS
    Keys = {k1}
    Labels = {l1}
    Tabs = {b1, b2}
    Cookies = {c1, c2}
    None = None
SYMMETRY TabSymmetry
INVARIANTS
    TypeOK
    KeyToldOnce
PROPERTIES
    FormsStayValid
    RevokedStaysRevoked
CHECK_DEADLOCK FALSE
