SPECIFICATION Spec
CONSTANTS
    Call = {c1, c2}
    none = none
INVARIANT WebInv
PROPERTY SignedOutByRefresh
PROPERTY CallsEnd
