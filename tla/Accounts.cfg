CONSTANTS
    Users = {u1, u2}
    Emails = {e1, e2}
    Discords = {d1}
    Googles = {g1}
    Desks = {k1, k2}
    MaxLinks = 2
    Nil = nil
SPECIFICATION Spec
SYMMETRY Symmetric
CONSTRAINT OneNonce
INVARIANTS TypeOK EveryoneCanSignIn
PROPERTY OnlyTheAddressLastAsked
CHECK_DEADLOCK FALSE
