CONSTANTS
    u1 = u1
    u2 = u2
    c1 = c1
    c2 = c2
    c3 = c3
    m1 = m1
    m2 = m2
    m3 = m3
    m4 = m4
    None = None
    Users <- TwoUsers
    Cards <- ThreeCards
    Messages <- FourMessages
    Types <- Removable
    Retries = 2
    MaxChanges = 2
    Holders = {u1}
    MaxClaims = 1
    Overlap = TRUE
    Reuse = FALSE
SPECIFICATION FairSpec
CHECK_DEADLOCK FALSE
PROPERTIES
    CallsReturn
