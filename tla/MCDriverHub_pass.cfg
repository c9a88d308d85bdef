CONSTANTS
    h1 = h1
    h2 = h2
    h3 = h3
    Merchants <- MCMerchants
    MaxRequests = 4
SPECIFICATION Spec
SYMMETRY MCSymmetry
\* The page goes idle once the user stops; the bound on requests stops them.
CHECK_DEADLOCK FALSE
CONSTANT LossyNetwork = TRUE
INVARIANTS
    TypeOK
