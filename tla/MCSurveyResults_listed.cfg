CONSTANTS
    s1 = s1
    s2 = s2
    m1 = m1
    m2 = m2
    Cleared = Cleared
    Surveys <- MCSurveys
    Merchants <- MCMerchants
    MerchantsOf <- MCMerchantsOf
    MaxRequests = 3
SPECIFICATION Spec
\* The page goes idle once the user stops; the bound on requests stops them.
CHECK_DEADLOCK FALSE
CONSTANT LossyNetwork = FALSE
INVARIANT
    SubBrandsOfListedMerchants
