CONSTANTS
    r1 = r1
    r2 = r2
    r3 = r3
    m1 = m1
    m2 = m2
    NoOptions = NoOptions
    Roles <- MCRoles
    Merchants <- MCMerchants
    MerchantDisabledFor <- MCMerchantDisabledFor
    SubBrandDisabledFor <- MCSubBrandDisabledFor
    MerchantsFor <- MCMerchantsFor
    MaxRequests = 3
SPECIFICATION Spec
\* The page goes idle once the user stops; the bound on requests stops them.
CHECK_DEADLOCK FALSE
CONSTANT LossyNetwork = FALSE
INVARIANT SubBrandTwoState
