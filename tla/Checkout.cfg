SPECIFICATION CheckoutSpec
CONSTANTS
    Users = {u1}
    Hooks = {h1}
    Offices = {o1}
    MaxPlanRows = 2
    MaxAddonRows = 2
    MaxPayments = 2
INVARIANTS
    CheckoutTypeOK
    AppliedOnce
    
    PaidAddonIsDelivered

    
    
CHECK_DEADLOCK FALSE
