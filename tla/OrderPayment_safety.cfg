SPECIFICATION FairSpec
CONSTANTS
    Customer = {c1}
    NoCustomer = NoCustomer
    HasDeliveryAPI = TRUE
    MaxOrders = 2
    MaxChats = 3
    MaxSellerActions = 1
    MaxFaults = 1
CHECK_DEADLOCK FALSE
INVARIANTS
    TypeOK
    OnePendingPerCustomer
    
    
 
