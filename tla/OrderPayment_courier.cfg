SPECIFICATION Spec
CONSTANTS
    Customer = {c1}
    NoCustomer = NoCustomer
    HasDeliveryAPI = TRUE
    MaxOrders = 1
    MaxChats = 2
    MaxSellerActions = 0
    MaxFaults = 0
CHECK_DEADLOCK FALSE
PROPERTY CourierKeepsPayment
