SPECIFICATION Spec
CONSTANTS
    bag = bag
    shirt = shirt
    red = red
    blue = blue
    Product = {bag, shirt}
    Variant = {red, blue}
    ParentOf <- Parents
    FirstVariants = {red}
    AIOrder = {a1, a2}
    SellerOrder = {s1}
    Cart <- Carts
    Amount = {0, 2}
    NoRow = NoRow
    MaxEdits = 1
    MaxFaults = 1
CHECK_DEADLOCK FALSE
INVARIANTS
    TypeOK
    TakesAddUp
    AgentsNeverOversell
    
PROPERTY
    OrdersEnd
