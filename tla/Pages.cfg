SPECIFICATION Spec
CONSTANTS
    InitRow <- FirstRows
    Order = {a, b}
    NoOrder = NoOrder
    Filter = {"", "verified"}
    MaxLists = 2
    MaxActs = 5
    MaxChanges = 2
    Conv = {a, b}
    NoConv = NoConv
    Tab = {"all", "unread"}
    MaxConvActs = 4
    Product = {a, b}
    NoProduct = NoProduct
    MaxStock = 1
    MaxProductActs = 3
    PollLimit = 2
    MaxRuns = 2
    MaxPublishes = 2
    Rule = {a, b}
    NoRule = NoRule
    MaxRuleActs = 4
    Payment = {"bkash"}
    Courier = {"pathao"}
    MaxShopActs = 4
    Foreign = {7}
    MaxGenerations = 2
    MaxSockets = 2
    MaxPosts = 1
    Section = {"hero", "faq", "banner"}
    NoForm = NoForm
    MaxContentActs = 5
    Password = {a, b}
    NoPassword = NoPassword
    MaxCodes = 3
    MaxAccountActs = 4
    MaxUnderWay = 2
    Secret = {a, b}
    NoSecret = NoSecret
    MaxTwoFactorActs = 4
    ReviewId = {a, b}
    MaxReviewActs = 3
SYMMETRY Symmetry
CHECK_DEADLOCK FALSE
INVARIANTS
    TypeOK
    
    FormsAreTheirOwn
    
    MaskIsNoKey
    CredentialsAreAsSaid
PROPERTIES
    
    
    AnswersAreTheirOwn
    
