SPECIFICATION FairSpec
CONSTANTS
    Products = {1, 2, 3, 4}
    CreatedAt <- Created
    Stocked = {1, 2, 3}
    Limit = 2
    Shoppers = {s1, s2}
    UserOf <- OneUser
    NoOne = NoOne
    MaxItemQty = 3
    Wanted = {1, 2}
    Kept <- InCart
INVARIANTS TypeOK ListingComplete AdditionsCounted
PROPERTY PagesAnswered
CHECK_DEADLOCK FALSE
