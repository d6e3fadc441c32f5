SPECIFICATION FairSpec
CONSTANTS
    Requests = {r1, r2}
    Users = {"ann", "bob"}
    Can <- Permissions
    Products = {1, 2}
    Names = {"x", "y"}
    Same = Same
    Categories = {"tea"}
    CategoryAsk <- Asked
    Batches <- SomeBatches
    MaxImages = 2
    Viewed = {1}
    NoOne = NoOne
INVARIANTS TypeOK NamesUnique DetailsComplete ImagesKeyed
PROPERTIES WritesByOwner RequestsAnswered
