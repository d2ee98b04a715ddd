SPECIFICATION Spec
CONSTANTS
    Products <- MCProducts
    InitialStock <- MCStock
    Deletable = {"p1"}
    Promos <- MCPromos
    MaxUses <- MCMaxUses
    NoPromo = "no promo"
    Creates = {"create1", "create2"}
    Updates = {"update1", "update2", "change2"}
    Cancels = {}
    Admins = {"admin"}
    UserOf <- MCUserOf
    ItemsOf <- MCItemsOf
    PromoOf <- MCPromoOf
    ReachesMin <- MCReachesMin
    OrderOf <- MCOrderOf
INVARIANTS TypeOK PromoWithinLimit
PROPERTIES RefinesLedger UpdatesRateLimited EveryRequestAnswered
CHECK_DEADLOCK FALSE
