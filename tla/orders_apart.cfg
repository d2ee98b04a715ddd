SPECIFICATION SpecApart
CONSTANTS
    Products <- MCProducts
    InitialStock <- MCStock
    Deletable = {}
    Promos <- MCPromos
    MaxUses <- MCMaxUses
    NoPromo = "no promo"
    Creates = {"create1", "createSmall", "createPlain"}
    Updates = {"updateBack"}
    Cancels = {"cancelAdmin", "cancelStranger"}
    Admins = {"admin"}
    UserOf <- MCUserOf
    ItemsOf <- MCItemsOf
    PromoOf <- MCPromoOf
    ReachesMin <- MCReachesMin
    OrderOf <- MCOrderOf
INVARIANTS OneActiveOrder StockConserved PromoCounted
PROPERTIES RefinesLedger CreatesRateLimited
CHECK_DEADLOCK FALSE
