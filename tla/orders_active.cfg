SPECIFICATION Spec
CONSTANTS
    Products <- MCProducts
    InitialStock <- MCStock
    Deletable = {"p1"}
    Promos <- MCPromos
    MaxUses <- MCMaxUses
    NoPromo = "no promo"
    Creates = {"create1", "createPlain"}
    Updates = {"update1"}
    Cancels = {"cancel1"}
    Admins = {"admin"}
    UserOf <- MCUserOf
    ItemsOf <- MCItemsOf
    PromoOf <- MCPromoOf
    ReachesMin <- MCReachesMin
    OrderOf <- MCOrderOf
INVARIANTS OneActiveOrder
CHECK_DEADLOCK FALSE
