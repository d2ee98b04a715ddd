SPECIFICATION Spec
CONSTANTS
    Registers = {"register1", "register2"}
    Logins = {"login"}
    Refreshes = {"refresh"}
    Calls = {c1, c2, c3}
    Routes = {"CreateProduct", "DeleteProduct", "ListProducts", "GetProduct", "UpdateProduct", "CreatePromoCode", "CreateOrder"}
    NameOf <- MCNameOf
    RoleOf <- MCRoleOf
    Blank = ""
    AccessLife = 1
    RefreshLife = 2
    MaxTime = 2
    Codes = {"code"}
SYMMETRY CallSymmetry
INVARIANTS IInv OneAccount TokensTellRole RowsByRole ShownStays
PROPERTIES AdmittedSoonAfterLogin
CHECK_DEADLOCK FALSE
