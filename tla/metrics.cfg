SPECIFICATION Spec
CONSTANTS
    Requests = {"create", "cancel"}
    RouteOf <- MCRouteOf
    HandlerErrors <- MCHandlerErrors
    Keys = {"key1", "key2"}
    FirstKey = "key1"
    MaxAttempts = 2
    MaxArrivals = 3
    MaxRestarts = 1
INVARIANTS TypeOK HttpCounted 
PROPERTIES EveryRequestCounted
CHECK_DEADLOCK FALSE
