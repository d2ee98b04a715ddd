-------------------------- MODULE MCServiceMetrics ---------------------------
(* A request on each route, keys that agree or differ, and one restart.      *)
EXTENDS ServiceMetrics

MCHandlerErrors ==
    [m \in Methods |-> CASE m = "GetFlight" -> {"NotFound"}
                         [] m = "ReserveSeats" -> {"Internal"}
                         [] m = "ReleaseReservation" -> {"NotFound", "Internal"}]

MCRouteOf == [r \in Requests |-> r]
=============================================================================
