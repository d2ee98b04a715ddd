---------------------------- MODULE MCFlightCache ----------------------------
(* A small instance of FlightCache: a TTL and a request timeout of one tick  *)
(* each, and a clock that runs past both.                                    *)
EXTENDS FlightCache, TLC

CONSTANTS g1, g2, s1, s2, m1

ReadSymmetry == Permutations({g1, g2}) \cup Permutations({s1, s2})
============================================================================
