------------------------------ MODULE MCNetbird ------------------------------
(* An instance of Netbird for TLC: an entrypoint with two routes, and one   *)
(* with none.                                                               *)
EXTENDS Netbird

MCEntrypoints == <<"h1", "h2">>
MCRouteCount == [h \in {"h1", "h2"} |-> IF h = "h1" THEN 2 ELSE 0]
=============================================================================
