---------------------------- MODULE MCSelection ----------------------------
(***************************************************************************)
(* Selection for TLC: three IPv4 backends and an IPv6 one.                 *)
(***************************************************************************)
EXTENDS Selection

CONSTANTS a1, a2, a3, b1, eu, us, none

ThreeBackends == <<a1, a2, b1>>

FourBackends == <<a1, b1, a2, a3>>

MCFamily == [b \in {a1, a2, a3, b1} |-> IF b = b1 THEN "AAAA" ELSE "A"]

FamilyOf3 == [b \in Range(ThreeBackends) |-> MCFamily[b]]

FamilyOf4 == [b \in Range(FourBackends) |-> MCFamily[b]]

Unlabelled == [country |-> none, city |-> none, asn |-> none, location |-> none]

\* Backends that carry something at one level or at two; a country, a city and
\* an ASN need no names of their own.
GeoLabels ==
    { [Unlabelled EXCEPT !.country = eu, !.location = eu],
      [Unlabelled EXCEPT !.city = eu, !.location = us],
      [Unlabelled EXCEPT !.asn = eu] }

Nowhere == [country |-> Unknown, city |-> Unknown, asn |-> Unknown,
            locations |-> {}, located |-> FALSE]

\* Clients that match at every level, one of them in two subnets.
GeoClients ==
    { [Nowhere EXCEPT !.country = eu, !.city = eu],
      [Nowhere EXCEPT !.city = eu, !.asn = eu],
      [Nowhere EXCEPT !.asn = eu, !.locations = {eu}],
      [Nowhere EXCEPT !.locations = {eu, us}] }

\* One client the city database knows, one it does not.
CityClients == {Nowhere, [Nowhere EXCEPT !.located = TRUE]}

\* Of the weights GetWeight takes one as it is not.
MCRanges ==
    [m \in Modes |->
        [enable |-> IF m \in {"random", "roundrobin", "unsupported"} THEN BOOLEAN ELSE {TRUE},
         priority |-> IF m \in {"failover", "fastest"} THEN {1, 2} ELSE {1},
         weight |-> IF m = "weighted" THEN {-1, 1, 2} ELSE {1},
         responseTime |-> IF m = "fastest" THEN {0, 1, 2} ELSE {1},
         distance |-> IF m = "nearest" THEN {1, 2, Infinity} ELSE {Infinity},
         label |-> IF m = "geoip" THEN GeoLabels ELSE {Unlabelled},
         client |-> CASE m = "geoip" -> GeoClients
                      [] m = "nearest" -> CityClients
                      [] OTHER -> {Nowhere}]]

\* The priority the code uses as a mark among the others.
SignedRanges == [m \in Modes |-> [MCRanges[m] EXCEPT !.priority = {-1, 1}]]
=============================================================================
