--------------------------- MODULE MCNetworkFilter ---------------------------
(* Constant values and symmetry for the runs of NetworkFilter. *)
EXTENDS NetworkFilter, TLC

CONSTANTS t1, t2, s1, s2, s3, near, far

OneThread    == {t1}
TwoThreads   == {t1, t2}
TwoSockets   == {s1, s2}
ThreeSockets == {s1, s2, s3}
NoSockets    == {}
OneAddress   == {near}
TwoAddresses == {near, far}

(* Two peers, told apart by their addresses; the second stands for "::0". *)
OwnAddress == [e \in Endpoints |-> e]

(* A max-speed rule may answer anything at any time, a new-connection rule   *)
(* only once the address has an entry: the first stands for both.            *)
OneCounter == <<"max-connections">>
CfgKinds   == <<"max-connections", "max-speed">>

AmountOne == [r \in Rules |-> 1]
MatchAll == [r \in Rules |-> Endpoints]
LastNotFar == [r \in Rules |-> IF r = NRules THEN Endpoints \ {far} ELSE Endpoints]

Zeroed   == {0}
AnyCount == {-1, 0, 1}
FloorZero == 0

RunSymmetry == Permutations(TwoThreads) \cup Permutations(TwoSockets)
=============================================================================
