----------------------------- MODULE MCNetwork -----------------------------
(* Values for model checking Network.                                      *)
EXTENDS Network, TLC

CONSTANTS a1, a2, s1, s2

TwoAddresses == {a1, a2}
TwoServers   == {s1, s2}
OneEach      == (s1 :> {a1}) @@ (s2 :> {a2})

OneServer    == {s1}
JustA1       == s1 :> {a1}

AtOnce       == {0}
ReadWaits    == {-1, 0}
Two          == {2}

=============================================================================
