----------------------------- MODULE MCSesDrain -----------------------------
(* SesDrain on two bounces of two addresses and one event of another kind.   *)
EXTENDS SesDrain

CONSTANTS e1, e2, e3, a1, a2, SecondAddress, ThirdEvent

MCEvents == {e1, e2, e3}
MCAddresses == {a1, a2}
MCEventKind == [e \in MCEvents |-> IF e = e3 THEN ThirdEvent ELSE "bounce"]
MCAddressOf == [e \in MCEvents |-> IF e = e2 THEN SecondAddress ELSE a1]
=============================================================================
