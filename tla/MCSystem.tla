-------------------------------- MODULE MCSystem --------------------------------
(* TCPSystem for the model checker. *)
EXTENDS TCPSystem

Isns == [e \in Endpoint |-> IF e = "client" THEN 14 ELSE 3]

OneWay == [e \in Endpoint |-> IF e = "client" THEN 2 ELSE 0]

BothWays == [e \in Endpoint |-> 1]

Silent == [e \in Endpoint |-> 0]

Scenario(writes, lost, duplicated, early) ==
  [writes |-> writes, lost |-> lost, duplicated |-> duplicated, early |-> early]

Streams == {Scenario(OneWay, 1, 0, 0), Scenario(OneWay, 0, 1, 0)}

Closing == {Scenario(Silent, 1, 1, 1), Scenario(BothWays, 0, 0, 0), Scenario(OneWay, 0, 0, 0)}

NoFault == {Scenario(OneWay, 0, 0, 0)}

OneLost == {Scenario(Silent, 1, 0, 0)}
=============================================================================
