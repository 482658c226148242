-------------------------------- MODULE MCSocket --------------------------------
(* Values of the constants of SpongeSocket. *)
EXTENDS SpongeSocket

Scenario(owner, opens, peer, down, up) ==
  [owner |-> owner, opens |-> opens, peer |-> peer,
   sends |-> [d \in {"owner", "peer"} |-> IF d = "owner" THEN down ELSE up]]

AllScenarios ==
  {Scenario("copy", "connect", "prompt", 2, 1), Scenario("copy", "listen", "prompt", 0, 2),
   Scenario("copy", "connect", "resets", 1, 1), Scenario("copy", "connect", "absent", 1, 0),
   Scenario("get", "connect", "resets", 1, 3), Scenario("get", "listen", "prompt", 0, 3),
   Scenario("quit", "connect", "prompt", 1, 1), Scenario("quit", "connect", "absent", 1, 0)}
=============================================================================
