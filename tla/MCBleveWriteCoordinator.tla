----------------------- MODULE MCBleveWriteCoordinator -----------------------
(* A finite instance of BleveWriteCoordinator: two goroutines of tenant uA and *)
(* one of tenant uB, two slots, a small batch and one that never fits beside   *)
(* another.                                                                    *)
EXTENDS BleveWriteCoordinator

CONSTANTS a1, a2, b1, uA, uB

MCClients == {a1, a2, b1}
MCUsers == {uA, uB}
\* A large background batch and a small foreground one.
MCRequests == {[prio |-> 0, bytes |-> 3], [prio |-> 2, bytes |-> 1]}
MCUserOf == (a1 :> uA) @@ (a2 :> uA) @@ (b1 :> uB)
==============================================================================
