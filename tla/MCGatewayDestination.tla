------------------------ MODULE MCGatewayDestination ------------------------
(* GatewayDestination with the bounds of the cfg files. *)
EXTENDS GatewayDestination

CONSTANTS a1, a2, inside, canary

\* canary.test has its own address inside the machine.
MCFixedAddress == [h \in {canary} |-> inside]

=============================================================================
