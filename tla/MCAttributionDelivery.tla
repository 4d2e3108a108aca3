------------------------ MODULE MCAttributionDelivery ------------------------
(* Instances of AttributionDelivery for TLC. *)
EXTENDS AttributionDelivery, TLC

HandlerSymmetry == Permutations(Handlers)
=============================================================================
