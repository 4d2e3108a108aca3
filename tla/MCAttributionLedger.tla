------------------------ MODULE MCAttributionLedger ------------------------
(* Instances of AttributionLedger for TLC. *)
EXTENDS AttributionLedger, TLC

CONSTANTS h1, h2, e1, e2, m1, m2, m3, m4, c1, c2

\* The UTM contract names the campaign of e1; e2 is known by mappings only.
ContractOfFirst == e1 :> {c1} @@ e2 :> {}

\* A mapping by account and one by ad id, of the other campaign: they overlap in e2.
\* The others are about other events: once both are registered the first two no longer
\* see each other.
TwoCampaigns == m1 :> c1 @@ m2 :> c2 @@ m3 :> c2 @@ m4 :> c2
BroadAndNarrow == m1 :> {e1, e2} @@ m2 :> {e2} @@ m3 :> {} @@ m4 :> {}

\* Handlers are alike, and so are the two mappings about other events.
HandlerSymmetry == Permutations(Handlers) \cup Permutations({m3, m4})
=============================================================================
