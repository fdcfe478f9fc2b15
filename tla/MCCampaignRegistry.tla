------------------------- MODULE MCCampaignRegistry -------------------------
(* Small instances of the campaign registry for TLC.                       *)
EXTENDS CampaignRegistry, TLC

Replicas == Permutations(Handlers)
=============================================================================
