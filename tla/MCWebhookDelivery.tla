-------------------------- MODULE MCWebhookDelivery --------------------------
(* Small instances of webhook delivery for TLC.                            *)
EXTENDS WebhookDelivery, TLC

Replicas == Permutations(Workers) \cup Permutations(Events)
=============================================================================
