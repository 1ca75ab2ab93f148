------------------------- MODULE MCWebhookDelivery -------------------------
(* Model-checking instance of WebhookDelivery. *)
EXTENDS WebhookDelivery

CONSTANTS e1, e2

ThreeEvents  == <<e1, e2, e1>>
MixedEvents  == <<e1, e2>>

\* No pass takes longer than STALE_CLAIM_MINUTES.
NoStaleClaim == \A d \in Deliveries : delivery[d].claim # "stale"
=============================================================================
