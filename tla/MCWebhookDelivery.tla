-------------------------- MODULE MCWebhookDelivery --------------------------
(* Instances of WebhookDelivery for TLC.                                    *)
EXTENDS WebhookDelivery

(* One subscription that gets both rows.                                    *)
TwoRows == 1..2
AllForOne2 == <<"s1", "s1">>
=============================================================================
