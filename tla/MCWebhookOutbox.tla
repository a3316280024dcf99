-------------------------- MODULE MCWebhookOutbox ---------------------------
(* Small instances of WebhookOutbox for TLC. *)
EXTENDS WebhookOutbox

RevokedAndSettled == {{"mandate.revoked", "payment.settled"}}
=============================================================================
