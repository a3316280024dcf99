-------------------------- MODULE MCOrderWebhooks ---------------------------
(* Small instances of OrderWebhooks for TLC. *)
EXTENDS OrderWebhooks

(* After an overlap the properties claim nothing more. *)
Separate == ~overlapped
=============================================================================
