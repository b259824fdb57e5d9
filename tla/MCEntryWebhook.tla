--------------------------- MODULE MCEntryWebhook ---------------------------
(* Small instances of EntryWebhook for TLC. *)
EXTENDS EntryWebhook
=============================================================================
