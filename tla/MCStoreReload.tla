--------------------------- MODULE MCStoreReload ---------------------------
(* Callers of Reload for TLC.                                              *)
EXTENDS StoreReload
=============================================================================
