----------------------------- MODULE MCStoreDesk -----------------------------
(***************************************************************************)
(* StoreDesk for TLC: two requests, one failure, one death.                *)
(***************************************************************************)
EXTENDS StoreDesk
=============================================================================
