---------------------------- MODULE MCStoreSlides ----------------------------
(***************************************************************************)
(* StoreSlides for TLC: two slides, two requests.                          *)
(***************************************************************************)
EXTENDS StoreSlides
=============================================================================
