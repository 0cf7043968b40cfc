--------------------------- MODULE MCCodemagicBuild ---------------------------
(***************************************************************************)
(* Instance of CodemagicBuild; the bounds are in the configuration.        *)
(***************************************************************************)
EXTENDS CodemagicBuild
===============================================================================
