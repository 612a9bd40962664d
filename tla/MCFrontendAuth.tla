---------------------------- MODULE MCFrontendAuth ----------------------------
(***************************************************************************)
(* Instance of FrontendAuth for TLC: the constants of frontend.cfg.        *)
(***************************************************************************)
EXTENDS FrontendAuth

CONSTANTS routines, k1, k2, j1, j2
=============================================================================
