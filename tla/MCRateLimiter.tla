--------------------------- MODULE MCRateLimiter ---------------------------
(***************************************************************************)
(* RateLimiter for model checking; its constants get values in the .cfg.   *)
(***************************************************************************)
EXTENDS RateLimiter
=============================================================================
