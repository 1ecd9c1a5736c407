--------------------------- MODULE MCCacheDirectory ---------------------------
(***************************************************************************)
(* Two writers and a cleaner over one cache root, on two days.             *)
(***************************************************************************)
EXTENDS CacheDirectory

CONSTANTS w1, w2, c
=============================================================================
