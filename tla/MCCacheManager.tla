--------------------------- MODULE MCCacheManager ---------------------------
(* CacheManager for TLC: no operator tells one key from another.            *)
EXTENDS CacheManager

KeySymmetry == Permutations(Keys)
=============================================================================
