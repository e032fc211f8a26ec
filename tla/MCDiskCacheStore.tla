------------------------- MODULE MCDiskCacheStore -------------------------
(* Bounded instances of DiskCacheStore for TLC. *)
EXTENDS DiskCacheStore
=============================================================================
