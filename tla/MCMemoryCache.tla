---------------------------- MODULE MCMemoryCache ----------------------------
(***************************************************************************)
(* Instances of MemoryCache: two structs with data of 2 and 3 bytes,       *)
(* limits of a few bytes and items, and a 4-bit size_t.                    *)
(***************************************************************************)
EXTENDS MemoryCache

SizeOf == [p \in Paths |-> IF p = "t0" THEN 2 ELSE 3]
SizeLimits == [lo |-> 4, hi |-> 6]
ItemLimits == [lo |-> 2, hi |-> 3]
=============================================================================
