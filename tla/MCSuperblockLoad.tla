-------------------------- MODULE MCSuperblockLoad --------------------------
(* The four locations (scaled to TLC's integers, in the same order), a     *)
(* device that ends before the first, before the third or after the last   *)
(* of them, and an image per outcome, valid ones in two generations.       *)
EXTENDS SuperblockLoad, TLC

MCOffsets == <<64, 65536, 262144, 1048576>>

Good(g) == [magic |-> TRUE, csum_type |-> "crc32c", csum |-> TRUE,
            incompat_flags |-> {"tolerated"}, sectorsize |-> 4, nodesize |-> 16,
            generation |-> g]

MCCopyImages ==
  {Good(1), Good(2),
   [Good(2) EXCEPT !.magic = FALSE],
   [Good(2) EXCEPT !.csum_type = "xxhash"],
   [Good(2) EXCEPT !.csum_type = "unknown", !.csum = FALSE],
   [Good(2) EXCEPT !.csum = FALSE, !.incompat_flags = {"unassigned"}],
   [Good(1) EXCEPT !.incompat_flags = {"tolerated", "zoned"}],
   [Good(2) EXCEPT !.incompat_flags = {"unassigned", "zoned"}],
   [Good(2) EXCEPT !.incompat_flags = {"remap_tree"}],
   [Good(3) EXCEPT !.nodesize = 24],
   [Good(2) EXCEPT !.sectorsize = 128]}
=============================================================================
