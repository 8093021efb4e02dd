---------------------------- MODULE MCMemSystem ----------------------------
(* Values for the constants of MemSystem that a cfg cannot write.          *)
EXTENDS MemSystem

NoStores == {}
LastStores == {NumLse - 1}
FarBlocks == {1, 3}
ThreeBlocks == {0, 1, 2}
=============================================================================
