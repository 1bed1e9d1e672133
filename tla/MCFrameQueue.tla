---- MODULE MCFrameQueue ----
EXTENDS FrameQueue, TLC
Blocks == Permutations(Buf)
====
