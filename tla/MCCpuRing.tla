----------------------------- MODULE MCCpuRing -----------------------------
(* Small rings over a small pool for TLC; buffers are interchangeable. *)
EXTENDS CpuRing, TLC

BufSymmetry == Permutations(Bufs)
=============================================================================
