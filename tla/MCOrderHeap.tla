---------------------------- MODULE MCOrderHeap ----------------------------
(* A heap of four options: three levels, a last inner node with one child. *)
EXTENDS OrderHeap
=============================================================================
