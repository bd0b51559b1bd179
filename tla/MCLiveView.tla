----------------------------- MODULE MCLiveView -----------------------------
(* Two attempts in all, of one run or of two. *)
EXTENDS LiveView

=============================================================================
