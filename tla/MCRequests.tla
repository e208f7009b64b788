----------------------------- MODULE MCRequests -----------------------------
(* Two workers behind channels of one place each.                            *)
EXTENDS Requests
=============================================================================
