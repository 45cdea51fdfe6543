--------------------------- MODULE MCReviewQueue ---------------------------
(* ReviewQueue with one request; see the cfg files for the bounds.          *)
EXTENDS ReviewQueue
=============================================================================
