--------------------------- MODULE MCIngestRunner ---------------------------
(* One backend and one wake-up call after another, over two sources. *)
EXTENDS IngestRunner, TLC

CONSTANTS b1, n1, n2, u1, w1
=============================================================================
