---------------------------- MODULE MCGdacsClient ----------------------------
(***************************************************************************)
(* Instances of GdacsClient.                                               *)
(***************************************************************************)
EXTENDS GdacsClient

CONSTANTS k1, feed, job
=============================================================================
