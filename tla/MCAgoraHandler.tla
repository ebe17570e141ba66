--------------------------- MODULE MCAgoraHandler ---------------------------
(***************************************************************************)
(* Small instances of AgoraHandler for TLC.  Clients and workers are model *)
(* values, interchangeable in the runs without liveness in which no client *)
(* is malformed.                                                           *)
(***************************************************************************)
EXTENDS AgoraHandler, TLC

Interchangeable == Permutations(Clients) \cup Permutations(Workers)
=============================================================================
