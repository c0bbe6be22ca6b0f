---------------------------- MODULE MCStorageSums ----------------------------
(* Three blocks in two files of one directory: entries with one and with several *)
(* blocks below them, alone in their sums file and next to another, three levels. *)
EXTENDS StorageSums, TLC

CONSTANTS b1, b2, b3

MCFileOf == (b1 :> <<0, 0, 0>>) @@ (b2 :> <<0, 0, 0>>) @@ (b3 :> <<0, 0, 1>>)
=============================================================================
