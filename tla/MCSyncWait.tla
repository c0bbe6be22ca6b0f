------------------------------ MODULE MCSyncWait ------------------------------
(* A chain of three blocks, the last of which links to the first as well, and first. *)
EXTENDS SyncWait, TLC

CONSTANTS g, p, x

MCLinks == g :> <<>> @@ p :> <<g>> @@ x :> <<g, p>>

=============================================================================
