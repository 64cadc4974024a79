--------------------------- MODULE MCCorrelatedOT ---------------------------
(***************************************************************************)
(* The abstract specification on its own, for every pair of secrets.       *)
(***************************************************************************)
EXTENDS ServerMTA

\* The protocol ends after K transfers.
Finished == Len(mcs) = K /\ UNCHANGED vars

MCSpec == Init /\ [][Next \/ Finished]_vars
=============================================================================
