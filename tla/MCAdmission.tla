----------------------------- MODULE MCAdmission -----------------------------
(***************************************************************************)
(* Admission on three operation IDs, a ledger with room for two, and one   *)
(* request of each kind.                                                   *)
(***************************************************************************)
EXTENDS Admission, TLC

CONSTANTS o1, o2, o3, start, send, reply

MCRequests == {start, send, reply}
MCKindOf == (start :> "start") @@ (send :> "call") @@ (reply :> "reply")

=============================================================================
