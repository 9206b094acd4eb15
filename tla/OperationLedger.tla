--------------------------- MODULE OperationLedger ---------------------------
(***************************************************************************)
(* What the control host promises to whoever submits an operation: the     *)
(* instruction behind an operation ID is performed at most once, whatever  *)
(* crashes, retries and failed saves happen, and a receipt never claims    *)
(* more than is known.  Admission implements this specification.           *)
(***************************************************************************)
EXTENDS Naturals

CONSTANTS
  OpIds,    \* operation IDs chosen by clients
  Requests, \* request fingerprints (request_key)
  Written,  \* the fingerprints whose Confirmed only means "written" (replies)
  None      \* no receipt under this ID

VARIABLES
  ledger,    \* OpIds -> the receipt shown for the ID, or None
  performed  \* OpIds -> how often the provider has performed it

vars == <<ledger, performed>>

Statuses == {"Sending", "Confirmed", "Rejected", "Uncertain"}
Receipt == [status: Statuses, key: Requests]

Init ==
  /\ ledger = [id \in OpIds |-> None]
  /\ performed = [id \in OpIds |-> 0]

(* A fresh ID is bound to one request.                                     *)
Accept(id, key) ==
  /\ ledger[id] = None
  /\ ledger' = [ledger EXCEPT ![id] = [status |-> "Sending", key |-> key]]
  /\ UNCHANGED performed

(* The provider performs an instruction whose receipt does not exclude it. *)
Perform(id) ==
  /\ ledger[id] # None
  /\ ledger[id].status # "Rejected"
  /\ performed[id] = 0
  /\ performed' = [performed EXCEPT ![id] = 1]
  /\ UNCHANGED ledger

(* A receipt settles once, and says only what is known: Confirmed has been *)
(* performed (a reply: written), Rejected has not been and never will be.  *)
Settle(id, status) ==
  /\ ledger[id] # None
  /\ ledger[id].status = "Sending"
  /\ status = "Confirmed" => performed[id] = 1 \/ ledger[id].key \in Written
  /\ status = "Rejected" => performed[id] = 0
  /\ ledger' = [ledger EXCEPT ![id].status = status]
  /\ UNCHANGED performed

(* A restart keeps a receipt, makes it Uncertain, or (only when nothing    *)
(* was performed) has never heard of the ID.                               *)
Restart ==
  /\ UNCHANGED performed
  /\ \E uncertain, forgotten \in SUBSET {id \in OpIds : ledger[id] # None} :
       /\ uncertain \cap forgotten = {}
       /\ \A id \in forgotten : performed[id] = 0
       /\ \A id \in OpIds \ (uncertain \cup forgotten) :
            ledger[id] # None => ledger[id].status # "Sending"
       /\ ledger' = [id \in OpIds |->
            IF id \in forgotten THEN None
            ELSE IF id \in uncertain THEN [ledger[id] EXCEPT !.status = "Uncertain"]
            ELSE ledger[id]]

Next ==
  \/ Restart
  \/ \E id \in OpIds :
       \/ \E key \in Requests : Accept(id, key)
       \/ Perform(id)
       \/ \E status \in Statuses \ {"Sending"} : Settle(id, status)

Spec == Init /\ [][Next]_vars

=============================================================================
