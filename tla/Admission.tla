------------------------------ MODULE Admission ------------------------------
(***************************************************************************)
(* How the control host admits an instruction (theywork-control,           *)
(* supervisor.rs: Host::load, Host::handle and the order of calls in       *)
(* Host::execute).  One handler at a time holds `mutations`; the state     *)
(* mutex is released between its steps, so the provider-event thread saves *)
(* in between, and the process may die after any of them.                  *)
(*                                                                         *)
(* An operation ID goes: Admit (receipt Sending in memory) -> SaveIntent   *)
(* (durable intent) -> execute (possibly several commands) -> Settle.  The *)
(* conversation state that execute consults is module ProviderSession;     *)
(* here its checks are the choice to Refuse.                               *)
(***************************************************************************)
EXTENDS Naturals, FiniteSets

CONSTANTS
  OpIds,        \* operation IDs chosen by clients
  Requests,     \* request fingerprints: the serialized request, request_key
  KindOf,       \* Requests -> "start" | "call" | "reply"
  LedgerLimit,  \* 10_000 in the code
  None          \* no receipt under this ID

Kinds == {"start", "call", "reply"}
Statuses == {"Sending", "Confirmed", "Rejected", "Uncertain"}
Receipt == [status: Statuses, key: Requests, notSent: BOOLEAN]

ASSUME KindAssumption == KindOf \in [Requests -> Kinds]
ASSUME NoneAssumption ==
  None \notin Receipt /\ None \notin [status: Statuses, key: Requests]
ASSUME LimitAssumption == LedgerLimit \in Nat

VARIABLES
  host,        \* "up" | "down": the supervisor process
  operations,  \* OpIds -> receipt in memory (of the dead process while down)
  saved,       \* OpIds -> receipt in state.json
  canonical,   \* state.json is "valid", "corrupt" (a regular file that does
               \* not decode) or "lost" (absent, or not a private file)
  fault,       \* StorageStatus.fault is latched in this process
  events,      \* a provider was launched: its event thread saves state
  phase,       \* where the handler that holds `mutations` is
  current,     \* the operation ID it works on
  outcome,     \* what execute returned
  answer,      \* the provider's answer to the command being awaited
  inflight,    \* OpIds -> instructions written to a provider, not consumed
  performed    \* OpIds -> instructions a provider has performed

handlerVars == <<phase, current, outcome, answer>>
storageVars == <<saved, canonical, fault>>
providerVars == <<inflight, performed>>
vars == <<host, operations, events, handlerVars, storageVars, providerVars>>

Phases == {"idle", "intent", "unsaved", "execute", "prepare", "record",
           "mark", "instruct", "await", "settle"}
Outcomes == {"Confirmed", "Rejected", "Uncertain"}

TypeOK ==
  /\ host \in {"up", "down"}
  /\ operations \in [OpIds -> Receipt \cup {None}]
  /\ saved \in [OpIds -> Receipt \cup {None}]
  /\ canonical \in {"valid", "corrupt", "lost"}
  /\ fault \in BOOLEAN /\ events \in BOOLEAN
  /\ phase \in Phases
  /\ current \in OpIds \cup {None}
  /\ phase # "idle" => current \in OpIds /\ operations[current] # None
  /\ outcome \in Outcomes
  /\ answer \in {"none", "ok", "error"}
  /\ inflight \in [OpIds -> Nat]
  /\ performed \in [OpIds -> Nat]

Init ==
  /\ host = "down"
  /\ operations = [id \in OpIds |-> None]
  /\ saved = [id \in OpIds |-> None]
  /\ canonical = "valid" /\ fault = FALSE /\ events = FALSE
  /\ phase = "idle" /\ current = None
  /\ outcome = "Rejected" /\ answer = "none"
  /\ inflight = [id \in OpIds |-> 0]
  /\ performed = [id \in OpIds |-> 0]

-----------------------------------------------------------------------------
(* Storage, as the host sees it (module StateStorage has the steps).       *)

(* persist_state succeeds: no latched fault, and the file is in place.  A  *)
(* corrupt but regular file is simply replaced.                            *)
SaveSucceeds(ledger) ==
  /\ ~fault /\ canonical # "lost"
  /\ saved' = ledger /\ canonical' = "valid"
  /\ UNCHANGED fault

(* persist_state fails: a latched fault; a lost file (latched now); an I/O *)
(* error before the rename (latched if what is there does not decode) or   *)
(* after it.                                                               *)
SaveFails(ledger) ==
  \/ /\ fault \/ canonical = "lost"
     /\ fault' = TRUE
     /\ UNCHANGED <<saved, canonical>>
  \/ /\ ~fault /\ canonical # "lost"
     /\ fault' = (canonical = "corrupt")
     /\ UNCHANGED <<saved, canonical>>
  \/ /\ ~fault /\ canonical # "lost"
     /\ saved' = ledger /\ canonical' = "valid"
     /\ UNCHANGED fault

(* Somebody removes, replaces or damages state.json, or puts it back.      *)
Disrupt ==
  /\ canonical = "valid"
  /\ canonical' \in {"lost", "corrupt"}
  /\ UNCHANGED <<saved, fault>>

Restore ==
  /\ canonical # "valid"
  /\ canonical' = "valid"
  /\ UNCHANGED <<saved, fault>>

External ==
  /\ Disrupt \/ Restore
  /\ UNCHANGED <<host, operations, events, handlerVars, providerVars>>

-----------------------------------------------------------------------------
(* Process start and death.                                                *)

(* Wrong recoveries: forget an unacknowledged intent so that the client may *)
(* resubmit it; declare it rejected.                                       *)
RecoveredForgetting(ledger) ==
  [id \in OpIds |->
     IF ledger[id] # None /\ ledger[id].status = "Sending" THEN None ELSE ledger[id]]

(* Host::load: an unacknowledged intent becomes Uncertain, never resent.   *)
Recovered(ledger) ==
  [id \in OpIds |->
     IF ledger[id] # None /\ ledger[id].status = "Sending"
     THEN [ledger[id] EXCEPT !.status = "Uncertain"]
     ELSE ledger[id]]

Load ==
  /\ host = "down" /\ canonical = "valid"
  /\ host' = "up"
  /\ operations' = Recovered(saved)
  /\ saved' = Recovered(saved)
  /\ fault' = FALSE /\ events' = FALSE
  /\ phase' = "idle" /\ current' = None
  /\ UNCHANGED <<canonical, outcome, answer, providerVars>>

(* load's own save fails: the process exits without serving anyone.        *)
LoadFails ==
  /\ host = "down" /\ canonical = "valid"
  /\ saved' = Recovered(saved)
  /\ UNCHANGED <<host, operations, events, canonical, fault, handlerVars,
                 providerVars>>

(* The process dies anywhere.  What it wrote to the provider stays written.*)
Crash ==
  /\ host = "up"
  /\ host' = "down"
  /\ events' = FALSE
  /\ phase' = "idle" /\ current' = None /\ answer' = "none"
  /\ UNCHANGED <<operations, outcome, storageVars, providerVars>>

(* The event thread's batched save of whatever memory holds.               *)
EventSave ==
  /\ host = "up" /\ events
  /\ SaveSucceeds(operations) \/ SaveFails(operations)
  /\ UNCHANGED <<host, operations, events, handlerVars, providerVars>>

-----------------------------------------------------------------------------
(* Host::handle.                                                           *)

Used == {id \in OpIds : operations[id] # None}

(* A known ID only returns its receipt (or an error when the request       *)
(* differs): no step.  A new one is entered as Sending, in memory.         *)
Admit(id, key) ==
  /\ host = "up" /\ phase = "idle"
  /\ operations[id] = None
  /\ Cardinality(Used) < LedgerLimit
  /\ operations' = [operations EXCEPT ![id] =
       [status |-> "Sending", key |-> key, notSent |-> FALSE]]
  /\ phase' = "intent" /\ current' = id
  /\ UNCHANGED <<host, events, outcome, answer, storageVars, providerVars>>

(* Wrong: a failed intent save is reported but does not stop the handler.  *)
SaveIntentIgnoringFailure ==
  /\ host = "up" /\ phase = "intent"
  /\ SaveSucceeds(operations) \/ SaveFails(operations)
  /\ phase' = "execute"
  /\ UNCHANGED <<host, operations, events, current, outcome, answer,
                 providerVars>>

SaveIntent ==
  /\ host = "up" /\ phase = "intent"
  /\ \/ SaveSucceeds(operations) /\ phase' = "execute"
     \/ SaveFails(operations) /\ phase' = "unsaved"
  /\ UNCHANGED <<host, operations, events, current, outcome, answer,
                 providerVars>>

(* Wrong: return the error and leave the receipt as it was entered.        *)
RejectUnsavedSilently ==
  /\ host = "up" /\ phase = "unsaved"
  /\ phase' = "idle" /\ current' = None
  /\ UNCHANGED <<host, operations, events, outcome, answer, storageVars,
                 providerVars>>

(* The intent could not be saved: reject, and try to save the rejection.   *)
RejectUnsaved ==
  LET refused == [operations EXCEPT ![current] =
                    [@ EXCEPT !.status = "Rejected", !.notSent = TRUE]]
  IN
  /\ host = "up" /\ phase = "unsaved"
  /\ operations' = refused
  /\ SaveSucceeds(refused) \/ SaveFails(refused)
  /\ phase' = "idle" /\ current' = None
  /\ UNCHANGED <<host, events, outcome, answer, providerVars>>

Finish(result) == phase' = "settle" /\ outcome' = result

(* Settle the receipt and save it; a failed save leaves it in memory.      *)
Settle ==
  LET settled == [operations EXCEPT ![current] = [@ EXCEPT !.status = outcome]]
  IN
  /\ host = "up" /\ phase = "settle"
  /\ operations' = settled
  /\ SaveSucceeds(settled) \/ SaveFails(settled)
  /\ phase' = "idle" /\ current' = None
  /\ UNCHANGED <<host, events, outcome, answer, providerVars>>

-----------------------------------------------------------------------------
(* Host::execute, as the order of its checks, saves and commands.          *)

CurrentKind == KindOf[operations[current].key]

(* A check on the prompt, the conversation or the request fails.           *)
Refuse ==
  /\ host = "up" /\ phase = "execute"
  /\ Finish("Rejected")
  /\ UNCHANGED <<host, operations, events, current, answer, storageVars,
                 providerVars>>

(* Reply marks the request before provider(); others call provider() next. *)
Mark ==
  /\ host = "up" /\ phase = "execute" /\ CurrentKind = "reply"
  /\ phase' = "mark"
  /\ UNCHANGED <<host, operations, events, current, outcome, answer,
                 storageVars, providerVars>>

SaveMark ==
  /\ host = "up" /\ phase = "mark"
  /\ \/ SaveSucceeds(operations) /\ phase' = "instruct" /\ UNCHANGED outcome
     \/ SaveFails(operations) /\ Finish("Rejected")
  /\ UNCHANGED <<host, operations, events, current, answer, providerVars>>

(* provider() is about to be asked for the transport.                      *)
AtProvider ==
  /\ host = "up"
  /\ \/ phase = "execute" /\ CurrentKind # "reply"
     \/ phase = "instruct" /\ CurrentKind = "reply"

(* check_health finds the file unusable (and latches that), or the launch  *)
(* or the handshake fails: nothing was sent.                               *)
ProviderFails ==
  /\ AtProvider
  /\ Finish("Rejected")
  /\ fault' = (fault \/ canonical # "valid")
  /\ UNCHANGED <<host, operations, events, current, answer, saved, canonical,
                 providerVars>>

(* Start creates the conversation first: thread/start.                     *)
CallThreadStart ==
  /\ AtProvider /\ CurrentKind = "start"
  /\ ~fault /\ canonical = "valid"
  /\ events' = TRUE
  /\ phase' = "prepare"
  /\ UNCHANGED <<host, operations, current, outcome, answer, storageVars,
                 providerVars>>

ThreadStartAnswered ==
  /\ host = "up" /\ phase = "prepare"
  /\ \/ phase' = "record" /\ UNCHANGED outcome
     \/ Finish("Rejected")
     \/ Finish("Uncertain")
  /\ UNCHANGED <<host, operations, events, current, answer, storageVars,
                 providerVars>>

(* The new conversation is recorded before its first turn is sent.         *)
SaveThread ==
  /\ host = "up" /\ phase = "record"
  /\ \/ SaveSucceeds(operations) /\ phase' = "instruct" /\ UNCHANGED outcome
     \/ SaveFails(operations) /\ Finish("Uncertain")
  /\ UNCHANGED <<host, operations, events, current, answer, providerVars>>

(* The instruction itself: turn/start, turn/steer, turn/interrupt,         *)
(* thread/resume or the reply.  Only the last waits for no answer.         *)
Instruct ==
  /\ \/ AtProvider /\ CurrentKind # "start" /\ ~fault /\ canonical = "valid"
     \/ host = "up" /\ phase = "instruct" /\ CurrentKind = "start"
  /\ events' = TRUE
  /\ inflight' = [inflight EXCEPT ![current] = @ + 1]
  /\ answer' = "none"
  /\ IF CurrentKind = "reply"
     THEN Finish("Confirmed")
     ELSE phase' = "await" /\ UNCHANGED outcome
  /\ UNCHANGED <<host, operations, current, storageVars, performed>>

(* The write fails, perhaps after everything reached the pipe.             *)
InstructFails ==
  /\ \/ AtProvider /\ CurrentKind # "start" /\ ~fault /\ canonical = "valid"
     \/ host = "up" /\ phase = "instruct" /\ CurrentKind = "start"
  /\ events' = TRUE
  /\ inflight' \in {inflight, [inflight EXCEPT ![current] = @ + 1]}
  /\ Finish("Uncertain")
  /\ UNCHANGED <<host, operations, current, answer, storageVars, performed>>

Answered ==
  /\ host = "up" /\ phase = "await"
  /\ \/ answer = "ok" /\ Finish("Confirmed")
     \/ answer = "error" /\ Finish("Rejected")
  /\ UNCHANGED <<host, operations, events, current, answer, storageVars,
                 providerVars>>

(* Wrong: take a timeout for a refusal; send the instruction again.        *)
UnansweredRejected ==
  /\ host = "up" /\ phase = "await"
  /\ Finish("Rejected")
  /\ UNCHANGED <<host, operations, events, current, answer, storageVars,
                 providerVars>>

UnansweredRetried ==
  /\ host = "up" /\ phase = "await"
  /\ phase' = IF CurrentKind = "start" THEN "instruct" ELSE "execute"
  /\ UNCHANGED <<host, operations, events, current, outcome, answer,
                 storageVars, providerVars>>

(* The wait ends without a usable answer: timeout, a closed connection, an *)
(* answer without an ID or with another one.                               *)
Unanswered ==
  /\ host = "up" /\ phase = "await"
  /\ Finish("Uncertain")
  /\ UNCHANGED <<host, operations, events, current, answer, storageVars,
                 providerVars>>

-----------------------------------------------------------------------------
(* The provider: it consumes what was written to it, performs it or        *)
(* answers with an error, at any later time, even after the host died.     *)

Awaiting(id) == phase = "await" /\ current = id

Perform(id) ==
  /\ inflight[id] > 0
  /\ inflight' = [inflight EXCEPT ![id] = @ - 1]
  /\ performed' = [performed EXCEPT ![id] = @ + 1]
  /\ answer' = IF Awaiting(id) THEN "ok" ELSE answer
  /\ UNCHANGED <<host, operations, events, phase, current, outcome,
                 storageVars>>

AnswerError(id) ==
  /\ inflight[id] > 0
  /\ inflight' = [inflight EXCEPT ![id] = @ - 1]
  /\ answer' = IF Awaiting(id) THEN "error" ELSE answer
  /\ UNCHANGED <<host, operations, events, phase, current, outcome,
                 storageVars, performed>>

-----------------------------------------------------------------------------
Handler ==
  \/ SaveIntent \/ RejectUnsaved \/ Settle
  \/ Refuse \/ Mark \/ SaveMark \/ ProviderFails
  \/ CallThreadStart \/ ThreadStartAnswered \/ SaveThread
  \/ Instruct \/ InstructFails \/ Answered \/ Unanswered

Provider == \E id \in OpIds : Perform(id) \/ AnswerError(id)

Next ==
  \/ \E id \in OpIds, key \in Requests : Admit(id, key)
  \/ Handler
  \/ Provider
  \/ EventSave
  \/ Load \/ LoadFails \/ Crash
  \/ External

Spec == Init /\ [][Next]_vars

(* Every wait of the handler ends: recv_timeout bounds the answers, file   *)
(* and pipe writes return.  Nobody is obliged to submit or to restart.     *)
FairSpec == Spec /\ WF_vars(Handler)

-----------------------------------------------------------------------------
(* Properties.                                                             *)

(* An instruction is performed at most once under its ID, counting those   *)
(* still in a pipe, across crashes, resubmissions and failed saves.        *)
AtMostOnce == \A id \in OpIds : inflight[id] + performed[id] <= 1

(* Whatever may reach the provider is on record first: state.json holds a  *)
(* receipt for it, bound to the request that was executed.                 *)
DurableIntent ==
  \A id \in OpIds : inflight[id] + performed[id] > 0 =>
    /\ saved[id] # None
    /\ operations[id] # None
    /\ saved[id].key = operations[id].key
    /\ ~saved[id].notSent

(* A receipt (in memory or recovered from disk) never lies: Rejected means *)
(* nothing was or will be performed; Confirmed means performed, or for a   *)
(* reply, written.                                                         *)
Truthful(receipt, id) ==
  /\ receipt.status = "Rejected" => inflight[id] = 0 /\ performed[id] = 0
  /\ receipt.status = "Confirmed" =>
       IF KindOf[receipt.key] = "reply" THEN TRUE ELSE performed[id] = 1

ReceiptsTruthful ==
  \A id \in OpIds :
    /\ operations[id] # None => Truthful(operations[id], id)
    /\ saved[id] # None => Truthful(saved[id], id)

(* A running host never changes a settled receipt or what an ID stands     *)
(* for, and a restart may only make it Uncertain, or lose an ID that was   *)
(* never sent.                                                             *)
ReceiptStable(id) ==
  operations[id] # None =>
    \/ /\ operations'[id] # None
       /\ operations'[id].key = operations[id].key
       /\ \/ operations'[id] = operations[id]
          \/ operations[id].status = "Sending"
          \/ operations'[id].status = "Uncertain" /\ host = "down"
    \/ /\ host = "down" /\ operations'[id] = None
       /\ inflight[id] = 0 /\ performed[id] = 0

ReceiptsOnlySettle == [][\A id \in OpIds : ReceiptStable(id)]_vars

(* Every admitted operation settles, or the host dies.                     *)
Unsettled(id) ==
  host = "up" /\ operations[id] # None /\ operations[id].status = "Sending"

EveryOperationSettles == \A id \in OpIds : Unsettled(id) ~> ~Unsettled(id)

(* The host implements the promise of OperationLedger.                     *)
Shown(receipt) ==
  IF receipt = None THEN None
  ELSE [status |-> receipt.status, key |-> receipt.key]

Promise == INSTANCE OperationLedger WITH
  ledger <- [id \in OpIds |-> Shown(operations[id])],
  Written <- {key \in Requests : KindOf[key] = "reply"}

ImplementsPromise == Promise!Spec

=============================================================================
