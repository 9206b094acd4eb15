--------------------------- MODULE AdmissionProofs ---------------------------
(***************************************************************************)
(* Proofs about Admission, for every set of operation IDs and requests.    *)
(*                                                                         *)
(* AtMostOnce is not inductive: it holds because an instruction is written *)
(* only for the handler's current ID, whose receipt is still Sending, both *)
(* in memory and in state.json, and because no ID with a receipt on disk   *)
(* is ever admitted again.  IInv says that, per operation ID.              *)
(***************************************************************************)
EXTENDS Admission, TLAPS

Unsent(id) == inflight[id] = 0 /\ performed[id] = 0

(* What no crash may break: memory knows whatever disk knows, and neither  *)
(* lies.                                                                   *)
ReceiptInv(id) ==
  /\ inflight[id] + performed[id] <= 1
  /\ ~Unsent(id) => saved[id] # None
  /\ saved[id] # None =>
       /\ operations[id] # None
       /\ saved[id].key = operations[id].key
       /\ saved[id] = operations[id] \/ saved[id].status \in {"Sending", "Uncertain"}
       /\ saved[id].notSent => saved[id].status = "Rejected"
       /\ Truthful(saved[id], id)
  /\ operations[id] # None =>
       /\ operations[id].notSent => operations[id].status = "Rejected"
       /\ Truthful(operations[id], id)

(* The phases before the instruction is written.                           *)
Before == {"intent", "unsaved", "execute", "prepare", "record", "mark", "instruct"}

(* What the handler that holds `mutations` relies on.                      *)
HandlerInv ==
  phase # "idle" =>
    /\ host = "up"
    /\ operations[current].status = "Sending"
    /\ saved[current] \in {None, operations[current]}
    /\ phase \in Before => Unsent(current)
    /\ phase \notin {"intent", "unsaved"} => saved[current] # None
    /\ phase = "await" => CurrentKind # "reply"
    /\ phase = "await" /\ answer = "none" => performed[current] = 0
    /\ phase = "await" /\ answer = "ok" => performed[current] = 1
    /\ phase = "await" /\ answer = "error" => Unsent(current)
    /\ phase = "settle" =>
         Truthful([operations[current] EXCEPT !.status = outcome], current)

IInv ==
  /\ \A id \in OpIds : ReceiptInv(id)
  /\ HandlerInv

-----------------------------------------------------------------------------
(* What a save may do to state.json: nothing, or replace it whole.         *)
LEMMA SaveEffect ==
  ASSUME NEW ledger, TypeOK, SaveSucceeds(ledger) \/ SaveFails(ledger)
  PROVE  /\ saved' = saved \/ saved' = ledger
         /\ canonical' \in {"valid", "corrupt", "lost"}
         /\ fault' \in BOOLEAN
  BY DEF SaveSucceeds, SaveFails, TypeOK

LEMMA SaveDone ==
  ASSUME NEW ledger, SaveSucceeds(ledger)
  PROVE  saved' = ledger
  BY DEF SaveSucceeds

(* Recovery keeps the keys and invents no receipt.                         *)
LEMMA RecoveredType ==
  ASSUME TypeOK
  PROVE  /\ Recovered(saved) \in [OpIds -> Receipt \cup {None}]
         /\ \A id \in OpIds :
              /\ Recovered(saved)[id] = None <=> saved[id] = None
              /\ saved[id] # None =>
                   /\ Recovered(saved)[id].key = saved[id].key
                   /\ Recovered(saved)[id].notSent = saved[id].notSent
                   /\ Recovered(saved)[id].status =
                        IF saved[id].status = "Sending" THEN "Uncertain"
                        ELSE saved[id].status
                   /\ saved[id].status # "Sending" => Recovered(saved)[id] = saved[id]
  BY NoneAssumption DEF Recovered, TypeOK, Receipt, Statuses

THEOREM TypeCorrect == Spec => []TypeOK
<1>1. Init => TypeOK
  <2> SUFFICES ASSUME Init PROVE TypeOK
    OBVIOUS
  <2>1. canonical \in {"valid", "corrupt", "lost"}
        /\ fault \in BOOLEAN /\ events \in BOOLEAN
    BY Zenon DEF Init
  <2> QED
    BY <2>1 DEF Init, TypeOK, Phases, Outcomes
<1>2. TypeOK /\ [Next]_vars => TypeOK'
  <2> SUFFICES ASSUME TypeOK, [Next]_vars PROVE TypeOK'
    OBVIOUS
  <2> USE DEF TypeOK, Phases, Outcomes, Finish
  <2>1. ASSUME NEW id \in OpIds, NEW key \in Requests, Admit(id, key)
        PROVE  TypeOK'
    <3> DEFINE entered == [status |-> "Sending", key |-> key, notSent |-> FALSE]
    <3>1. entered \in Receipt
      BY Zenon DEF Receipt, Statuses
    <3>2. entered # None
      BY <3>1, NoneAssumption
    <3>3. /\ operations' = [operations EXCEPT ![id] = entered]
          /\ phase' = "intent" /\ current' = id
          /\ UNCHANGED <<host, saved, canonical, fault, events, outcome, answer,
                         inflight, performed>>
      BY <2>1 DEF Admit, storageVars, providerVars
    <3> HIDE DEF entered
    <3> QED
      BY <3>1, <3>2, <3>3
  <2>2. CASE SaveIntent
    BY <2>2, SaveEffect DEF SaveIntent, providerVars
  <2>3. CASE RejectUnsaved
    <3> DEFINE refused == [operations EXCEPT ![current] =
                             [@ EXCEPT !.status = "Rejected", !.notSent = TRUE]]
    <3>1. refused \in [OpIds -> Receipt \cup {None}]
      BY <2>3, NoneAssumption DEF RejectUnsaved, Receipt, Statuses
    <3>2. operations' = refused /\ (SaveSucceeds(refused) \/ SaveFails(refused))
      BY <2>3 DEF RejectUnsaved
    <3> HIDE DEF refused
    <3>3. saved' \in [OpIds -> Receipt \cup {None}]
          /\ canonical' \in {"valid", "corrupt", "lost"}
          /\ fault' \in BOOLEAN
      BY <3>1, <3>2, SaveEffect
    <3> QED
      BY <2>3, <3>1, <3>2, <3>3 DEF RejectUnsaved, providerVars
  <2>4. CASE Settle
    <3> DEFINE settled == [operations EXCEPT ![current] = [@ EXCEPT !.status = outcome]]
    <3>1. settled \in [OpIds -> Receipt \cup {None}]
      BY <2>4, NoneAssumption DEF Settle, Receipt, Statuses
    <3>2. operations' = settled /\ (SaveSucceeds(settled) \/ SaveFails(settled))
      BY <2>4 DEF Settle
    <3> HIDE DEF settled
    <3>3. saved' \in [OpIds -> Receipt \cup {None}]
          /\ canonical' \in {"valid", "corrupt", "lost"}
          /\ fault' \in BOOLEAN
      BY <3>1, <3>2, SaveEffect
    <3> QED
      BY <2>4, <3>1, <3>2, <3>3 DEF Settle, providerVars
  <2>5. CASE Refuse \/ Mark \/ ThreadStartAnswered \/ Answered \/ Unanswered
    BY <2>5 DEF Refuse, Mark, ThreadStartAnswered, Answered, Unanswered,
                storageVars, providerVars
  <2>6. CASE SaveMark \/ SaveThread
    BY <2>6, SaveEffect DEF SaveMark, SaveThread, providerVars
  <2>7. CASE ProviderFails
    BY <2>7 DEF ProviderFails, AtProvider, providerVars
  <2>8. CASE CallThreadStart
    BY <2>8 DEF CallThreadStart, AtProvider, storageVars, providerVars
  <2>9. CASE Instruct
    BY <2>9 DEF Instruct, AtProvider, storageVars
  <2>10. CASE InstructFails
    BY <2>10 DEF InstructFails, AtProvider, storageVars
  <2>11. ASSUME NEW id \in OpIds, Perform(id) \/ AnswerError(id)
         PROVE  TypeOK'
    BY <2>11 DEF Perform, AnswerError, storageVars
  <2>12. CASE EventSave
    BY <2>12, SaveEffect DEF EventSave, handlerVars, providerVars
  <2>13. CASE Load \/ LoadFails
    BY <2>13, RecoveredType DEF Load, LoadFails, handlerVars, providerVars
  <2>14. CASE Crash \/ External
    BY <2>14 DEF Crash, External, Disrupt, Restore, handlerVars, storageVars,
                 providerVars
  <2>15. CASE UNCHANGED vars
    BY <2>15 DEF vars, handlerVars, storageVars, providerVars
  <2> QED
    BY <2>1, <2>2, <2>3, <2>4, <2>5, <2>6, <2>7, <2>8, <2>9, <2>10, <2>11,
       <2>12, <2>13, <2>14, <2>15 DEF Next, Handler, Provider
<1> QED
  BY <1>1, <1>2, PTL DEF Spec

-----------------------------------------------------------------------------
LEMMA IInvInit == Init => IInv
  BY DEF Init, IInv, ReceiptInv, HandlerInv, Unsent

(* A save of the current memory disturbs nothing.                          *)
LEMMA SaveKeepsInv ==
  ASSUME TypeOK, IInv, saved' = saved \/ saved' = operations,
         UNCHANGED <<host, operations, handlerVars, providerVars>>
  PROVE  IInv'
<1> USE DEF handlerVars, providerVars, Unsent, Truthful, CurrentKind
<1>1. \A id \in OpIds : ReceiptInv(id)'
  BY DEF IInv, ReceiptInv
<1>2. HandlerInv'
  BY DEF IInv, HandlerInv, TypeOK
<1> QED
  BY <1>1, <1>2 DEF IInv

(* Ending execute with a result the provider's state supports.             *)
LEMMA FinishInv ==
  ASSUME TypeOK, IInv, NEW result \in Outcomes, phase \notin {"idle", "intent", "unsaved"},
         Finish(result),
         Truthful([operations[current] EXCEPT !.status = result], current),
         saved' = saved \/ saved' = operations,
         UNCHANGED <<host, operations, current, providerVars>>
  PROVE  IInv'
<1> USE DEF providerVars, Finish
<1>1. \A id \in OpIds : ReceiptInv(id)'
  BY DEF IInv, ReceiptInv, Unsent, Truthful
<1>2. HandlerInv'
  <2>1. Truthful([operations[current] EXCEPT !.status = outcome], current)'
    BY DEF Truthful
  <2>2. saved[current]' \in {None, operations[current]} /\ saved[current]' # None
    BY DEF IInv, HandlerInv, TypeOK
  <2> QED
    BY <2>1, <2>2 DEF IInv, HandlerInv, Before
<1> QED
  BY <1>1, <1>2 DEF IInv

(* Going on after a save: the receipt is now on disk, nothing else moved.  *)
LEMMA ContinueInv ==
  ASSUME TypeOK, IInv, phase \in {"mark", "record"}, phase' = "instruct",
         saved' = operations,
         UNCHANGED <<host, operations, current, providerVars>>
  PROVE  IInv'
<1> USE DEF providerVars, Unsent
<1>1. \A id \in OpIds : ReceiptInv(id)'
  BY DEF IInv, ReceiptInv, Truthful
<1>2. HandlerInv'
  BY DEF IInv, HandlerInv, TypeOK, Before
<1> QED
  BY <1>1, <1>2 DEF IInv

(* A changed receipt of the current operation, saved or not.               *)
LEMMA NewReceiptInv ==
  ASSUME TypeOK, IInv, phase # "idle", NEW receipt \in Receipt,
         receipt.key = operations[current].key,
         receipt.notSent => receipt.status = "Rejected",
         Truthful(receipt, current),
         operations' = [operations EXCEPT ![current] = receipt],
         saved' = saved \/ saved' = operations',
         phase' = "idle",
         UNCHANGED providerVars
  PROVE  IInv'
<1> USE DEF providerVars, Unsent, Truthful
<1>1. current \in OpIds /\ receipt # None
  BY NoneAssumption DEF TypeOK
<1>2. ASSUME NEW i \in OpIds, i # current PROVE ReceiptInv(i)'
  BY <1>1, <1>2 DEF IInv, ReceiptInv, TypeOK
<1>3. ASSUME NEW i \in OpIds, i = current PROVE ReceiptInv(i)'
  <2>1. operations'[i] = receipt /\ saved'[i] \in {saved[i], receipt}
    BY <1>3 DEF TypeOK
  <2>2. ReceiptInv(i)
    BY DEF IInv
  <2>3. /\ operations[i] # None /\ receipt.key = operations[i].key
        /\ saved[i] # None => saved[i].status = "Sending"
    BY <1>3 DEF TypeOK, IInv, HandlerInv
  <2> QED
    BY <1>1, <1>3, <2>1, <2>2, <2>3 DEF ReceiptInv
<1>4. HandlerInv'
  BY DEF HandlerInv
<1> QED
  BY <1>2, <1>3, <1>4 DEF IInv

(* Writing the instruction: in flight once, awaited or already settled.    *)
LEMMA WriteInv ==
  ASSUME TypeOK, IInv, phase \in {"execute", "instruct"},
         inflight' = [inflight EXCEPT ![current] = @ + 1],
         UNCHANGED <<host, operations, current, storageVars, performed>>,
         \/ phase' = "await" /\ answer' = "none" /\ CurrentKind # "reply"
         \/ phase' = "settle" /\ outcome' = "Uncertain"
         \/ phase' = "settle" /\ outcome' = "Confirmed" /\ CurrentKind = "reply"
  PROVE  IInv'
<1> USE DEF storageVars, Unsent
<1>1. /\ current \in OpIds /\ Unsent(current) /\ inflight'[current] = 1
      /\ operations[current] # None /\ operations[current].status = "Sending"
      /\ saved[current] = operations[current] /\ saved[current] # None
  BY DEF TypeOK, IInv, HandlerInv, Before
<1>2. ASSUME NEW i \in OpIds, i # current PROVE ReceiptInv(i)'
  BY <1>1, <1>2 DEF IInv, ReceiptInv, Truthful, TypeOK
<1>3. ASSUME NEW i \in OpIds, i = current PROVE ReceiptInv(i)'
  <2>1. ReceiptInv(i)
    BY DEF IInv
  <2> QED
    BY <1>1, <1>3, <2>1 DEF ReceiptInv, Truthful
<1>4. CASE phase' = "await"
  <2>1. HandlerInv'
    BY <1>1, <1>4 DEF IInv, HandlerInv, Before, CurrentKind
  <2> QED
    BY <1>2, <1>3, <2>1 DEF IInv
<1>5. CASE phase' = "settle"
  <2>1. /\ [operations[current] EXCEPT !.status = outcome'].status = outcome'
        /\ [operations[current] EXCEPT !.status = outcome'].key = operations[current].key
    BY <1>1 DEF TypeOK, Receipt
  <2>2. Truthful([operations[current] EXCEPT !.status = outcome], current)'
    BY <1>5, <2>1 DEF Truthful, CurrentKind
  <2>3. HandlerInv'
    BY <1>1, <1>5, <2>2 DEF IInv, HandlerInv, Before
  <2> QED
    BY <1>2, <1>3, <2>3 DEF IInv
<1> QED
  BY <1>4, <1>5

LEMMA IInvStep == TypeOK /\ IInv /\ [Next]_vars => IInv'
<1> SUFFICES ASSUME TypeOK, IInv, [Next]_vars PROVE IInv'
  OBVIOUS
<1> USE DEF Before, Unsent, Truthful, CurrentKind
<1>1. ASSUME NEW id \in OpIds, NEW key \in Requests, Admit(id, key)
      PROVE  IInv'
  <2>1. \A i \in OpIds : ReceiptInv(i)'
    BY <1>1, NoneAssumption DEF Admit, IInv, ReceiptInv, storageVars, providerVars, TypeOK
  <2>2. HandlerInv'
    BY <1>1, NoneAssumption DEF Admit, IInv, ReceiptInv, HandlerInv, storageVars,
       providerVars, TypeOK
  <2> QED
    BY <2>1, <2>2 DEF IInv
<1>2. CASE SaveIntent
  <2>1. saved' = saved \/ saved' = operations
    BY <1>2, SaveEffect DEF SaveIntent
  <2>2. phase' = "execute" => saved' = operations
    BY <1>2, SaveDone DEF SaveIntent
  <2>3. \A i \in OpIds : ReceiptInv(i)'
    BY <1>2, <2>1 DEF SaveIntent, IInv, ReceiptInv, providerVars, TypeOK
  <2>4. HandlerInv'
    BY <1>2, <2>1, <2>2 DEF SaveIntent, IInv, HandlerInv, providerVars, TypeOK
  <2> QED
    BY <2>3, <2>4 DEF IInv
<1>3. CASE RejectUnsaved
  <2> DEFINE receipt == [operations[current] EXCEPT !.status = "Rejected", !.notSent = TRUE]
             refused == [operations EXCEPT ![current] = receipt]
  <2>1. current \in OpIds /\ operations[current] \in Receipt /\ Unsent(current)
    BY <1>3 DEF RejectUnsaved, TypeOK, IInv, HandlerInv
  <2>2. operations' = refused /\ (SaveSucceeds(refused) \/ SaveFails(refused))
    BY <1>3, <2>1 DEF RejectUnsaved
  <2>3. saved' = saved \/ saved' = operations'
    BY <2>2, SaveEffect
  <2>4. /\ receipt \in Receipt
        /\ receipt.key = operations[current].key /\ receipt.status = "Rejected"
    BY <2>1 DEF Receipt, Statuses
  <2>5. Truthful(receipt, current)
    BY <2>1, <2>4
  <2> QED
    BY <1>3, <2>2, <2>3, <2>4, <2>5, NewReceiptInv DEF RejectUnsaved
<1>4. CASE Settle
  <2> DEFINE receipt == [operations[current] EXCEPT !.status = outcome]
             settled == [operations EXCEPT ![current] = receipt]
  <2>1. /\ current \in OpIds /\ operations[current] \in Receipt
        /\ operations[current].status = "Sending"
        /\ operations[current].notSent => operations[current].status = "Rejected"
        /\ Truthful(receipt, current)
    BY <1>4 DEF Settle, TypeOK, IInv, HandlerInv, ReceiptInv
  <2>2. operations' = settled /\ (SaveSucceeds(settled) \/ SaveFails(settled))
    BY <1>4, <2>1 DEF Settle
  <2>3. saved' = saved \/ saved' = operations'
    BY <2>2, SaveEffect
  <2>4. /\ receipt \in Receipt
        /\ receipt.key = operations[current].key
        /\ receipt.notSent => receipt.status = "Rejected"
    BY <2>1 DEF Receipt, Statuses, TypeOK, Outcomes
  <2> QED
    BY <1>4, <2>1, <2>2, <2>3, <2>4, NewReceiptInv DEF Settle
<1>5. CASE Refuse
  BY <1>5, FinishInv DEF Refuse, IInv, HandlerInv, Outcomes, storageVars
<1>6. CASE Mark
  BY <1>6 DEF Mark, IInv, HandlerInv, ReceiptInv, storageVars, providerVars
<1>7. CASE SaveMark
  <2>1. CASE SaveSucceeds(operations) /\ phase' = "instruct"
    BY <1>7, <2>1, SaveDone, ContinueInv DEF SaveMark
  <2>2. CASE SaveFails(operations) /\ Finish("Rejected")
    <3>1. saved' = saved \/ saved' = operations
      BY <2>2, SaveEffect
    <3>2. Truthful([operations[current] EXCEPT !.status = "Rejected"], current)
      BY <1>7 DEF SaveMark, IInv, HandlerInv, TypeOK, Receipt
    <3> QED
      BY <1>7, <2>2, <3>1, <3>2, FinishInv DEF SaveMark, Outcomes
  <2> QED
    BY <1>7, <2>1, <2>2 DEF SaveMark
<1>8. CASE ProviderFails
  BY <1>8, FinishInv DEF ProviderFails, AtProvider, IInv, HandlerInv, Outcomes
<1>9. CASE CallThreadStart
  BY <1>9 DEF CallThreadStart, AtProvider, IInv, HandlerInv, ReceiptInv,
              storageVars, providerVars
<1>10. CASE ThreadStartAnswered
  BY <1>10 DEF ThreadStartAnswered, Finish, IInv, HandlerInv, ReceiptInv,
               storageVars, providerVars
<1>11. CASE SaveThread
  <2>1. CASE SaveSucceeds(operations) /\ phase' = "instruct"
    BY <1>11, <2>1, SaveDone, ContinueInv DEF SaveThread
  <2>2. CASE SaveFails(operations) /\ Finish("Uncertain")
    <3>1. saved' = saved \/ saved' = operations
      BY <2>2, SaveEffect
    <3>2. Truthful([operations[current] EXCEPT !.status = "Uncertain"], current)
      BY <1>11 DEF SaveThread, TypeOK, Receipt
    <3> QED
      BY <1>11, <2>2, <3>1, <3>2, FinishInv DEF SaveThread, Outcomes
  <2> QED
    BY <1>11, <2>1, <2>2 DEF SaveThread
<1>12. CASE Instruct
  <2>1. phase \in {"execute", "instruct"}
    BY <1>12 DEF Instruct, AtProvider
  <2>2. CASE CurrentKind = "reply"
    BY <1>12, <2>1, <2>2, WriteInv DEF Instruct, Finish
  <2>3. CASE CurrentKind # "reply"
    BY <1>12, <2>1, <2>3, WriteInv DEF Instruct
  <2> QED
    BY <2>2, <2>3
<1>13. CASE InstructFails
  <2>1. phase \in {"execute", "instruct"}
    BY <1>13 DEF InstructFails, AtProvider
  <2>2. CASE inflight' = inflight
    <3>1. Truthful([operations[current] EXCEPT !.status = "Uncertain"], current)
      BY <1>13, <2>1 DEF TypeOK, Receipt
    <3> QED
      BY <1>13, <2>1, <2>2, <3>1, FinishInv
         DEF InstructFails, Outcomes, storageVars, providerVars
  <2>3. CASE inflight' = [inflight EXCEPT ![current] = @ + 1]
    BY <1>13, <2>1, <2>3, WriteInv DEF InstructFails, Finish
  <2> QED
    BY <1>13, <2>2, <2>3 DEF InstructFails
<1>14. CASE Answered
  BY <1>14 DEF Answered, Finish, IInv, HandlerInv, ReceiptInv, storageVars, providerVars
<1>15. CASE Unanswered
  BY <1>15, FinishInv DEF Unanswered, IInv, HandlerInv, Outcomes, storageVars
<1>16. ASSUME NEW id \in OpIds, Perform(id)
       PROVE  IInv'
  <2>1. \A i \in OpIds : ReceiptInv(i)'
    BY <1>16 DEF Perform, IInv, ReceiptInv, storageVars, TypeOK
  <2>2. HandlerInv'
    BY <1>16 DEF Perform, Awaiting, IInv, ReceiptInv, HandlerInv, storageVars, TypeOK
  <2> QED
    BY <2>1, <2>2 DEF IInv
<1>17. ASSUME NEW id \in OpIds, AnswerError(id)
       PROVE  IInv'
  <2>1. \A i \in OpIds : ReceiptInv(i)'
    BY <1>17 DEF AnswerError, IInv, ReceiptInv, storageVars, TypeOK
  <2>2. HandlerInv'
    BY <1>17 DEF AnswerError, Awaiting, IInv, ReceiptInv, HandlerInv, storageVars, TypeOK
  <2> QED
    BY <2>1, <2>2 DEF IInv
<1>18. CASE EventSave
  BY <1>18, SaveEffect, SaveKeepsInv DEF EventSave
<1>19. CASE Load
  <2>1. \A i \in OpIds : ReceiptInv(i)'
    BY <1>19, RecoveredType, NoneAssumption DEF Load, IInv, ReceiptInv, providerVars, TypeOK
  <2>2. HandlerInv'
    BY <1>19 DEF Load, HandlerInv
  <2> QED
    BY <2>1, <2>2 DEF IInv
<1>20. CASE LoadFails
  <2>1. \A i \in OpIds : ReceiptInv(i)'
    BY <1>20, RecoveredType, NoneAssumption DEF LoadFails, IInv, ReceiptInv, providerVars, TypeOK
  <2>2. HandlerInv'
    BY <1>20 DEF LoadFails, IInv, HandlerInv, handlerVars
  <2> QED
    BY <2>1, <2>2 DEF IInv
<1>21. CASE Crash
  BY <1>21 DEF Crash, IInv, ReceiptInv, HandlerInv, storageVars, providerVars
<1>22. CASE External \/ UNCHANGED vars
  BY <1>22, SaveKeepsInv DEF External, Disrupt, Restore, vars, storageVars
<1> QED
  BY <1>1, <1>2, <1>3, <1>4, <1>5, <1>6, <1>7, <1>8, <1>9, <1>10, <1>11,
     <1>12, <1>13, <1>14, <1>15, <1>16, <1>17, <1>18, <1>19, <1>20, <1>21,
     <1>22 DEF Next, Handler, Provider

-----------------------------------------------------------------------------
THEOREM Invariance == Spec => []IInv
<1>1. TypeOK /\ IInv /\ [Next]_vars => IInv'
  BY IInvStep
<1> QED
  BY <1>1, IInvInit, TypeCorrect, PTL DEF Spec

(* No instruction is performed twice under one operation ID (handle,       *)
(* supervisor.rs: intent saved before any command, known IDs answered from *)
(* the ledger, Sending never resent by load).                              *)
THEOREM AtMostOnceCorrect == Spec => []AtMostOnce
<1>1. IInv => AtMostOnce
  BY DEF IInv, ReceiptInv, AtMostOnce
<1> QED
  BY <1>1, Invariance, PTL

(* Whatever reached a provider is on disk, bound to the request it carried.*)
THEOREM DurableIntentCorrect == Spec => []DurableIntent
<1>1. TypeOK /\ IInv => DurableIntent
  BY DEF TypeOK, IInv, ReceiptInv, DurableIntent, Truthful, Unsent
<1> QED
  BY <1>1, Invariance, TypeCorrect, PTL

(* A receipt, live or recovered, says nothing false about the provider.    *)
THEOREM ReceiptsTruthfulCorrect == Spec => []ReceiptsTruthful
<1>1. IInv => ReceiptsTruthful
  BY DEF IInv, ReceiptInv, ReceiptsTruthful
<1> QED
  BY <1>1, Invariance, PTL

-----------------------------------------------------------------------------
(* What one step does to the receipt of one ID.                            *)
LEMMA ReceiptStep ==
  ASSUME TypeOK, IInv, Next, NEW id \in OpIds, operations'[id] # operations[id]
  PROVE  \/ /\ host = "up" /\ operations[id] = None
            /\ \E key \in Requests :
                 operations'[id] = [status |-> "Sending", key |-> key, notSent |-> FALSE]
         \/ /\ host = "up" /\ operations[id] # None /\ operations'[id] # None
            /\ operations[id].status = "Sending"
            /\ operations'[id].key = operations[id].key
         \/ /\ host = "down" /\ operations'[id] = Recovered(saved)[id]
<1>1. ASSUME NEW i \in OpIds, NEW key \in Requests, Admit(i, key)
      PROVE  /\ host = "up" /\ operations[id] = None
             /\ operations'[id] = [status |-> "Sending", key |-> key, notSent |-> FALSE]
  BY <1>1 DEF Admit, TypeOK
<1>2. CASE RejectUnsaved
  <2>1. /\ current \in OpIds /\ operations[current] \in Receipt
        /\ operations[current].status = "Sending" /\ host = "up"
    BY <1>2 DEF RejectUnsaved, TypeOK, IInv, HandlerInv
  <2>2. /\ id = current
        /\ operations'[id] = [operations[id] EXCEPT !.status = "Rejected", !.notSent = TRUE]
    BY <1>2, <2>1 DEF RejectUnsaved, TypeOK
  <2>3. operations'[id] \in Receipt /\ operations'[id].key = operations[id].key
    BY <2>1, <2>2 DEF Receipt, Statuses
  <2> QED
    BY <2>1, <2>2, <2>3, NoneAssumption
<1>3. CASE Settle
  <2>1. /\ current \in OpIds /\ operations[current] \in Receipt
        /\ operations[current].status = "Sending" /\ host = "up"
    BY <1>3 DEF Settle, TypeOK, IInv, HandlerInv
  <2>2. id = current /\ operations'[id] = [operations[id] EXCEPT !.status = outcome]
    BY <1>3, <2>1 DEF Settle, TypeOK
  <2>3. operations'[id] \in Receipt /\ operations'[id].key = operations[id].key
    BY <2>1, <2>2 DEF Receipt, Statuses, TypeOK, Outcomes
  <2> QED
    BY <2>1, <2>2, <2>3, NoneAssumption
<1>4. CASE Load
  BY <1>4 DEF Load
<1>5. CASE Handler /\ ~RejectUnsaved /\ ~Settle
  BY <1>5 DEF Handler, SaveIntent, Refuse, Mark, SaveMark, ProviderFails,
     CallThreadStart, ThreadStartAnswered, SaveThread, Instruct, InstructFails,
     Answered, Unanswered
<1>6. CASE Provider \/ EventSave \/ LoadFails \/ Crash \/ External
  BY <1>6 DEF Provider, Perform, AnswerError, EventSave, LoadFails, Crash, External
<1> QED
  BY <1>1, <1>2, <1>3, <1>4, <1>5, <1>6 DEF Next

(* A running host only settles receipts; a restart may only make them      *)
(* Uncertain or forget an ID nothing was ever sent for.                    *)
THEOREM ReceiptsOnlySettleCorrect == Spec => ReceiptsOnlySettle
<1>1. TypeOK /\ IInv /\ [Next]_vars => [\A id \in OpIds : ReceiptStable(id)]_vars
  <2> SUFFICES ASSUME TypeOK, IInv, Next, NEW id \in OpIds, operations[id] # None
               PROVE  ReceiptStable(id)
    BY DEF ReceiptStable
  <2>1. CASE operations'[id] = operations[id]
    BY <2>1 DEF ReceiptStable
  <2>2. CASE operations'[id] # operations[id] /\ host = "up"
    BY <2>2, ReceiptStep DEF ReceiptStable
  <2>3. CASE operations'[id] # operations[id] /\ host # "up"
    <3>1. operations'[id] = Recovered(saved)[id] /\ host = "down"
      BY <2>3, ReceiptStep
    <3> QED
      BY <2>3, <3>1, RecoveredType DEF ReceiptStable, IInv, ReceiptInv, Unsent, TypeOK
  <2> QED
    BY <2>1, <2>2, <2>3 DEF TypeOK
<1> QED
  BY <1>1, Invariance, TypeCorrect, PTL DEF Spec, ReceiptsOnlySettle

-----------------------------------------------------------------------------
(* Admission implements OperationLedger: the ledger shown is the memory of *)
(* the host (of the dead one while none runs).                             *)
Ledger == [id \in OpIds |-> Shown(operations[id])]

LEMMA ShownFacts ==
  ASSUME TypeOK, NEW id \in OpIds
  PROVE  /\ Ledger[id] = Shown(operations[id])
         /\ operations[id] = None => Ledger[id] = None
         /\ operations[id] # None =>
              /\ Ledger[id] # None
              /\ Ledger[id].status = operations[id].status
              /\ Ledger[id].key = operations[id].key
<1>1. CASE operations[id] = None
  BY <1>1 DEF Ledger, Shown
<1>2. CASE operations[id] # None
  <2>1. Ledger[id] = [status |-> operations[id].status, key |-> operations[id].key]
    BY <1>2 DEF Ledger, Shown
  <2>2. operations[id].status \in Statuses /\ operations[id].key \in Requests
    BY <1>2 DEF TypeOK, Receipt
  <2>3. Ledger[id] \in [status: Statuses, key: Requests]
    BY <2>1, <2>2
  <2>4. Ledger[id] # None
    BY <2>3, NoneAssumption
  <2>5. Ledger[id] = Shown(operations[id])
    BY DEF Ledger
  <2> QED
    BY <1>2, <2>1, <2>4, <2>5
<1> QED
  BY <1>1, <1>2

(* Only the receipt of the current operation changes, from Sending.        *)
LEMMA SettleMapped ==
  ASSUME TypeOK, NEW receipt \in Receipt, NEW id \in OpIds,
         operations[id] \in Receipt, operations[id].status = "Sending",
         receipt.key = operations[id].key,
         operations' = [operations EXCEPT ![id] = receipt]
  PROVE  Ledger' = [Ledger EXCEPT ![id] = [@ EXCEPT !.status = receipt.status]]
<1>1. receipt # None /\ operations[id] # None
  BY NoneAssumption
<1>2. Ledger[id] = [status |-> "Sending", key |-> operations[id].key]
  BY <1>1 DEF Ledger, Shown
<1>3. Shown(receipt) = [Ledger[id] EXCEPT !.status = receipt.status]
  BY <1>1, <1>2 DEF Shown
<1> QED
  BY <1>3 DEF Ledger, TypeOK

THEOREM PromiseImplemented == Spec => ImplementsPromise
<1>1. Init => Promise!Init
  BY DEF Init, Promise!Init, Shown
<1>2. TypeOK /\ IInv /\ [Next]_vars => [Promise!Next]_(Promise!vars)
  <2> SUFFICES ASSUME TypeOK, IInv, [Next]_vars
               PROVE  Promise!Next \/ UNCHANGED <<Ledger, performed>>
    BY DEF Promise!vars, Ledger
  <2>0. IInv /\ TypeOK
    OBVIOUS
  <2>1. ASSUME NEW id \in OpIds, NEW key \in Requests, Admit(id, key)
        PROVE  Promise!Next
    <3> DEFINE entered == [status |-> "Sending", key |-> key, notSent |-> FALSE]
    <3>1. entered \in Receipt
      BY Zenon DEF Receipt, Statuses
    <3>2. entered # None /\ entered.status = "Sending" /\ entered.key = key
      BY <3>1, NoneAssumption
    <3>3. operations[id] = None /\ operations' = [operations EXCEPT ![id] = entered]
            /\ performed' = performed
      BY <2>1 DEF Admit, providerVars
    <3>4. Shown(entered) = [status |-> "Sending", key |-> key]
      BY <3>2 DEF Shown
    <3> HIDE DEF entered
    <3>5. Ledger[id] = None /\ Ledger' = [Ledger EXCEPT ![id] = Shown(entered)]
      BY <3>3 DEF Ledger, Shown, TypeOK
    <3>6. Promise!Accept(id, key)
      BY <3>3, <3>4, <3>5 DEF Promise!Accept, Ledger
    <3> QED
      BY <3>6 DEF Promise!Next
  <2>2. CASE RejectUnsaved
    <3> DEFINE receipt == [operations[current] EXCEPT !.status = "Rejected", !.notSent = TRUE]
    <3>1. /\ current \in OpIds /\ operations[current] \in Receipt
          /\ operations[current].status = "Sending" /\ Unsent(current)
      BY <2>2 DEF RejectUnsaved, TypeOK, IInv, HandlerInv, Before
    <3>2. receipt \in Receipt /\ receipt.key = operations[current].key
            /\ receipt.status = "Rejected"
      BY <3>1 DEF Receipt, Statuses
    <3>3. operations' = [operations EXCEPT ![current] = receipt] /\ performed' = performed
      BY <2>2, <3>1 DEF RejectUnsaved, providerVars
    <3> HIDE DEF receipt
    <3>4. Ledger' = [Ledger EXCEPT ![current] = [@ EXCEPT !.status = "Rejected"]]
      BY <3>1, <3>2, <3>3, SettleMapped
    <3>5. Ledger[current] # None /\ Ledger[current].status = "Sending"
      BY <3>1, ShownFacts, NoneAssumption
    <3>6. Promise!Settle(current, "Rejected")
      BY <3>1, <3>3, <3>4, <3>5 DEF Promise!Settle, Unsent, Ledger
    <3> QED
      BY <3>1, <3>6 DEF Promise!Next, Promise!Statuses
  <2>3. CASE Settle
    <3> DEFINE receipt == [operations[current] EXCEPT !.status = outcome]
    <3>1. /\ current \in OpIds /\ operations[current] \in Receipt
          /\ operations[current].status = "Sending" /\ Truthful(receipt, current)
      BY <2>3 DEF Settle, TypeOK, IInv, HandlerInv
    <3>2. receipt \in Receipt /\ receipt.key = operations[current].key
            /\ receipt.status = outcome
      BY <3>1 DEF Receipt, Statuses, TypeOK, Outcomes
    <3>3. operations' = [operations EXCEPT ![current] = receipt] /\ performed' = performed
      BY <2>3, <3>1 DEF Settle, providerVars
    <3> HIDE DEF receipt
    <3>4. Ledger' = [Ledger EXCEPT ![current] = [@ EXCEPT !.status = outcome]]
      BY <3>1, <3>2, <3>3, SettleMapped
    <3>5. /\ Ledger[current] # None /\ Ledger[current].status = "Sending"
          /\ Ledger[current].key = operations[current].key
      BY <3>1, ShownFacts, NoneAssumption
    <3>6. operations[current].key \in Requests
      BY <3>1 DEF Receipt
    <3>7. Promise!Settle(current, outcome)
      BY <3>1, <3>2, <3>3, <3>4, <3>5, <3>6 DEF Promise!Settle, Truthful, Ledger
    <3> QED
      BY <3>1, <3>7 DEF Promise!Next, Promise!Statuses, TypeOK, Outcomes
  <2>4. ASSUME NEW id \in OpIds, Perform(id)
        PROVE  Promise!Next
    <3>1. /\ performed[id] = 0 /\ operations[id] # None
          /\ operations[id].status # "Rejected"
      <4>1. inflight[id] \in Nat /\ performed[id] \in Nat /\ inflight[id] > 0
        BY <2>4 DEF Perform, TypeOK
      <4>2. ReceiptInv(id)
        BY DEF IInv
      <4> QED
        BY <4>1, <4>2 DEF ReceiptInv, Unsent, Truthful
    <3>2. performed' = [performed EXCEPT ![id] = 1] /\ Ledger' = Ledger
      BY <2>4, <3>1 DEF Perform, Ledger, TypeOK
    <3>3. Ledger[id] # None /\ Ledger[id].status # "Rejected"
      BY <3>1, ShownFacts
    <3>4. Promise!Perform(id)
      BY <3>1, <3>2, <3>3 DEF Promise!Perform, Ledger
    <3> QED
      BY <3>4 DEF Promise!Next
  <2>5. CASE Load
    <3> DEFINE known == {id \in OpIds : Ledger[id] # None}
               forgotten == {id \in known : saved[id] = None}
               uncertain == {id \in known : saved[id] # None
                                            /\ operations'[id].status = "Uncertain"}
    <3>1. operations' = Recovered(saved) /\ performed' = performed
      BY <2>5 DEF Load, providerVars
    <3>2. \A id \in forgotten : performed[id] = 0
      BY DEF IInv, ReceiptInv, Unsent
    <3>3. ASSUME NEW id \in OpIds, saved[id] # None
          PROVE  /\ id \in known
                 /\ Ledger'[id] = [status |-> operations'[id].status,
                                   key |-> Ledger[id].key]
                 /\ operations'[id].status # "Uncertain" =>
                      Ledger'[id] = Ledger[id] /\ Ledger[id].status # "Sending"
      <4>1. ReceiptInv(id) /\ operations[id] # None
        BY <3>3 DEF IInv, ReceiptInv
      <4>2. operations'[id] # None /\ operations'[id].key = operations[id].key
        BY <3>1, <3>3, <4>1, RecoveredType DEF ReceiptInv
      <4>3. Ledger'[id] = [status |-> operations'[id].status, key |-> operations'[id].key]
        BY <4>2 DEF Ledger, Shown
      <4>4. Ledger[id] = [status |-> operations[id].status, key |-> operations[id].key]
        BY <4>1 DEF Ledger, Shown
      <4>5. operations'[id].status # "Uncertain" =>
              operations'[id] = operations[id] /\ operations[id].status # "Sending"
        BY <3>1, <3>3, <4>1, RecoveredType DEF ReceiptInv
      <4> QED
        BY <4>1, <4>2, <4>3, <4>4, <4>5, ShownFacts
    <3>4. \A id \in OpIds : saved[id] = None => Ledger'[id] = None
      BY <3>1, RecoveredType DEF Ledger, Shown
    <3>5. \A id \in OpIds \ (uncertain \cup forgotten) :
            Ledger[id] # None => Ledger[id].status # "Sending"
      BY <3>3
    <3>6. ASSUME NEW id \in OpIds
          PROVE  Ledger'[id] = IF id \in forgotten THEN None
                               ELSE IF id \in uncertain
                                    THEN [Ledger[id] EXCEPT !.status = "Uncertain"]
                                    ELSE Ledger[id]
      <4>1. CASE id \in forgotten
        BY <3>4, <4>1
      <4>2. CASE id \in uncertain
        <5>1. Ledger[id] = [status |-> operations[id].status, key |-> operations[id].key]
          BY <4>2 DEF Ledger, Shown
        <5> QED
          BY <3>3, <4>2, <5>1
      <4>3. CASE id \in known /\ id \notin forgotten /\ id \notin uncertain
        BY <3>3, <4>3
      <4>4. CASE id \notin known
        BY <3>3, <3>4, <4>4
      <4> QED
        BY <4>1, <4>2, <4>3, <4>4
    <3>7. Ledger' = [id \in OpIds |->
                       IF id \in forgotten THEN None
                       ELSE IF id \in uncertain
                            THEN [Ledger[id] EXCEPT !.status = "Uncertain"]
                            ELSE Ledger[id]]
      BY <3>6 DEF Ledger
    <3>8. /\ uncertain \in SUBSET known /\ forgotten \in SUBSET known
          /\ uncertain \cap forgotten = {}
      OBVIOUS
    <3> HIDE DEF uncertain, forgotten
    <3>9. Promise!Restart
      BY <3>1, <3>2, <3>5, <3>7, <3>8 DEF Promise!Restart, Ledger
    <3> QED
      BY <3>9 DEF Promise!Next
  <2>6. CASE Handler /\ ~RejectUnsaved /\ ~Settle
    BY <2>6 DEF Handler, SaveIntent, Refuse, Mark, SaveMark, ProviderFails,
       CallThreadStart, ThreadStartAnswered, SaveThread, Instruct, InstructFails,
       Answered, Unanswered, Ledger, providerVars
  <2>7. CASE EventSave \/ LoadFails \/ Crash \/ External \/ UNCHANGED vars
    BY <2>7 DEF EventSave, LoadFails, Crash, External, Ledger, vars, providerVars
  <2>8. ASSUME NEW id \in OpIds, AnswerError(id)
        PROVE  UNCHANGED <<Ledger, performed>>
    BY <2>8 DEF AnswerError, Ledger
  <2> QED
    BY <2>1, <2>2, <2>3, <2>4, <2>5, <2>6, <2>7, <2>8 DEF Next, Provider
<1> QED
  BY <1>1, <1>2, Invariance, TypeCorrect, PTL DEF Spec, ImplementsPromise, Promise!Spec

=============================================================================
