--------------------------- MODULE OfficeLoopProofs ---------------------------
(***************************************************************************)
(* Two promises of the control panel within the loop of the terminal host, *)
(* and one of the loop itself, for any tasks, texts, requests, statuses    *)
(* and numbers of events.  A choice is made of what the last frame showed  *)
(* because a round that lets the panel come back draws it before it takes  *)
(* the next key.  A receipt clears only what was sent because the text in  *)
(* the composer is, while a draft is under way, also remembered for        *)
(* somebody.  No event is lost because every step either leaves the world, *)
(* the queue and the results together as they were, or adds to them what   *)
(* the cursor passes over.                                                 *)
(***************************************************************************)
EXTENDS OfficeLoop, TLAPS, SequenceTheorems, FiniteSetTheorems

-----------------------------------------------------------------------------
(* What can be chosen of is on the screen when keys are taken.             *)
HitsShown == pc \in {"input", "submit"} /\ open => hits \subseteq shown

LEMMA HitsShownStep == HitsShown /\ [LoopNext]_loopVars => HitsShown'
<1> SUFFICES ASSUME HitsShown, [LoopNext]_loopVars PROVE HitsShown'
  OBVIOUS
<1> USE DEF HitsShown
<1>1. CASE Observe \/ Refresh \/ Execute \/ Poll \/ UNCHANGED loopVars
  BY <1>1 DEF Observe, Refresh, Execute, Poll, loopVars, panelVars, drawVars
<1>2. CASE Coalesced
  BY <1>2 DEF Coalesced, Move, Write, drawVars
<1>3. CASE Command
  BY <1>3 DEF Command, SendDraft, Choose, SubmitAnswers, Direct, drawVars
<1>4. CASE Submit
  BY <1>4 DEF Submit, panelVars, drawVars
<1>5. CASE Input \/ Sources \/ Quit \/ TakeResult \/ TakeLatest \/ TakeOutcome \/ Apply
  BY <1>5 DEF Input, Sources, Quit, TakeResult, TakeLatest, TakeOutcome, Apply
<1>6. CASE Draw
  <2>1. CASE ShowComposer
    BY <2>1 DEF ShowComposer
  <2>2. CASE DrawPanel
    BY <2>2 DEF DrawPanel
  <2>3. QED
    BY <1>6, <2>1, <2>2 DEF Draw
<1>7. QED
  BY <1>1, <1>2, <1>3, <1>4, <1>5, <1>6 DEF LoopNext, Loop

(* Only a command makes the panel busy.                                    *)
LEMMA BusyByCommand == [LoopNext]_loopVars /\ ~sending /\ sending' => Command
<1> SUFFICES ASSUME [LoopNext]_loopVars, ~sending, sending' PROVE Command
  OBVIOUS
<1> USE DEF sendVars
<1>1. ~(Observe \/ Refresh \/ Execute \/ Poll \/ Quit \/ Apply \/ TakeResult
        \/ UNCHANGED loopVars)
  BY DEF Observe, Refresh, Execute, Poll, Quit, Apply, TakeResult, loopVars, panelVars
<1>2. ~Coalesced
  BY DEF Coalesced, Move, Write
<1>3. ~Input
  BY DEF Input, Ask, Redirect, Review, Write, Close, ToggleRequests, ShowRequests,
         ShowConnections, WriteAnswers, panelVars
<1>4. ~(Submit \/ TakeOutcome)
  BY DEF Submit, TakeOutcome, Completed, panelVars
<1>5. ~(Sources \/ TakeLatest)
  BY DEF Sources, TakeLatest
<1>6. ~Draw
  BY DEF Draw, ShowComposer, DrawPanel
<1>7. QED
  BY <1>1, <1>2, <1>3, <1>4, <1>5, <1>6 DEF LoopNext, Loop

(* A choice is made of the request that the last frame showed as the       *)
(* selected one (control.rs: activate and the number keys ask hits).       *)
THEOREM ChoiceWasShownCorrect == LoopSpec => ChoiceWasShown
<1>1. LoopInit => HitsShown
  BY DEF LoopInit, PanelInit, HitsShown
<1>2. HitsShown /\ [LoopNext]_loopVars => [Choose => Selected \in shown]_loopVars
  <2> SUFFICES ASSUME HitsShown, [LoopNext]_loopVars, Choose PROVE Selected \in shown
    OBVIOUS
  <2>1. open /\ Selected \in hits /\ ~sending /\ sending'
    BY DEF Choose, Reviewing
  <2>2. pc = "input"
    BY <2>1, BusyByCommand DEF Command
  <2>3. QED
    BY <2>1, <2>2 DEF HitsShown
<1>3. QED
  BY <1>1, <1>2, HitsShownStep, PTL DEF LoopSpec, ChoiceWasShown

-----------------------------------------------------------------------------
(* Texts, whom they are written to, and who is written to.                 *)
Drafts == [text : Texts, for : Recipients] \cup {None}

PanelTyped ==
  /\ drafts \in [Recipients -> Drafts] /\ message \in Drafts
  /\ target \in Tasks \cup {None} /\ newTask \in NewTasks
  /\ wanted \in Recipients \cup {None}

(* While a draft is under way the composer holds nothing that is not       *)
(* remembered.                                                             *)
Kept == pending # None => sending /\ \E key \in Recipients : drafts[key] = message

PanelInv == PanelTyped /\ Kept

LEMMA KeyIsRecipient == PanelTyped => Key \in Recipients
  BY DEF PanelTyped, Key, Recipients

(* Remembering puts the text where Kept finds it.                          *)
LEMMA RememberedKept ==
  ASSUME PanelTyped
  PROVE  /\ Remembered \in [Recipients -> Drafts]
         /\ Remembered[Key] = message
  BY KeyIsRecipient DEF PanelTyped, Remembered

(* Whatever only remembers, or changes neither drafts nor message, keeps.  *)
LEMMA DraftsStep ==
  ASSUME PanelInv, drafts' \in {drafts, Remembered}, message' = message,
         pending' = pending, sending' = sending
  PROVE  drafts' \in [Recipients -> Drafts] /\ message' \in Drafts /\ Kept'
<1>1. drafts' \in [Recipients -> Drafts] /\ message' \in Drafts
  BY RememberedKept DEF PanelInv, PanelTyped
<1>2. ASSUME pending # None PROVE sending' /\ \E key \in Recipients : drafts'[key] = message'
  <2>1. CASE drafts' = drafts
    BY <1>2, <2>1 DEF PanelInv, Kept
  <2>2. CASE drafts' = Remembered
    BY <1>2, <2>2, RememberedKept, KeyIsRecipient DEF PanelInv, Kept
  <2>3. QED
    BY <2>1, <2>2
<1>3. QED
  BY <1>1, <1>2 DEF Kept

(* An outcome completes the command, whatever it brings.                   *)
LEMMA OutcomeCompletes ==
  ASSUME TakeOutcome
  PROVE  \/ UNCHANGED panelVars
         \/ /\ UNCHANGED <<wanted, target, newTask>>
            /\ \E accepted : Completed(accepted)
<1>1. CASE outcomes = <<>>
  BY <1>1 DEF TakeOutcome
<1>2. CASE outcomes # <<>> /\ Head(outcomes).console
  <2>1. PICK success \in BOOLEAN : Completed(success /\ Head(outcomes).confirmed)
    BY <1>2 DEF TakeOutcome
  <2>2. QED
    BY <1>2, <2>1 DEF TakeOutcome
<1>3. CASE outcomes # <<>> /\ ~Head(outcomes).console
  BY <1>3 DEF TakeOutcome
<1>4. QED
  BY <1>1, <1>2, <1>3

LEMMA PanelInvStep == PanelInv /\ [LoopNext]_loopVars => PanelInv'
<1> SUFFICES ASSUME PanelInv, [LoopNext]_loopVars PROVE PanelInv'
  OBVIOUS
<1>a. PanelTyped /\ Kept
  BY DEF PanelInv
<1>1. CASE UNCHANGED panelVars
  BY <1>1, <1>a DEF panelVars, draftVars, sendVars, PanelInv, PanelTyped, Kept
<1>2. ASSUME drafts' \in {drafts, Remembered}, message' = message, UNCHANGED sendVars,
             target' \in Tasks \cup {None}, newTask' \in NewTasks,
             wanted' \in Recipients \cup {None}
      PROVE  PanelInv'
  BY <1>2, DraftsStep DEF sendVars, PanelInv, PanelTyped
<1>3. ASSUME NEW text \in Texts, Write(text) PROVE PanelInv'
  <2>1. message' \in Drafts
    BY <1>3, <1>a, KeyIsRecipient DEF Write, Drafts
  <2>2. pending = None /\ pending' = None
    BY <1>3, <1>a DEF Write, Kept, sendVars
  <2>3. QED
    BY <1>3, <1>a, <2>1, <2>2 DEF Write, PanelInv, PanelTyped, Kept
<1>4. ASSUME NEW accepted, Completed(accepted), UNCHANGED <<wanted, target, newTask>>
      PROVE  PanelInv'
  <2>1. message' \in Drafts /\ drafts' \in [Recipients -> Drafts]
    BY <1>4, <1>a, KeyIsRecipient DEF Completed, PanelTyped, Drafts
  <2>2. QED
    BY <1>4, <1>a, <2>1 DEF Completed, PanelInv, PanelTyped, Kept
<1>5. CASE Observe \/ Refresh \/ Execute \/ Poll \/ Quit \/ TakeResult \/ Apply \/ UNCHANGED loopVars
  BY <1>1, <1>5 DEF Observe, Refresh, Execute, Poll, Quit, TakeResult, Apply, loopVars
<1>6. CASE Coalesced
  <2>1. CASE Move
    BY <1>2, <1>a, <2>1 DEF Move, draftVars, PanelTyped
  <2>2. QED
    BY <1>3, <1>6, <2>1 DEF Coalesced
<1>7. CASE Input
  <2>1. ASSUME NEW key \in Recipients, Ask(key) PROVE PanelInv'
    BY <1>2, <1>a, <2>1 DEF Ask, Closed, PanelTyped
  <2>2. ASSUME NEW key \in Recipients, Redirect(key) PROVE PanelInv'
    <3>1. message' \in Drafts /\ drafts' \in [Recipients -> Drafts]
      BY <2>2, <1>a, RememberedKept DEF Redirect
    <3>2. pending = None /\ pending' = None
      BY <2>2, <1>a DEF Redirect, Composing, Kept, sendVars
    <3>3. QED
      BY <2>2, <1>a, <3>1, <3>2 DEF Redirect, PanelInv, PanelTyped, Kept
  <2>3. ASSUME NEW worker \in Tasks \cup {None}, ShowRequests(worker) PROVE PanelInv'
    BY <1>2, <1>a, <2>3 DEF ShowRequests, PanelTyped
  <2>4. CASE ToggleRequests
    <3>1. CASE ShowRequests(target)
      BY <2>3, <3>1, <1>a DEF PanelTyped
    <3>2. CASE UNCHANGED <<wanted, draftVars, sendVars>>
      BY <1>2, <1>a, <3>2 DEF draftVars, PanelTyped
    <3>3. QED
      BY <2>4, <3>1, <3>2 DEF ToggleRequests
  <2>5. CASE Close \/ ShowConnections \/ WriteAnswers
    BY <1>2, <1>a, <2>5
       DEF Close, Closed, Left, ShowConnections, WriteAnswers, draftVars, PanelTyped
  <2>6. QED
    BY <1>1, <1>3, <1>7, <2>1, <2>2, <2>3, <2>4, <2>5 DEF Input, Review
<1>8. CASE Command
  <2>1. CASE SendDraft
    <3>1. drafts' \in [Recipients -> Drafts] /\ message' \in Drafts
      BY <2>1, <1>a, RememberedKept DEF SendDraft, PanelTyped
    <3>2. sending' /\ drafts'[Key] = message'
      BY <2>1, <1>a, RememberedKept DEF SendDraft
    <3>3. QED
      BY <2>1, <1>a, <3>1, <3>2, KeyIsRecipient DEF SendDraft, PanelInv, PanelTyped, Kept
  <2>2. CASE Choose \/ SubmitAnswers \/ Direct
    BY <2>2, <1>a DEF Choose, SubmitAnswers, Direct, draftVars, PanelInv, PanelTyped, Kept
  <2>3. QED
    BY <1>8, <2>1, <2>2 DEF Command
<1>9. CASE Sources
  BY <1>2, <1>9, <1>a DEF Sources, Closed, Left, PanelTyped
<1>10. CASE Submit
  BY <1>1, <1>4, <1>10 DEF Submit
<1>11. CASE TakeLatest
  BY <1>2, <1>11, <1>a DEF TakeLatest, draftVars, PanelTyped
<1>12. CASE TakeOutcome
  BY <1>1, <1>4, <1>12, OutcomeCompletes
<1>13. CASE Draw
  <2>1. CASE ShowComposer
    <3>1. message' \in Drafts /\ drafts' \in [Recipients -> Drafts]
      BY <2>1, <1>a, RememberedKept DEF ShowComposer, PanelTyped
    <3>2. wanted \in Recipients /\ drafts'[wanted] = message'
      BY <2>1, <1>a DEF ShowComposer, PanelTyped
    <3>3. QED
      BY <2>1, <1>a, <3>1, <3>2
         DEF ShowComposer, PanelInv, PanelTyped, Kept, sendVars, Recipients
  <2>2. CASE DrawPanel
    BY <1>2, <1>a, <2>2 DEF DrawPanel, draftVars, PanelTyped
  <2>3. QED
    BY <1>13, <2>1, <2>2 DEF Draw
<1>14. QED
  BY <1>5, <1>6, <1>7, <1>8, <1>9, <1>10, <1>11, <1>12, <1>13 DEF LoopNext, Loop

-----------------------------------------------------------------------------
(* What a receipt clears was sent.                                         *)
LEMMA CompletedClears ==
  ASSUME PanelInv, AtRecipients, NEW accepted, Completed(accepted),
         NEW key \in Recipients, drafts'[key] # drafts[key]
  PROVE  key = pending.key /\ Same(drafts[key], pending.text)
<1> DEFINE sent == pending.text
           here == Key = pending.key /\ Same(message, sent)
           kept == [drafts EXCEPT ![pending.key] = IF Same(@, sent) THEN None ELSE @]
<1>a. PanelTyped /\ Kept
  BY DEF PanelInv
<1>1. pending # None /\ drafts' = IF here THEN [kept EXCEPT ![Key] = None] ELSE kept
  BY DEF Completed
<1>2. CASE ~here
  BY <1>1, <1>2, <1>a DEF PanelTyped
<1>3. CASE here
  <2>1. key = pending.key /\ (key = Key \/ Same(drafts[key], sent))
    BY <1>1, <1>3, <1>a DEF PanelTyped
  <2>2. PICK owner \in Recipients : drafts[owner] = message
    BY <1>1, <1>a DEF Kept
  <2>3. owner = Key
    BY <2>2, <1>3 DEF Same, AtRecipients, Remembering
  <2>4. QED
    BY <2>1, <2>2, <2>3, <1>3
<1>4. QED
  BY <1>2, <1>3

(* Only what completes a command makes the panel idle.                     *)
LEMMA IdleByCompletion ==
  ASSUME [LoopNext]_loopVars, sending, ~sending'
  PROVE  \E accepted : Completed(accepted)
<1> USE DEF sendVars
<1>1. ~(Observe \/ Refresh \/ Execute \/ Poll \/ Quit \/ Apply \/ TakeResult
        \/ UNCHANGED loopVars)
  BY DEF Observe, Refresh, Execute, Poll, Quit, Apply, TakeResult, loopVars, panelVars
<1>2. ~(Coalesced \/ Command)
  BY DEF Coalesced, Command, Move, Write, SendDraft, Choose, SubmitAnswers, Direct
<1>3. ~Input
  BY DEF Input, Ask, Redirect, Review, Write, Close, ToggleRequests, ShowRequests,
         ShowConnections, WriteAnswers, panelVars
<1>4. ~(Sources \/ TakeLatest \/ Draw)
  BY DEF Sources, TakeLatest, Draw, ShowComposer, DrawPanel
<1>5. CASE Submit
  BY <1>5 DEF Submit, panelVars
<1>6. CASE TakeOutcome
  BY <1>6, OutcomeCompletes DEF panelVars
<1>7. QED
  BY <1>1, <1>2, <1>3, <1>4, <1>5, <1>6 DEF LoopNext, Loop

(* A receipt never erases an instruction other than the one it confirms    *)
(* (control.rs, complete).                                                 *)
THEOREM ReceiptClearsOnlySentCorrect == LoopSpec => ReceiptClearsOnlySent
<1> DEFINE Clears == sending /\ ~sending' /\ AtRecipients =>
             \A key \in Recipients :
               drafts'[key] # drafts[key] => key = pending.key /\ Same(drafts[key], pending.text)
<1>1. LoopInit => PanelInv
  BY PanelAssumption
     DEF LoopInit, PanelInit, PanelInv, PanelTyped, Kept, Drafts, Recipients
<1>2. PanelInv /\ [LoopNext]_loopVars => [Clears]_loopVars
  BY CompletedClears, IdleByCompletion
<1>3. QED
  BY <1>1, <1>2, PanelInvStep, PTL DEF LoopSpec, ReceiptClearsOnlySent

-----------------------------------------------------------------------------
(* A finite set of numbers can be put in order: the place of a number is   *)
(* how many there are up to it, and every place is taken.                  *)
LEMMA Sorted ==
  ASSUME NEW S \in SUBSET Nat, IsFiniteSet(S)
  PROVE  /\ Cardinality(S) \in Nat
         /\ Increasing(S) \in [1..Cardinality(S) -> S]
         /\ \A i, j \in 1..Cardinality(S) : i < j => Increasing(S)[i] < Increasing(S)[j]
         /\ \A n \in S : \E i \in 1..Cardinality(S) : Increasing(S)[i] = n
<1> DEFINE n == Cardinality(S)
           UpTo(x) == {y \in S : y <= x}
           place == [x \in S |-> Cardinality(UpTo(x))]
           sorts(s) == \A i, j \in DOMAIN s : i < j => s[i] < s[j]
           inverse == [i \in 1..n |-> CHOOSE x \in S : place[x] = i]
<1>1. n \in Nat
  BY FS_CardinalityType
<1>2. ASSUME NEW x \in S PROVE IsFiniteSet(UpTo(x)) /\ place[x] \in 1..n
  <2>1. UpTo(x) \in SUBSET S /\ x \in UpTo(x) /\ UpTo(x) # {}
    OBVIOUS
  <2>2. IsFiniteSet(UpTo(x)) /\ Cardinality(UpTo(x)) <= n
    BY <2>1, FS_Subset
  <2>3. Cardinality(UpTo(x)) \in Nat /\ Cardinality(UpTo(x)) # 0
    BY <2>1, <2>2, FS_CardinalityType, FS_EmptySet
  <2>4. QED
    BY <1>1, <2>2, <2>3
<1>3. ASSUME NEW x \in S, NEW y \in S, x < y PROVE place[x] < place[y]
  <2>1. UpTo(x) \in SUBSET UpTo(y) /\ y \in UpTo(y) /\ y \notin UpTo(x)
    <3>1. y \in Nat /\ x \in Nat /\ \A z \in S : z \in Nat
      OBVIOUS
    <3>2. \A z \in S : z <= x => z <= y
      BY ONLY <1>3, <3>1
    <3>3. y <= y /\ ~(y <= x)
      BY ONLY <1>3, <3>1
    <3>4. QED
      BY <3>2, <3>3
  <2>2. Cardinality(UpTo(x)) <= Cardinality(UpTo(y)) /\ Cardinality(UpTo(x)) # Cardinality(UpTo(y))
    BY <2>1, <1>2, FS_Subset
  <2>3. QED
    BY <2>2, <1>1, <1>2
<1>4. place \in Injection(S, 1..n)
  <2>1. place \in [S -> 1..n]
    BY <1>2
  <2>2. ASSUME NEW x \in S, NEW y \in S, place[x] = place[y] PROVE x = y
    BY <2>2, <1>1, <1>2, <1>3
  <2> HIDE DEF place
  <2>3. QED
    BY <2>1, <2>2 DEF Injection, IsInjective
<1>5. place \in Surjection(S, 1..n)
  <2>1. IsFiniteSet(1..n) /\ Cardinality(1..n) = n
    BY <1>1, FS_Interval
  <2> HIDE DEF place
  <2>2. QED
    BY <1>4, <2>1, FS_Injection
<1>6. ASSUME NEW i \in 1..n PROVE inverse[i] \in S /\ place[inverse[i]] = i
  <2>1. \E x \in S : place[x] = i
    <3> HIDE DEF place
    <3>1. QED
      BY <1>5 DEF Surjection
  <2>2. QED
    BY <2>1
<1>7. inverse \in [1..n -> S] /\ sorts(inverse)
  <2>1. inverse \in [1..n -> S]
    BY <1>6
  <2>2. ASSUME NEW i \in 1..n, NEW j \in 1..n, i < j PROVE inverse[i] < inverse[j]
    <3>1. inverse[i] \in Nat /\ inverse[j] \in Nat
      BY <1>6
    <3>2. place[inverse[i]] = i /\ place[inverse[j]] = j /\ inverse[i] \in S /\ inverse[j] \in S
      BY <1>6
    <3> HIDE DEF inverse, place
    <3>3. inverse[j] < inverse[i] => j < i
      BY <1>3, <3>2
    <3>4. i \in Int /\ j \in Int
      BY <1>1
    <3>5. QED
      BY <2>2, <3>1, <3>2, <3>3, <3>4
  <2>3. QED
    BY <2>1, <2>2
<1>8. Increasing(S) \in [1..n -> S] /\ sorts(Increasing(S))
  <2>1. \E s \in [1..n -> S] : sorts(s)
    BY <1>7
  <2>2. QED
    BY <2>1 DEF Increasing
<1>9. Increasing(S) \in Injection(1..n, S)
  <2>1. ASSUME NEW i \in 1..n, NEW j \in 1..n, Increasing(S)[i] = Increasing(S)[j] PROVE i = j
    <3>1. Increasing(S)[i] \in Nat
      BY <1>8
    <3>2. ~(i < j) /\ ~(j < i)
      BY <1>8, <2>1, <3>1
    <3>3. QED
      BY <1>1, <3>2
  <2>2. QED
    BY <1>8, <2>1 DEF Injection, IsInjective
<1>10. Increasing(S) \in Surjection(1..n, S)
  <2>1. IsFiniteSet(1..n) /\ Cardinality(1..n) = n
    BY <1>1, FS_Interval
  <2>2. QED
    BY <1>9, <2>1, FS_Injection
<1>11. QED
  BY <1>1, <1>8, <1>10 DEF Surjection

-----------------------------------------------------------------------------
(* Events, one log after another.                                          *)
Origins == {"control", "source"}
Event == [from : Origins, number : Nat]

(* The events made of numbers are as many, in the same order.              *)
LEMMA EventsOf ==
  ASSUME NEW origin \in Origins, NEW numbers \in Seq(Nat)
  PROVE  /\ Events(origin, numbers) \in Seq(Event)
         /\ Len(Events(origin, numbers)) = Len(numbers)
         /\ \A i \in 1..Len(numbers) :
              Events(origin, numbers)[i] = [from |-> origin, number |-> numbers[i]]
<1>1. \A i \in DOMAIN numbers : [from |-> origin, number |-> numbers[i]] \in Event
  BY DEF Event
<1>2. QED
  BY <1>1 DEF Events

Before(one, other) ==
  \A i \in DOMAIN one, j \in DOMAIN other :
    one[i].from = other[j].from => one[i].number < other[j].number

(* Two logs are in order together when each is, and one comes before.      *)
LEMMA JoinedOrder ==
  ASSUME NEW one \in Seq(Event), NEW other \in Seq(Event)
  PROVE  InOrder(one \o other) <=> InOrder(one) /\ InOrder(other) /\ Before(one, other)
<1> DEFINE both == one \o other
<1>1. /\ DOMAIN one = 1..Len(one) /\ DOMAIN other = 1..Len(other)
      /\ DOMAIN both = 1..(Len(one) + Len(other)) /\ Len(one) \in Nat /\ Len(other) \in Nat
      /\ \A i \in 1..Len(one) : both[i] = one[i]
      /\ \A j \in 1..Len(other) : both[Len(one) + j] = other[j]
  OBVIOUS
<1> HIDE DEF both
<1>2. ASSUME InOrder(both) PROVE InOrder(one) /\ InOrder(other) /\ Before(one, other)
  <2>1. InOrder(one)
    BY <1>1, <1>2 DEF InOrder
  <2>2. ASSUME NEW i \in DOMAIN other, NEW j \in DOMAIN other, i < j, other[i].from = other[j].from
        PROVE  other[i].number < other[j].number
    <3>1. Len(one) + i \in DOMAIN both /\ Len(one) + j \in DOMAIN both /\ Len(one) + i < Len(one) + j
      BY <1>1, <2>2
    <3>2. QED
      BY <1>1, <1>2, <2>2, <3>1 DEF InOrder
  <2>3. ASSUME NEW i \in DOMAIN one, NEW j \in DOMAIN other, one[i].from = other[j].from
        PROVE  one[i].number < other[j].number
    <3>1. i \in DOMAIN both /\ Len(one) + j \in DOMAIN both /\ i < Len(one) + j
      BY <1>1, <2>3
    <3>2. QED
      BY <1>1, <1>2, <2>3, <3>1 DEF InOrder
  <2>4. QED
    BY <2>1, <2>2, <2>3 DEF InOrder, Before
<1>3. ASSUME InOrder(one), InOrder(other), Before(one, other) PROVE InOrder(both)
  <2>1. SUFFICES ASSUME NEW i \in DOMAIN both, NEW j \in DOMAIN both, i < j,
                        both[i].from = both[j].from
                 PROVE  both[i].number < both[j].number
    BY DEF InOrder
  <2>2. CASE j <= Len(one)
    <3>1. i \in 1..Len(one) /\ j \in 1..Len(one)
      BY <1>1, <2>1, <2>2
    <3>2. QED
      BY <1>1, <1>3, <2>1, <3>1 DEF InOrder
  <2>3. CASE i <= Len(one) /\ j > Len(one)
    <3>1. PICK l \in 1..Len(other) : j = Len(one) + l
      <4>1. j - Len(one) \in 1..Len(other) /\ j = Len(one) + (j - Len(one))
        BY <1>1, <2>1, <2>3
      <4>2. QED
        BY <4>1
    <3>2. QED
      BY <1>1, <1>3, <2>1, <2>3, <3>1 DEF Before
  <2>4. CASE i > Len(one)
    <3>1. i - Len(one) \in 1..Len(other) /\ j - Len(one) \in 1..Len(other)
      BY <1>1, <2>1, <2>4
    <3>a. /\ i = Len(one) + (i - Len(one)) /\ j = Len(one) + (j - Len(one))
          /\ i - Len(one) < j - Len(one)
      BY <1>1, <2>1
    <3>2. PICK k \in 1..Len(other), l \in 1..Len(other) :
            i = Len(one) + k /\ j = Len(one) + l /\ k < l
      BY <3>1, <3>a
    <3>3. QED
      <4>1. both[i] = other[k] /\ both[j] = other[l]
        BY <1>1, <3>2
      <4>2. QED
        BY <1>1, <1>3, <2>1, <3>2, <4>1 DEF InOrder
  <2>5. QED
    BY <1>1, <2>1, <2>2, <2>3, <2>4
<1>4. QED
  BY <1>2, <1>3 DEF both

(* What two logs number together.                                          *)
LEMMA JoinedNumbers ==
  ASSUME NEW one \in Seq(Event), NEW other \in Seq(Event), NEW origin
  PROVE  NumbersOf(origin, one \o other) = NumbersOf(origin, one) \cup NumbersOf(origin, other)
<1> DEFINE both == one \o other
<1>1. /\ DOMAIN one = 1..Len(one) /\ DOMAIN other = 1..Len(other)
      /\ DOMAIN both = 1..(Len(one) + Len(other)) /\ Len(one) \in Nat /\ Len(other) \in Nat
      /\ \A i \in 1..Len(one) : both[i] = one[i]
      /\ \A j \in 1..Len(other) : both[Len(one) + j] = other[j]
  OBVIOUS
<1> HIDE DEF both
<1>2. ASSUME NEW n \in NumbersOf(origin, both)
      PROVE  n \in NumbersOf(origin, one) \cup NumbersOf(origin, other)
  <2>1. PICK i \in DOMAIN both : both[i].from = origin /\ n = both[i].number
    BY DEF NumbersOf
  <2>2. CASE i <= Len(one)
    <3>1. i \in DOMAIN one /\ both[i] = one[i]
      BY <1>1, <2>2
    <3>2. QED
      BY <2>1, <3>1 DEF NumbersOf
  <2>3. CASE i > Len(one)
    <3>1. i - Len(one) \in DOMAIN other /\ i = Len(one) + (i - Len(one))
      BY <1>1, <2>3
    <3>2. both[i] = other[i - Len(one)]
      BY <1>1, <3>1
    <3>3. QED
      BY <2>1, <3>1, <3>2 DEF NumbersOf
  <2>4. QED
    BY <1>1, <2>2, <2>3
<1>3. NumbersOf(origin, one) \subseteq NumbersOf(origin, both)
  BY <1>1 DEF NumbersOf
<1>4. ASSUME NEW n \in NumbersOf(origin, other) PROVE n \in NumbersOf(origin, both)
  <2>1. PICK j \in DOMAIN other : other[j].from = origin /\ n = other[j].number
    BY DEF NumbersOf
  <2>2. Len(one) + j \in DOMAIN both /\ both[Len(one) + j] = other[j]
    BY <1>1
  <2>3. QED
    BY <2>1, <2>2 DEF NumbersOf
<1>5. QED
  BY <1>2, <1>3, <1>4 DEF both

-----------------------------------------------------------------------------
(* What was taken, or read, wherever it is now.                            *)
Taken == world \o queue \o Events("source", results)

EventsTyped ==
  /\ world \in Seq(Event) /\ queue \in Seq(Event) /\ results \in Seq(Nat)
  /\ made \in Nat /\ latest.made \in Nat /\ cursor \in Nat /\ read \in Nat

EventsInv == EventsTyped /\ EventsExact

(* It is a log of events.                                                  *)
LEMMA TakenTyped ==
  ASSUME EventsTyped
  PROVE  Events("source", results) \in Seq(Event) /\ Taken \in Seq(Event)
  BY EventsOf DEF EventsTyped, Taken, Origins

(* Where one log ends and the next begins makes no difference.             *)
LEMMA Regrouped ==
  ASSUME NEW s \in Seq(Event), NEW t \in Seq(Event), NEW u \in Seq(Event)
  PROVE  (s \o t) \o u = s \o (t \o u)
  BY ConcatAssociative

(* Nothing is in order.                                                    *)
LEMMA NoneTaken ==
  InOrder(<<>>) /\ NumbersOf("control", <<>>) = {} /\ NumbersOf("source", <<>>) = {}
  BY DEF InOrder, NumbersOf

(* Of no numbers there are no events.                                      *)
LEMMA NoEvents == Events("source", <<>>) = <<>>
  BY EventsOf DEF Events

(* Whatever moves events along leaves what was taken as it was.            *)
LEMMA MovedOn ==
  ASSUME EventsInv, EventsTyped', Taken' = Taken, UNCHANGED <<cursor, read>>
  PROVE  EventsInv'
  BY DEF EventsInv, EventsExact, Taken

(* One more event of the sources comes after all that were read.           *)
LEMMA PolledStep ==
  ASSUME EventsInv, Poll
  PROVE  EventsInv'
<1> DEFINE came == Events("source", <<read + 1>>)
<1>1. EventsTyped /\ EventsTyped'
  BY DEF EventsInv, EventsTyped, Poll, hostVars
<1>2. /\ came \in Seq(Event) /\ Len(came) = 1 /\ DOMAIN came = {1}
      /\ came[1].from = "source" /\ came[1].number = read + 1
  <2>1. <<read + 1>> \in Seq(Nat) /\ "source" \in Origins
    BY <1>1 DEF EventsTyped, Origins
  <2>2. came \in Seq(Event) /\ Len(came) = 1 /\ came[1] = [from |-> "source", number |-> read + 1]
    <3>1. Len(<<read + 1>>) = 1 /\ <<read + 1>>[1] = read + 1
      OBVIOUS
    <3>2. 1 \in 1..Len(<<read + 1>>)
      BY <3>1
    <3>3. QED
      BY <2>1, <3>1, <3>2, EventsOf
  <2> HIDE DEF came
  <2>3. QED
    BY <2>2
<1>3. Taken' = Taken \o came
  <2>1. Events("source", results') = Events("source", results) \o came
    BY <1>1, <1>2 DEF EventsTyped, Poll, Events
  <2>2. world \o queue \in Seq(Event) /\ Events("source", results) \in Seq(Event)
    BY <1>1, TakenTyped DEF EventsTyped
  <2> HIDE DEF came
  <2>3. Taken \o came = world \o queue \o (Events("source", results) \o came)
    BY <1>2, <2>2, Regrouped DEF Taken
  <2>4. UNCHANGED <<world, queue>>
    BY DEF Poll
  <2>5. QED
    BY <2>1, <2>3, <2>4 DEF Taken
<1>4. Taken \in Seq(Event)
  BY <1>1, TakenTyped
<1>5. InOrder(Taken) /\ NumbersOf("control", Taken) = 1..cursor \ Outside
      /\ NumbersOf("source", Taken) = 1..read
  BY DEF EventsInv, EventsExact, Taken
<1>6. InOrder(came) /\ NumbersOf("control", came) = {} /\ NumbersOf("source", came) = {read + 1}
  BY <1>2 DEF InOrder, NumbersOf
<1>7. Before(Taken, came)
  <2>1. ASSUME NEW i \in DOMAIN Taken, Taken[i].from = "source" PROVE Taken[i].number < read + 1
    <3>1. Taken[i].number \in NumbersOf("source", Taken)
      BY <2>1 DEF NumbersOf
    <3>2. QED
      BY <1>1, <1>5, <3>1 DEF EventsTyped
  <2>2. DOMAIN came = {1} /\ came[1].from = "source" /\ came[1].number = read + 1
    BY <1>2
  <2> HIDE DEF came
  <2>3. QED
    BY <2>1, <2>2 DEF Before
<1>8. 1..(read + 1) = 1..read \cup {read + 1}
  BY <1>1 DEF EventsTyped
<1>9. InOrder(Taken') /\ NumbersOf("control", Taken') = 1..cursor \ Outside
      /\ NumbersOf("source", Taken') = 1..(read + 1)
  <2> HIDE DEF came
  <2>1. InOrder(Taken')
    BY <1>2, <1>3, <1>4, <1>5, <1>6, <1>7, JoinedOrder
  <2>2. \A origin : NumbersOf(origin, Taken') = NumbersOf(origin, Taken) \cup NumbersOf(origin, came)
    BY <1>2, <1>3, <1>4, JoinedNumbers
  <2>3. QED
    BY <1>5, <1>6, <1>8, <2>1, <2>2
<1>10. cursor' = cursor /\ read' = read + 1
  BY DEF Poll
<1>11. QED
  BY <1>1, <1>9, <1>10 DEF EventsInv, EventsExact, Taken

(* What the control host has to say comes after all that it said before,   *)
(* though before what the poller sent.                                     *)
LEMMA LatestStep ==
  ASSUME EventsInv, TakeLatest
  PROVE  EventsInv'
<1> DEFINE news == (cursor + 1)..latest.made \ Outside
           arrived == Events("control", Increasing(news))
           before == world \o queue
           after == Events("source", results)
<1>a. EventsTyped
  BY DEF EventsInv
<1>1. CASE ~unseen
  <2>1. UNCHANGED <<world, queue, results, made, latest, cursor, read>>
    BY <1>1 DEF TakeLatest
  <2>2. QED
    BY <2>1 DEF EventsInv, EventsTyped, EventsExact
<1>2. CASE unseen
  <2>1. /\ queue' = queue \o arrived
        /\ cursor' = IF latest.made > cursor THEN latest.made ELSE cursor
        /\ UNCHANGED <<world, results, made, latest, read>>
    BY <1>2 DEF TakeLatest
  <2>2. news \in SUBSET Nat /\ IsFiniteSet(news)
    <3>a. cursor + 1 \in Int /\ latest.made \in Int
      BY <1>a DEF EventsTyped
    <3>1. IsFiniteSet((cursor + 1)..latest.made) /\ news \in SUBSET ((cursor + 1)..latest.made)
      BY <3>a, FS_Interval
    <3>2. IsFiniteSet(news)
      BY <3>1, FS_Subset
    <3>3. QED
      BY <1>a, <3>2 DEF EventsTyped
  <2>3. /\ Increasing(news) \in Seq(Nat) /\ DOMAIN Increasing(news) = 1..Cardinality(news)
        /\ Len(Increasing(news)) = Cardinality(news) /\ Cardinality(news) \in Nat
        /\ \A i \in 1..Cardinality(news) : Increasing(news)[i] \in news
    <3>1. Increasing(news) \in [1..Cardinality(news) -> news] /\ Cardinality(news) \in Nat
      BY <2>2, Sorted
    <3>2. Increasing(news) \in [1..Cardinality(news) -> Nat]
      BY <2>2, <3>1
    <3> HIDE DEF news
    <3>3. QED
      BY <3>1, <3>2
  <2>4. /\ arrived \in Seq(Event) /\ DOMAIN arrived = 1..Cardinality(news)
        /\ \A i \in 1..Cardinality(news) :
             arrived[i].from = "control" /\ arrived[i].number = Increasing(news)[i]
    <3>1. "control" \in Origins
      BY DEF Origins
    <3> HIDE DEF news
    <3>2. /\ arrived \in Seq(Event) /\ Len(arrived) = Cardinality(news)
          /\ \A i \in 1..Cardinality(news) :
               arrived[i] = [from |-> "control", number |-> Increasing(news)[i]]
      BY <2>3, <3>1, EventsOf
    <3> HIDE DEF arrived
    <3>3. QED
      BY <2>3, <3>2
  <2>5. before \in Seq(Event) /\ after \in Seq(Event) /\ before \o arrived \in Seq(Event)
    BY <1>a, <2>4, TakenTyped DEF EventsTyped
  <2>6. Taken = before \o after /\ Taken' = (before \o arrived) \o after
    BY <1>a, <2>1, <2>4, <2>5 DEF Taken, EventsTyped
  <2>7. /\ InOrder(Taken) /\ NumbersOf("control", Taken) = 1..cursor \ Outside
        /\ NumbersOf("source", Taken) = 1..read
    BY DEF EventsInv, EventsExact, Taken
  <2>8. /\ InOrder(before) /\ InOrder(after) /\ Before(before, after)
        /\ NumbersOf("control", before) \cup NumbersOf("control", after) = 1..cursor \ Outside
        /\ NumbersOf("source", before) \cup NumbersOf("source", after) = 1..read
    <3> HIDE DEF before, after
    <3>1. QED
      BY <2>5, <2>6, <2>7, JoinedOrder, JoinedNumbers
  <2>9. /\ InOrder(arrived) /\ NumbersOf("source", arrived) = {}
        /\ NumbersOf("control", arrived) = news
    <3> HIDE DEF news, arrived
    <3>1. InOrder(arrived)
      BY <2>2, <2>4, Sorted DEF InOrder
    <3>2. NumbersOf("source", arrived) = {}
      BY <2>4 DEF NumbersOf
    <3>3. \A n \in NumbersOf("control", arrived) : n \in news
      BY <2>3, <2>4 DEF NumbersOf
    <3>4. ASSUME NEW n \in news PROVE n \in NumbersOf("control", arrived)
      <4>1. PICK i \in 1..Cardinality(news) : Increasing(news)[i] = n
        BY <2>2, Sorted
      <4>2. QED
        BY <2>4, <4>1 DEF NumbersOf
    <3>5. QED
      BY <3>1, <3>2, <3>3, <3>4
  <2>10. Before(before, arrived)
    <3>1. ASSUME NEW i \in DOMAIN before, NEW j \in DOMAIN arrived, before[i].from = arrived[j].from
          PROVE  before[i].number < arrived[j].number
      <4>1. arrived[j].from = "control" /\ arrived[j].number \in news
        BY <2>3, <2>4, <3>1
      <4>2. before[i].number \in NumbersOf("control", before)
        BY <3>1, <4>1 DEF NumbersOf
      <4>3. before[i].number \in 1..cursor
        BY <2>8, <4>2
      <4>4. QED
        BY <1>a, <4>1, <4>3 DEF EventsTyped
    <3>2. QED
      BY <3>1 DEF Before
  <2>11. Before(before \o arrived, after)
    <3>1. \A j \in DOMAIN after : after[j].from = "source"
      BY <1>a, EventsOf DEF EventsTyped, Events
    <3>2. ASSUME NEW i \in DOMAIN (before \o arrived), NEW j \in DOMAIN after,
                 (before \o arrived)[i].from = after[j].from
          PROVE  (before \o arrived)[i].number < after[j].number
      <4>1. CASE i \in DOMAIN before
        <5>1. (before \o arrived)[i] = before[i]
          BY <2>4, <2>5, <4>1
        <5>2. QED
          BY <2>8, <3>2, <4>1, <5>1 DEF Before
      <4>2. CASE i \notin DOMAIN before
        <5>1. i - Len(before) \in DOMAIN arrived /\ (before \o arrived)[i] = arrived[i - Len(before)]
          <6> HIDE DEF before, arrived
          <6>1. i \in 1..(Len(before) + Len(arrived)) /\ DOMAIN before = 1..Len(before)
            BY <2>4, <2>5, <3>2
          <6>2. Len(before) \in Nat /\ Len(arrived) \in Nat /\ DOMAIN arrived = 1..Len(arrived)
            BY <2>4, <2>5
          <6>3. i > Len(before)
            BY <4>2, <6>1, <6>2
          <6>4. i - Len(before) \in DOMAIN arrived
            BY <6>1, <6>2, <6>3
          <6>5. (before \o arrived)[i] = arrived[i - Len(before)]
            BY <2>4, <2>5, <6>1, <6>2, <6>3, ConcatProperties
          <6>6. QED
            BY <6>4, <6>5
        <5>2. arrived[i - Len(before)].from = "control"
          BY <2>4, <5>1
        <5>3. QED
          BY <3>1, <3>2, <5>1, <5>2
      <4>3. QED
        BY <4>1, <4>2
    <3> HIDE DEF before, arrived, after
    <3>3. QED
      BY <3>2 DEF Before
  <2>12. /\ InOrder(Taken') /\ NumbersOf("source", Taken') = 1..read
         /\ NumbersOf("control", Taken') = (1..cursor \ Outside) \cup news
    <3> HIDE DEF before, arrived, after, news
    <3>1. InOrder(before \o arrived)
      BY <2>4, <2>5, <2>8, <2>9, <2>10, JoinedOrder
    <3>2. InOrder(Taken')
      BY <2>5, <2>6, <2>8, <2>11, <3>1, JoinedOrder
    <3>3. \A origin : NumbersOf(origin, Taken') =
            NumbersOf(origin, before) \cup NumbersOf(origin, arrived) \cup NumbersOf(origin, after)
      <4>1. ASSUME NEW origin
            PROVE  NumbersOf(origin, Taken') =
                     NumbersOf(origin, before) \cup NumbersOf(origin, arrived) \cup NumbersOf(origin, after)
        <5>1. NumbersOf(origin, Taken') =
                NumbersOf(origin, before \o arrived) \cup NumbersOf(origin, after)
          BY <2>5, <2>6, JoinedNumbers
        <5>2. NumbersOf(origin, before \o arrived) =
                NumbersOf(origin, before) \cup NumbersOf(origin, arrived)
          BY <2>4, <2>5, JoinedNumbers
        <5>3. QED
          BY <5>1, <5>2
      <4>2. QED
        BY <4>1
    <3>4. QED
      BY <2>8, <2>9, <3>2, <3>3
  <2>13. (1..cursor \ Outside) \cup news = 1..cursor' \ Outside
    BY <1>a, <2>1 DEF EventsTyped
  <2>14. EventsTyped'
    BY <1>a, <2>1, <2>4 DEF EventsTyped
  <2>15. QED
    BY <2>1, <2>12, <2>13, <2>14 DEF EventsInv, EventsExact, Taken
<1>3. QED
  BY <1>1, <1>2

(* Once the poller has stopped, all of it is in the world.                 *)
LEMMA DrainedStep ==
  ASSUME EventsInv, Drained, made' \in Nat, latest'.made \in Nat
  PROVE  EventsInv'
<1>1. EventsTyped
  BY DEF EventsInv
<1>2. world \o queue \in Seq(Event) /\ Taken \in Seq(Event)
  BY <1>1, TakenTyped DEF EventsTyped
<1>3. world' = Taken /\ queue' = <<>> /\ results' = <<>> /\ UNCHANGED <<cursor, read>>
  BY DEF Drained, Taken
<1>4. Taken' = Taken
  <2>1. Taken' = Taken \o <<>> \o <<>>
    BY <1>3, NoEvents DEF Taken
  <2>2. Taken \o <<>> = Taken
    BY <1>2
  <2>3. QED
    BY <2>1, <2>2
<1>5. EventsTyped'
  BY <1>1, <1>2, <1>3 DEF EventsTyped
<1>6. QED
  BY <1>3, <1>4, <1>5, MovedOn

(* With other sources, nothing was taken yet.                              *)
LEMMA ReplacedStep ==
  ASSUME EventsInv, Replaced, made' \in Nat, latest'.made \in Nat
  PROVE  EventsInv'
<1>1. Taken' = <<>>
  BY NoEvents DEF Replaced, Taken
<1>2. EventsTyped' /\ cursor' = 0 /\ read' = 0
  BY DEF EventsTyped, Replaced
<1>3. QED
  BY <1>1, <1>2, NoneTaken DEF EventsInv, EventsExact, Taken

(* A result that is queued.                                                *)
LEMMA ResultStep ==
  ASSUME EventsInv, TakeResult
  PROVE  EventsInv'
<1>1. EventsTyped /\ UNCHANGED <<world, cursor, read, made, latest>>
  BY DEF EventsInv, TakeResult, hostVars
<1>2. CASE queue = <<>> /\ results # <<>>
  <2> DEFINE first == Events("source", <<Head(results)>>)
             rest == Events("source", Tail(results))
  <2>1. queue' = first /\ results' = Tail(results)
    BY <1>2 DEF TakeResult
  <2>2. Head(results) \in Nat /\ Tail(results) \in Seq(Nat) /\ <<Head(results)>> \in Seq(Nat)
    BY <1>1, <1>2 DEF EventsTyped
  <2>3. first \in Seq(Event) /\ rest \in Seq(Event)
    BY <2>2, EventsOf DEF Origins
  <2>4. Events("source", results) = first \o rest
    BY <1>1, <1>2 DEF EventsTyped, Events
  <2>5. Taken' = world \o first \o rest /\ Taken = world \o (first \o rest)
    <3> HIDE DEF first
    <3>1. Taken = (world \o <<>>) \o (first \o rest)
      BY <1>2, <2>4 DEF Taken
    <3>2. world \o <<>> = world
      BY <1>1 DEF EventsTyped
    <3>3. QED
      BY <1>1, <2>1, <3>1, <3>2 DEF Taken
  <2>6. Taken' = Taken
    <3> HIDE DEF first, rest
    <3>1. QED
      BY <1>1, <2>3, <2>5, Regrouped DEF EventsTyped
  <2>7. EventsTyped'
    BY <1>1, <2>1, <2>2, <2>3 DEF EventsTyped
  <2>8. QED
    BY <1>1, <2>6, <2>7, MovedOn
<1>3. CASE ~(queue = <<>> /\ results # <<>>)
  <2>1. UNCHANGED <<queue, results>>
    BY <1>3 DEF TakeResult
  <2>2. QED
    BY <1>1, <2>1 DEF EventsInv, EventsTyped, EventsExact
<1>4. QED
  BY <1>2, <1>3

(* Queued events that the world applies.                                   *)
LEMMA ApplyStep ==
  ASSUME EventsInv, Apply
  PROVE  EventsInv'
<1>1. EventsTyped /\ UNCHANGED <<results, cursor, read, made, latest>>
  BY DEF EventsInv, Apply, hostVars
<1>2. PICK n \in 0..Len(queue) : world' = world \o SubSeq(queue, 1, n)
                              /\ queue' = SubSeq(queue, n + 1, Len(queue))
  BY DEF Apply
<1> DEFINE first == SubSeq(queue, 1, n)
           rest == SubSeq(queue, n + 1, Len(queue))
<1>3. first \in Seq(Event) /\ rest \in Seq(Event) /\ world \in Seq(Event)
  BY <1>1 DEF EventsTyped
<1>4. first \o rest = queue
  <2>1. queue \in Seq(Event) /\ 1 \in 1..Len(queue) + 1 /\ n \in (1 - 1)..Len(queue)
        /\ Len(queue) \in n..Len(queue)
    BY <1>1 DEF EventsTyped
  <2>2. first \o rest = SubSeq(queue, 1, Len(queue))
    BY <2>1, ConcatAdjacentSubSeq
  <2>3. SubSeq(queue, 1, Len(queue)) = queue
    BY <2>1
  <2>4. QED
    BY <2>2, <2>3
<1>5. world' \o queue' = world \o queue
  <2> HIDE DEF first, rest
  <2>1. (world \o first) \o rest = world \o queue
    BY <1>3, <1>4, Regrouped
  <2>2. QED
    BY <1>2, <2>1 DEF first, rest
<1>6. Taken' = Taken
  BY <1>1, <1>5 DEF Taken
<1>7. EventsTyped'
  <2> HIDE DEF first, rest
  <2>1. world \o first \in Seq(Event)
    BY <1>3
  <2>2. QED
    BY <1>1, <1>2, <1>3, <2>1 DEF EventsTyped, first, rest
<1>8. QED
  BY <1>1, <1>6, <1>7, MovedOn

(* A receipt leaves the events alone; a console drains them.               *)
LEMMA OutcomeDrains ==
  ASSUME TakeOutcome
  PROVE  \/ UNCHANGED <<made, latest, eventVars>>
         \/ Drained /\ Restarted
<1>1. CASE outcomes = <<>>
  BY <1>1 DEF TakeOutcome, hostVars
<1>2. CASE outcomes # <<>> /\ Head(outcomes).console
  BY <1>2 DEF TakeOutcome
<1>3. CASE outcomes # <<>> /\ ~Head(outcomes).console
  BY <1>3 DEF TakeOutcome
<1>4. QED
  BY <1>1, <1>2, <1>3

(* Every step of the loop and its threads.                                 *)
LEMMA EventsInvStep == EventsInv /\ [LoopNext]_loopVars => EventsInv'
<1> SUFFICES ASSUME EventsInv, [LoopNext]_loopVars PROVE EventsInv'
  OBVIOUS
<1>a. EventsTyped
  BY DEF EventsInv
<1>1. ASSUME UNCHANGED eventVars, made' \in Nat, latest'.made \in Nat PROVE EventsInv'
  BY <1>1 DEF eventVars, EventsInv, EventsTyped, EventsExact
<1>2. CASE UNCHANGED loopVars \/ Quit \/ Execute \/ Submit
  BY <1>1, <1>2, <1>a DEF loopVars, hostVars, Quit, Execute, Submit, EventsTyped
<1>3. CASE Coalesced \/ Command \/ Input \/ Draw
  BY <1>1, <1>3, <1>a DEF hostVars, Coalesced, Command, Input, Draw, EventsTyped
<1>4. CASE Observe
  BY <1>1, <1>4, <1>a, LoopAssumption DEF Observe, EventsTyped
<1>5. CASE Refresh
  <2>1. PICK n \in 0..made, s \in Statuses : latest' = [made |-> n, status |-> s]
    BY <1>5 DEF Refresh
  <2>2. latest'.made \in Nat /\ made' \in Nat
    BY <1>5, <1>a, <2>1 DEF Refresh, EventsTyped
  <2>3. QED
    BY <1>1, <1>5, <2>2 DEF Refresh
<1>6. ASSUME Restarted PROVE made' \in Nat /\ latest'.made \in Nat
  BY <1>6, <1>a DEF Restarted, EventsTyped
<1>7. CASE Sources
  BY <1>6, <1>7, DrainedStep, ReplacedStep DEF Sources
<1>8. CASE TakeOutcome
  BY <1>1, <1>6, <1>8, <1>a, OutcomeDrains, DrainedStep DEF EventsTyped
<1>9. QED
  BY <1>2, <1>3, <1>4, <1>5, <1>7, <1>8, PolledStep, LatestStep, ResultStep, ApplyStep
     DEF LoopNext, Loop

(* No event is lost, repeated or overtaken between the threads that read   *)
(* it and the world (main.rs, run: pending_events and control_cursor).     *)
THEOREM EventsExactCorrect == LoopSpec => []EventsExact
<1>1. LoopInit => EventsInv
  <2> SUFFICES ASSUME LoopInit PROVE EventsInv
    OBVIOUS
  <2>1. Taken = <<>>
    BY NoEvents DEF LoopInit, Taken
  <2>2. EventsTyped
    BY DEF LoopInit, EventsTyped
  <2>3. cursor = 0 /\ read = 0
    BY DEF LoopInit
  <2>4. QED
    BY <2>1, <2>2, <2>3, NoneTaken DEF EventsInv, EventsExact, Taken
<1>2. EventsInv => EventsExact
  BY DEF EventsInv
<1>3. QED
  BY <1>1, <1>2, EventsInvStep, PTL DEF LoopSpec

=============================================================================
