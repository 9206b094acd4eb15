------------------------------ MODULE OfficeLoop ------------------------------
(***************************************************************************)
(* The loop of the terminal host (theywork-tui, main.rs, run) with the two *)
(* threads that feed it: the poller of the sources, and the control host   *)
(* (control_host.rs), which publishes the latest snapshot and executes one *)
(* command after the other.  The loop takes input, then what the threads   *)
(* have to say, applies some events and draws.  Choosing other sources, or *)
(* lending the terminal to a console, stops and replaces both threads.     *)
(***************************************************************************)
EXTENDS ControlPanel

CONSTANTS
  MaxMade,  \* bound: control events
  MaxRead,  \* bound: events of the sources
  Outside   \* numbers of control events outside the selected projects

ASSUME LoopAssumption == MaxMade \in Nat /\ MaxRead \in Nat /\ Outside \subseteq Nat

VARIABLES
  pc,       \* where the loop is
  made,     \* control events that the supervisor observed
  latest,   \* what the control host published: [made, status]
  unseen,   \* its revision differs from control_revision
  jobs,     \* commands on their way to the control host
  outcomes, \* its outcomes on their way back
  cursor,   \* control_cursor: the last control event taken
  read,     \* events that the sources returned
  results,  \* those on their way to the loop
  queue,    \* pending_events
  world     \* events that the world applied, in order

hostVars == <<made, latest, unseen, jobs, outcomes>>
eventVars == <<cursor, read, results, queue, world>>
loopVars == <<panelVars, pc, hostVars, eventVars>>

LoopInit ==
  /\ PanelInit /\ pc = "input"
  /\ made = 0 /\ latest = [made |-> 0, status |-> status] /\ unseen = FALSE
  /\ jobs = <<>> /\ outcomes = <<>>
  /\ cursor = 0 /\ read = 0 /\ results = <<>> /\ queue = <<>>
  /\ world = <<>>

-----------------------------------------------------------------------------
(* The threads.                                                            *)

Observe ==
  /\ made < MaxMade /\ made' = made + 1
  /\ UNCHANGED <<panelVars, pc, latest, unseen, jobs, outcomes, eventVars>>

(* Host::start: a refresh, of the live host or of saved state, which may   *)
(* be behind.                                                              *)
Refresh ==
  /\ \E n \in 0..made, s \in Statuses : latest' = [made |-> n, status |-> s]
  /\ unseen' = TRUE
  /\ UNCHANGED <<panelVars, pc, made, jobs, outcomes, eventVars>>

(* execute: a receipt, which may clear the draft of Send and Start, or a   *)
(* console to open.                                                        *)
Execute ==
  /\ jobs # <<>> /\ jobs' = Tail(jobs)
  /\ \E console \in BOOLEAN, confirmed \in BOOLEAN :
       /\ confirmed => Head(jobs).draft
       /\ outcomes' = Append(outcomes, [console |-> console, confirmed |-> confirmed])
  /\ UNCHANGED <<panelVars, pc, made, latest, unseen, eventVars>>

(* Poller::start: one poll of the sources.                                 *)
Poll ==
  /\ read < MaxRead /\ read' = read + 1 /\ results' = Append(results, read + 1)
  /\ UNCHANGED <<panelVars, pc, hostVars, cursor, queue, world>>

-----------------------------------------------------------------------------
Events(origin, numbers) == [i \in DOMAIN numbers |-> [from |-> origin, number |-> numbers[i]]]

(* The numbers of a finite set, one after the other.                       *)
Increasing(S) ==
  CHOOSE s \in [1..Cardinality(S) -> S] : \A i, j \in DOMAIN s : i < j => s[i] < s[j]

(* A key that moves the selection, or a paste: the next one is taken in    *)
(* the same batch.                                                         *)
Coalesced ==
  /\ pc = "input" /\ (Move \/ \E text \in Texts : Write(text))
  /\ UNCHANGED <<pc, hostVars, eventVars>>

(* Any other input that is no command, or none: the batch ends.            *)
Input ==
  /\ pc = "input" /\ pc' = "results"
  /\ \/ \E key \in Recipients : Ask(key) \/ Redirect(key)
     \/ \E worker \in Tasks : Review(worker)
     \/ \E text \in Texts : Write(text)
     \/ Close \/ ToggleRequests \/ ShowConnections \/ WriteAnswers
     \/ UNCHANGED panelVars
  /\ UNCHANGED <<hostVars, eventVars>>

(* A command, and what becomes of it next: "submit".                       *)
Command ==
  /\ pc = "input" /\ pc' = "submit"
  /\ SendDraft \/ Choose \/ SubmitAnswers \/ Direct
  /\ UNCHANGED <<hostVars, eventVars>>

(* Host::submit; a command may be refused for want of an identity, or as   *)
(* out of scope: then the batch goes on.                                   *)
Submit ==
  /\ pc = "submit"
  /\ \/ /\ jobs' = Append(jobs, [draft |-> pending # None]) /\ pc' = "results"
        /\ UNCHANGED panelVars
     \/ /\ Completed(FALSE) /\ UNCHANGED jobs /\ pc' \in {"input", "results"}
        /\ UNCHANGED <<open, view, wanted, target, newTask, requestVars, drawVars>>
  /\ UNCHANGED <<made, latest, unseen, outcomes, eventVars>>

(* Quit, a termination signal or an error.                                 *)
Quit == pc # "ended" /\ pc' = "ended" /\ UNCHANGED <<panelVars, hostVars, eventVars>>

(* New threads: the old host takes its commands and outcomes with it.      *)
Restarted ==
  /\ latest' = [made |-> 0, status |-> [requests |-> <<>>, able |-> {}]]
  /\ unseen' = FALSE /\ jobs' = <<>> /\ outcomes' = <<>> /\ UNCHANGED made

(* Wrong: what is queued is dropped.                                       *)
DrainedDropping ==
  /\ world' = world \o Events("source", results)
  /\ queue' = <<>> /\ results' = <<>> /\ UNCHANGED <<cursor, read>>

(* The poller has stopped: what is queued is applied, then what it sent.   *)
Drained ==
  /\ world' = world \o queue \o Events("source", results)
  /\ queue' = <<>> /\ results' = <<>> /\ UNCHANGED <<cursor, read>>

(* build_runtime                                                           *)
Replaced ==
  /\ world' = <<>> /\ read' = 0 /\ cursor' = 0
  /\ queue' = <<>> /\ results' = <<>>

(* Wrong: the sources are changed while a command is under way.            *)
SourcesWhileSending ==
  /\ pc = "input" /\ pc' = "results"
  /\ Closed \/ Left
  /\ Drained \/ Replaced
  /\ Restarted
  /\ UNCHANGED <<view, wanted, target, newTask, message, requestVars, drawVars, sendVars>>

(* Sources, cancelled or with another connection: not while a command is   *)
(* under way.                                                              *)
Sources ==
  /\ pc = "input" /\ pc' = "results" /\ ~sending
  /\ Closed \/ Left
  /\ Drained \/ Replaced
  /\ Restarted
  /\ UNCHANGED <<view, wanted, target, newTask, message, requestVars, drawVars, sendVars>>

(* A result of the poller, when nothing is queued.                         *)
TakeResult ==
  /\ pc = "results" /\ pc' = "latest"
  /\ IF queue = <<>> /\ results # <<>>
     THEN queue' = Events("source", <<Head(results)>>) /\ results' = Tail(results)
     ELSE UNCHANGED <<queue, results>>
  /\ UNCHANGED <<panelVars, hostVars, cursor, read, world>>

(* latest_since: the status is set, the new events are queued, the cursor  *)
(* moves on.                                                               *)
TakeLatest ==
  /\ pc = "latest" /\ pc' = "outcomes" /\ unseen' = FALSE
  /\ IF unseen
     THEN /\ SetStatus(latest.status)
          /\ LET news == (cursor + 1)..latest.made \ Outside
             IN queue' = queue \o Events("control", Increasing(news))
          /\ cursor' = IF latest.made > cursor THEN latest.made ELSE cursor
     ELSE UNCHANGED <<requestVars, queue, cursor>>
  /\ UNCHANGED <<open, view, wanted, draftVars, drawVars, sendVars>>
  /\ UNCHANGED <<made, latest, jobs, outcomes, read, results, world>>

(* drain: a receipt completes the command; a console takes the terminal    *)
(* until the user comes back, and completes it then.                       *)
TakeOutcome ==
  /\ pc = "outcomes"
  /\ IF outcomes = <<>> THEN pc' = "apply" /\ UNCHANGED <<panelVars, hostVars, eventVars>>
     ELSE LET outcome == Head(outcomes)
          IN /\ pc' = "outcomes"
             /\ IF outcome.console
                THEN /\ Drained /\ Restarted
                     /\ \E success \in BOOLEAN : Completed(success /\ outcome.confirmed)
                ELSE /\ Completed(outcome.confirmed)
                     /\ outcomes' = Tail(outcomes)
                     /\ UNCHANGED <<made, latest, unseen, jobs, eventVars>>
             /\ UNCHANGED <<open, view, wanted, target, newTask, requestVars, drawVars>>

(* Up to 256 events, or what 4 ms allow.                                   *)
Apply ==
  /\ pc = "apply" /\ pc' = "draw"
  /\ \E n \in 0..Len(queue) :
       /\ n > 0 \/ queue = <<>>
       /\ world' = world \o SubSeq(queue, 1, n)
       /\ queue' = SubSeq(queue, n + 1, Len(queue))
  /\ UNCHANGED <<panelVars, hostVars, cursor, read, results>>

(* A frame is due after any of this; a round in which there was no input,  *)
(* nothing new and no time for a frame changes nothing and is left out.    *)
Draw ==
  /\ pc = "draw" /\ pc' = "input"
  /\ ShowComposer \/ DrawPanel
  /\ UNCHANGED <<hostVars, eventVars>>

Loop == Input \/ Submit \/ TakeResult \/ TakeLatest \/ TakeOutcome \/ Apply \/ Draw

LoopNext ==
  \/ Observe \/ Refresh \/ Execute \/ Poll
  \/ Coalesced \/ Command \/ Sources \/ Quit \/ Loop

(* A batch of input is bounded, so that the loop goes round; the control   *)
(* host serves its channel.                                                *)
LoopFairness == WF_loopVars(Loop) /\ WF_loopVars(Execute)

LoopSpec == LoopInit /\ [][LoopNext]_loopVars /\ LoopFairness

-----------------------------------------------------------------------------
(* No event is lost, repeated or overtaken on its way to the world, though *)
(* the cursor moves on before the events are applied: what the world shows,*)
(* what is queued and what the poller sent are, origin by origin, exactly  *)
(* the events that were taken or read, in their order.                     *)
InOrder(events) ==
  \A i, j \in DOMAIN events :
    i < j /\ events[i].from = events[j].from => events[i].number < events[j].number
NumbersOf(origin, events) ==
  {events[i].number : i \in {k \in DOMAIN events : events[k].from = origin}}
EventsExact ==
  LET taken == world \o queue \o Events("source", results)
  IN /\ InOrder(taken)
     /\ NumbersOf("control", taken) = 1..cursor \ Outside
     /\ NumbersOf("source", taken) = 1..read

(* A choice is only ever made of the request that the last frame showed as *)
(* the selected one, however the list changed since, and though the panel  *)
(* may be closed and come back with what it had drawn when it was open.    *)
ChoiceWasShown ==
  [][Choose => Selected \in shown]_loopVars

(* A receipt never erases an instruction other than the one it confirms,   *)
(* whichever drafts were opened since it was sent, as long as each text is *)
(* with the recipient it was written to.                                   *)
ReceiptClearsOnlySent ==
  [][sending /\ ~sending' /\ AtRecipients =>
       \A key \in Recipients :
         drafts'[key] # drafts[key] => key = pending.key /\ Same(drafts[key], pending.text)]_loopVars

(* Every command comes to an end, unless the user quits: nothing that      *)
(* stops or replaces the control host leaves the panel waiting.            *)
SendingEnds == sending ~> ~sending \/ pc = "ended"

=============================================================================
