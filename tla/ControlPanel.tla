----------------------------- MODULE ControlPanel -----------------------------
(***************************************************************************)
(* The panel from which tasks are instructed and requests are answered     *)
(* (theywork-render, control.rs, opened by ui_interaction.rs and lib.rs).  *)
(* It keeps a draft for each recipient, follows the selected request from  *)
(* status to status, and lets one command be under way at a time.  What a  *)
(* key does is an action; that a command comes of it is in "command".      *)
(* Editing within a text, scrolling and the project list are left out.     *)
(***************************************************************************)
EXTENDS Naturals, Sequences, SequencesExt

CONSTANTS
  Tasks,     \* workers that can be instructed
  NewTasks,  \* recipients that do not exist yet: provider and project
  Texts,     \* instructions a user may write
  Requests,  \* request IDs
  Questions, \* those that are answered in text; the others offer choices
  WorkerOf,  \* the worker that asks
  Statuses,  \* bound: [requests, able] the host may publish
  None

ASSUME PanelAssumption ==
  /\ None \notin Tasks \cup NewTasks \cup Requests /\ Tasks \cap NewTasks = {}
  /\ Questions \subseteq Requests /\ NewTasks # {}
  /\ WorkerOf \in [Requests -> Tasks]
  /\ \A s \in Statuses : s.requests \in Seq(Requests) /\ s.able \subseteq Tasks

VARIABLES
  open,     \* the panel has the keyboard
  view,     \* composer, requests or connections
  target,   \* a task; None is a new one, or the requests of all
  newTask,  \* the recipient while the target is None
  message,  \* the text in the composer, or None
  drafts,   \* the text remembered for each recipient, or None
  wanted,   \* the composer that the next frame opens (pending_control)
  status,   \* the latest status that was set
  index,    \* request_index, from 1
  expired,  \* expired_selection
  answered, \* questions with all their answers written
  hits,     \* requests whose choices were drawn, when the panel last was
  shown,    \* ghost: those in the last frame
  inline,   \* the composer was drawn into the work panel
  usable,   \* it was drawn in full
  sending,  \* a command is under way
  pending   \* the draft that was sent, [key, text], or None

draftVars == <<target, newTask, message, drafts>>
requestVars == <<status, index, expired, answered>>
drawVars == <<hits, shown, inline, usable>>
sendVars == <<sending, pending>>
panelVars == <<open, view, wanted, draftVars, requestVars, drawVars, sendVars>>

Recipients == Tasks \cup NewTasks

(* A text remembers in "for", which no code reads, whom it was written to. *)
Same(a, b) == a # None /\ b # None /\ a.text = b.text

PanelInit ==
  /\ open = FALSE /\ view = "composer" /\ wanted = None
  /\ target = None /\ newTask \in NewTasks /\ message = None
  /\ drafts = [key \in Recipients |-> None]
  /\ status = [requests |-> <<>>, able |-> {}] /\ index = 1 /\ expired = FALSE
  /\ answered = {} /\ hits = {} /\ shown = {} /\ inline = FALSE /\ usable = FALSE
  /\ sending = FALSE /\ pending = None

-----------------------------------------------------------------------------
Key == IF target = None THEN newTask ELSE target

Asking(worker, requests) ==
  LET mine(r) == worker = None \/ WorkerOf[r] = worker IN SelectSeq(requests, mine)

Listed == Asking(target, status.requests)
InList(i) == IF i <= Len(Listed) THEN i ELSE IF Listed = <<>> THEN 1 ELSE Len(Listed)
Selected == IF index \in DOMAIN Listed THEN Listed[index] ELSE None

(* remember_draft                                                          *)
Remembered == [drafts EXCEPT ![Key] = message]

Composing == open /\ usable /\ ~sending /\ view = "composer"
Reviewing == open /\ usable /\ ~sending /\ view = "requests"

(* show_task and show_new, when the frame is drawn that was asked for.     *)
ShowComposer ==
  /\ wanted # None /\ wanted' = None
  /\ drafts' = Remembered /\ message' = Remembered[wanted]
  /\ target' = IF wanted \in Tasks THEN wanted ELSE None
  /\ newTask' = IF wanted \in Tasks THEN newTask ELSE wanted
  /\ open' = TRUE /\ view' = "composer" /\ expired' = FALSE
  /\ inline' = (wanted \in Tasks) /\ hits' = {} /\ shown' = {} /\ usable' \in BOOLEAN
  /\ UNCHANGED <<status, index, answered, sendVars>>

(* close_panels, or Esc; a button that closes the panel remembers nothing. *)
Closed == open' = FALSE /\ drafts' = IF open THEN Remembered ELSE drafts
Left == open' = FALSE /\ UNCHANGED drafts

Close ==
  /\ open /\ (Closed \/ Left)
  /\ UNCHANGED <<view, wanted, target, newTask, message, requestVars, drawVars, sendVars>>

(* A composer is asked for: 'm', 'n', or the action of a worker.           *)
Ask(key) ==
  /\ Closed /\ wanted' = key
  /\ UNCHANGED <<view, target, newTask, message, requestVars, drawVars, sendVars>>

(* show_requests: the text in the composer stays where it is.              *)
ShowRequests(worker) ==
  /\ drafts' = Remembered /\ target' = worker
  /\ open' = TRUE /\ view' = "requests" /\ index' = 1 /\ expired' = FALSE /\ hits' = {}
  /\ UNCHANGED <<wanted, newTask, message, status, answered, shown, inline, usable, sendVars>>

(* Action::Review of a worker that asks something.                         *)
Review(worker) ==
  Asking(worker, status.requests) # <<>> /\ ShowRequests(worker)

(* F4                                                                      *)
ToggleRequests ==
  /\ open /\ usable /\ ~sending /\ ~inline
  /\ \/ view = "composer" /\ ShowRequests(target)
     \/ /\ view = "requests" /\ view' = "composer"
        /\ UNCHANGED <<open, wanted, draftVars, requestVars, drawVars, sendVars>>

(* show_connections; 'c' shows a panel that is busy as it was.             *)
ShowConnections ==
  /\ open' = TRUE
  /\ \/ view' = "connections" /\ drafts' = Remembered /\ hits' = {}
     \/ ~open /\ sending /\ UNCHANGED <<view, drafts, hits>>
  /\ UNCHANGED <<wanted, target, newTask, message, requestVars, shown, inline, usable, sendVars>>

(* Typing or pasting an instruction; a paste needs no full view.           *)
Write(text) ==
  /\ open /\ ~sending /\ view = "composer" /\ message' = [text |-> text, for |-> Key]
  /\ UNCHANGED <<open, view, wanted, target, newTask, drafts, requestVars, drawVars, sendVars>>

(* Another provider or project for a new task.                             *)
Redirect(key) ==
  /\ Composing /\ target = None /\ key \in NewTasks
  /\ drafts' = Remembered /\ newTask' = key /\ message' = Remembered[key]
  /\ UNCHANGED <<open, view, wanted, target, requestVars, drawVars, sendVars>>

(* The up and down keys on requests.                                       *)
Move ==
  /\ Reviewing
  /\ expired' = FALSE
  /\ index' \in IF expired THEN {index}
               ELSE {IF index > 1 THEN index - 1 ELSE 1, InList(index + 1)}
  /\ UNCHANGED <<open, view, wanted, draftVars, status, answered, drawVars, sendVars>>

(* Writing the answers of a question, or clearing one.  What is pasted is  *)
(* also taken when the selection expired.                                  *)
WriteAnswers ==
  /\ open /\ ~sending /\ view = "requests" /\ Selected \in Questions
  /\ answered' \in {answered \cup {Selected}, answered \ {Selected}}
  /\ UNCHANGED <<open, view, wanted, draftVars, status, index, expired, drawVars, sendVars>>

(* set_status: the selected request is followed, or its selection expires. *)
SetStatus(next) ==
  /\ status' = next
  /\ LET listed == Asking(target, next.requests)
     IN IF Selected = None THEN UNCHANGED <<index, expired>>
        ELSE IF Selected \in ToSet(listed)
        THEN index' = (CHOOSE i \in DOMAIN listed : listed[i] = Selected)
             /\ UNCHANGED expired
        ELSE expired' = TRUE /\ UNCHANGED index
  /\ answered' = answered \cap ToSet(next.requests)

(* draw_in or draw_composer_in, when no composer is asked for.             *)
DrawPanel ==
  /\ wanted = None
  /\ IF ~open THEN shown' = {} /\ UNCHANGED <<hits, inline, usable, index>>
     ELSE /\ usable' \in BOOLEAN
          /\ index' = IF usable' /\ view = "requests" THEN InList(index) ELSE index
          /\ inline' = (view = "composer" /\ target # None)
          /\ \/ hits' = {}
             \/ /\ usable' /\ view = "requests" /\ ~sending /\ ~expired
                /\ Selected \in Requests \ Questions /\ hits' = {Selected}
          /\ shown' = hits'
  /\ UNCHANGED <<open, view, wanted, draftVars, status, expired, answered, sendVars>>

-----------------------------------------------------------------------------
(* Commands.                                                               *)

(* Send and Start: F5                                                      *)
SendDraft ==
  /\ Composing /\ message # None
  /\ target # None => target \in status.able
  /\ sending' = TRUE /\ pending' = [key |-> Key, text |-> message]
  /\ drafts' = Remembered
  /\ UNCHANGED <<open, view, wanted, target, newTask, message, requestVars, drawVars>>

(* Wrong: what is selected now is chosen, seen or not.                     *)
ChooseUnseen ==
  /\ Reviewing /\ ~expired /\ Selected \in Requests \ Questions
  /\ sending' = TRUE
  /\ UNCHANGED <<open, view, wanted, draftVars, requestVars, drawVars, pending>>

(* A number key, or a button of the last frame, which is revalidated.      *)
Choose ==
  /\ Reviewing /\ ~expired /\ Selected \in Requests \ Questions
  /\ Selected \in hits
  /\ sending' = TRUE
  /\ UNCHANGED <<open, view, wanted, draftVars, requestVars, drawVars, pending>>

(* F5 on a question                                                        *)
SubmitAnswers ==
  /\ Reviewing /\ ~expired /\ Selected \in Questions \cap answered
  /\ sending' = TRUE
  /\ UNCHANGED <<open, view, wanted, draftVars, requestVars, drawVars, pending>>

(* Interrupt, OpenNative and Reconnect of a task that accepts them, and a  *)
(* Login from the connections: none carries a draft.                       *)
Direct ==
  /\ ~sending /\ (status.able # {} \/ (open /\ usable /\ view = "connections"))
  /\ sending' = TRUE
  /\ UNCHANGED <<open, view, wanted, draftVars, requestVars, drawVars, pending>>

(* Wrong: whatever the composer holds is what was sent.                    *)
CompletedAnything(accepted) ==
  /\ sending' = FALSE /\ pending' = None
  /\ IF pending # None /\ accepted
     THEN drafts' = [drafts EXCEPT ![Key] = None] /\ message' = None
     ELSE UNCHANGED <<drafts, message>>

(* complete: a confirmed draft is cleared where it is unchanged.           *)
Completed(accepted) ==
  /\ sending' = FALSE /\ pending' = None
  /\ IF pending # None /\ accepted
     THEN LET sent == pending.text
              here == Key = pending.key /\ Same(message, sent)
              kept == [drafts EXCEPT ![pending.key] = IF Same(@, sent) THEN None ELSE @]
          IN /\ message' = IF here THEN None ELSE message
             /\ drafts' = IF here THEN [kept EXCEPT ![Key] = None] ELSE kept
     ELSE UNCHANGED <<drafts, message>>

-----------------------------------------------------------------------------
Remembering == \A key \in Recipients : drafts[key] # None => drafts[key].for = key

AtRecipients == Remembering /\ (message # None => message.for = Key)

(* A text is shown to, remembered for and sent to the recipient it was     *)
(* written for (docs/CONTROLS.md: "The displayed recipient stays attached  *)
(* to the draft"), whatever is opened, reviewed and closed in between.     *)
DraftKeepsRecipient == Remembering /\ (Composing /\ message # None => message.for = Key)

=============================================================================
