--------------------------- MODULE ProviderSession ---------------------------
(***************************************************************************)
(* Conversations, turns, approval requests and the provider connection     *)
(* (theywork-control, supervisor.rs: Host::execute, provider, set_turn and *)
(* apply_event, over the transport of rpc.rs).                             *)
(*                                                                         *)
(* Two threads of the host share the state mutex: the handler of the one   *)
(* operation that holds `mutations`, which releases the mutex between its  *)
(* steps, and the event thread of the current connection.  Answers go      *)
(* straight to the handler while events queue in a channel, so the host    *)
(* may learn of an answer before or after the events that belong to it.    *)
(* The provider may die at any moment; the end of its output is the last   *)
(* message in the channel.                                                 *)
(*                                                                         *)
(* Receipts and saves are module Admission; a save that fails inside       *)
(* execute, or a provider that cannot be launched, is a choice here.       *)
(***************************************************************************)
EXTENDS Naturals, Sequences, SequencesExt, FiniteSets

CONSTANTS
  Mains,         \* conversations the host may create
  Children,      \* conversations a provider may spawn from them
  MaxTurn,       \* bound: turns a provider starts
  MaxConnection, \* bound: provider processes launched
  MaxRequest,    \* bound: server requests per connection
  RequestLimit,  \* pending requests the host keeps (64)
  WindowLimit,   \* provider events the host keeps (256)
  OutboxLimit,   \* bound: commands written and not yet read
  QueueLimit,    \* bound: events in the channel before optional ones stop
  NoThread       \* no conversation

Threads == Mains \cup Children
Turns == 1..MaxTurn
NoTurn == 0
Connections == 1..MaxConnection
Natives == 1..MaxRequest

ASSUME BoundsAssumption ==
  /\ MaxTurn \in Nat /\ MaxConnection \in Nat /\ MaxRequest \in Nat
  /\ RequestLimit \in Nat /\ WindowLimit \in Nat \ {0} /\ QueueLimit \in Nat
  /\ OutboxLimit \in Nat \ {0}
ASSUME ThreadsAssumption == Mains \cap Children = {} /\ NoThread \notin Threads

Pending == [conn: Connections, native: Natives, thread: Threads, turn: Turns,
            sent: BOOLEAN]

VARIABLES
  \* ControlSnapshot
  known,       \* threads the snapshot lists
  managed,     \* those with the durable ownership proof
  authority,   \* those whose capabilities allow sending
  active,      \* Threads -> active_turn_id
  pending,     \* pending_requests
  window,      \* retained events, as far as set_turn looks at them
  connected,   \* ControlSnapshot.connected
  conn,        \* connection_generation; 0 before the first launch
  queue,       \* channel from the reader thread to the event thread
  \* the handler that holds `mutations`
  pc,          \* where it is
  op,          \* the operation: kind, thread, expected turn, request
  seen,        \* the active turn it copied from the snapshot
  answer,      \* what its waiter has received
  \* the provider process of connection conn
  alive,       \* it runs
  commands,    \* what the host wrote and it has not read
  loaded,      \* threads started or resumed in it
  running,     \* Threads -> the turn it runs
  asked,       \* its unresolved requests
  created,     \* threads it ever created (kept on its disk)
  turns,       \* turns it ever started
  requests,    \* requests it ever made in this connection
  \* for the properties only
  written,     \* every reply the host wrote: for which request, on which
               \* connection
  missed       \* turns whose completion left the window while the handler
               \* held their acknowledgement

snapshotVars == <<known, managed, authority, active, pending, window, connected>>
handlerVars == <<pc, op, seen, answer>>
providerVars == <<alive, commands, loaded, running, asked, created, turns, requests>>
vars == <<snapshotVars, conn, queue, handlerVars, providerVars, written, missed>>

Kinds == {"start", "send", "interrupt", "reply", "reconnect"}
NoOp == [kind |-> "none"]
NoAnswer == [result |-> "none", turn |-> NoTurn]

Event(method, thread, turn, ref) ==
  [method |-> method, thread |-> thread, turn |-> turn, ref |-> ref]

Init ==
  /\ known = {} /\ managed = {} /\ authority = {}
  /\ active = [t \in Threads |-> NoTurn]
  /\ pending = {} /\ window = <<>>
  /\ connected = FALSE /\ conn = 0 /\ queue = <<>>
  /\ pc = "idle" /\ op = NoOp /\ seen = NoTurn /\ answer = NoAnswer
  /\ alive = FALSE /\ commands = <<>> /\ loaded = {}
  /\ running = [t \in Threads |-> NoTurn]
  /\ asked = {} /\ created = {} /\ turns = 0 /\ requests = 0
  /\ written = <<>> /\ missed = {}

-----------------------------------------------------------------------------
(* The handler.  An operation that fails or ends leaves its receipt to     *)
(* Admission and the handler idle.                                         *)

Done == pc' = "idle" /\ op' = NoOp /\ seen' = NoTurn /\ answer' = NoAnswer

(* Host::provider: reuse the transport iff the snapshot says connected,    *)
(* else replace it.  The old process has ended and its channel is empty.   *)
Connect ==
  /\ conn < MaxConnection
  /\ conn' = conn + 1
  /\ connected' = TRUE
  /\ alive' = TRUE

Reuse == UNCHANGED <<conn, connected, alive>>

(* Obtain the transport and write one command to it.  A dead process reads *)
(* nothing.                                                                *)
Write(command) ==
  /\ \/ connected /\ Reuse
     \/ ~connected /\ Connect
  /\ Len(commands) < OutboxLimit
  /\ commands' = IF alive' THEN Append(commands, command) ELSE commands
  /\ UNCHANGED <<queue, loaded, running, asked, created, turns, requests>>

Command(kind, thread, turn, ref) ==
  [kind |-> kind, thread |-> thread, turn |-> turn, ref |-> ref, awaited |-> TRUE]

Await(next) == pc' = next /\ answer' = NoAnswer

(* provider() or an earlier check fails, or the wait ends with an error, a *)
(* timeout or a closed connection: nothing else of the snapshot changes.   *)
(* The waiter is gone: a late answer to an abandoned command is dropped.   *)
Abandoned == [i \in DOMAIN commands |-> [commands[i] EXCEPT !.awaited = FALSE]]

GiveUp ==
  /\ pc # "idle"
  /\ Done
  /\ commands' = Abandoned
  /\ UNCHANGED <<snapshotVars, conn, queue, alive, loaded, running, asked,
                 created, turns, requests, written, missed>>

(* Start: thread/start, then record the conversation, then turn/start.     *)
BeginStart(t) ==
  /\ pc = "idle" /\ t \notin created
  /\ op' = [kind |-> "start", thread |-> t, turn |-> NoTurn]
  /\ seen' = NoTurn
  /\ Await("starting")
  /\ Write(Command("thread/start", t, NoTurn, 0))
  /\ UNCHANGED <<known, managed, authority, active, pending, window, written, missed>>

(* register_thread.                                                        *)
RegisterThread ==
  /\ pc = "starting" /\ answer.result = "ok"
  /\ known' = known \cup {op.thread}
  /\ managed' = managed \cup {op.thread}
  /\ authority' = authority \cup {op.thread}
  /\ active' = [active EXCEPT ![op.thread] = NoTurn]
  /\ pc' = "registered"
  /\ UNCHANGED <<pending, window, connected, conn, queue, op, seen, answer,
                 providerVars, written, missed>>

(* Start's own call uses the transport it already holds.                   *)
StartTurn ==
  /\ pc = "registered"
  /\ Await("turning")
  /\ Len(commands) < OutboxLimit
  /\ commands' = IF alive
       THEN Append(commands, Command("turn/start", op.thread, NoTurn, 0))
       ELSE commands
  /\ UNCHANGED <<snapshotVars, conn, queue, op, seen, alive, loaded, running,
                 asked, created, turns, requests, written, missed>>

(* Send and Interrupt first look at the conversation (controlled_thread).  *)
BeginControlled(kind, t, turn) ==
  /\ pc = "idle" /\ t \in authority
  /\ kind = "interrupt" => turn # NoTurn /\ active[t] = turn
  /\ op' = [kind |-> kind, thread |-> t, turn |-> turn]
  /\ seen' = active[t]
  /\ pc' = "checked" /\ answer' = NoAnswer
  /\ UNCHANGED <<snapshotVars, conn, queue, providerVars, written, missed>>

(* Then provider(), and only then the comparison with the copied turn.     *)
WriteSend ==
  /\ pc = "checked" /\ op.kind = "send"
  /\ seen = op.turn
  /\ Await("turning")
  /\ Write(Command(IF op.turn = NoTurn THEN "turn/start" ELSE "turn/steer",
                   op.thread, op.turn, 0))
  /\ UNCHANGED <<known, managed, authority, active, pending, window, op, seen,
                 written, missed>>

(* The comparison fails after provider() may have launched a process.      *)
TurnChanged ==
  /\ pc = "checked" /\ op.kind = "send"
  /\ seen # op.turn
  /\ ~connected /\ Connect
  /\ Done
  /\ UNCHANGED <<known, managed, authority, active, pending, window, queue,
                 commands, loaded, running, asked, created, turns, requests, written, missed>>

WriteInterrupt ==
  /\ pc = "checked" /\ op.kind = "interrupt"
  /\ Await("confirming")
  /\ Write(Command("turn/interrupt", op.thread, op.turn, 0))
  /\ UNCHANGED <<known, managed, authority, active, pending, window, op, seen,
                 written, missed>>

(* set_turn: the acknowledged turn is active unless its completion is      *)
(* already among the retained events.                                      *)
Completed(t, turn) ==
  \E i \in DOMAIN window : window[i] = [thread |-> t, turn |-> turn]

(* Wrong: take the acknowledged turn as active whatever was completed.     *)
SetTurnIgnoringWindow ==
  /\ pc = "turning" /\ answer.result = "ok"
  /\ active' = [active EXCEPT ![op.thread] = answer.turn]
  /\ Done
  /\ UNCHANGED <<known, managed, authority, pending, window, connected, conn,
                 queue, providerVars, written, missed>>

SetTurn ==
  /\ pc = "turning" /\ answer.result = "ok"
  /\ active' = [active EXCEPT ![op.thread] =
       IF Completed(op.thread, answer.turn) THEN NoTurn ELSE answer.turn]
  /\ Done
  /\ UNCHANGED <<known, managed, authority, pending, window, connected, conn,
                 queue, providerVars, written, missed>>

InterruptConfirmed ==
  /\ pc = "confirming" /\ answer.result = "ok"
  /\ Done
  /\ UNCHANGED <<snapshotVars, conn, queue, providerVars, written, missed>>

(* Wrong: a request that was answered may be answered again.               *)
BeginReplyAgain(request) ==
  /\ pc = "idle"
  /\ request \in pending
  /\ request.thread \in authority
  /\ request.turn = active[request.thread]
  /\ op' = [kind |-> "reply", thread |-> request.thread, turn |-> request.turn,
            request |-> request]
  /\ seen' = request.turn
  /\ pc' = "replying" /\ answer' = NoAnswer
  /\ UNCHANGED <<snapshotVars, conn, queue, providerVars, written, missed>>

(* Reply: the request is copied and checked, then marked, saved, and       *)
(* provider() is asked for a transport.                                    *)
BeginReply(request) ==
  /\ pc = "idle"
  /\ request \in pending /\ ~request.sent
  /\ request.thread \in authority
  /\ request.turn = active[request.thread]
  /\ op' = [kind |-> "reply", thread |-> request.thread, turn |-> request.turn,
            request |-> request]
  /\ seen' = request.turn
  /\ pc' = "replying" /\ answer' = NoAnswer
  /\ UNCHANGED <<snapshotVars, conn, queue, providerVars, written, missed>>

MarkSent ==
  /\ pc = "replying"
  /\ pending' = {IF p.conn = op.request.conn /\ p.native = op.request.native
                 THEN [p EXCEPT !.sent = TRUE] ELSE p : p \in pending}
  /\ pc' = "marked"
  /\ UNCHANGED <<known, managed, authority, active, window, connected, conn,
                 queue, op, seen, answer, providerVars, written, missed>>

WriteReply ==
  /\ pc = "marked"
  /\ Write(Command("reply", op.thread, op.turn, op.request.native))
  /\ written' = Append(written, [conn |-> op.request.conn,
                                 native |-> op.request.native, on |-> conn'])
  /\ Done
  /\ UNCHANGED <<known, managed, authority, active, pending, window, missed>>

(* Wrong: any conversation the snapshot lists may be resumed.              *)
BeginReconnectKnown(t) ==
  /\ pc = "idle" /\ t \in known
  /\ active[t] = NoTurn
  /\ op' = [kind |-> "reconnect", thread |-> t, turn |-> NoTurn]
  /\ seen' = NoTurn
  /\ Await("resuming")
  /\ Write(Command("thread/resume", t, NoTurn, 0))
  /\ UNCHANGED <<known, managed, authority, active, pending, window, written, missed>>

(* Reconnect: only an owned conversation without a live turn.              *)
BeginReconnect(t) ==
  /\ pc = "idle" /\ t \in managed
  /\ active[t] = NoTurn
  /\ op' = [kind |-> "reconnect", thread |-> t, turn |-> NoTurn]
  /\ seen' = NoTurn
  /\ Await("resuming")
  /\ Write(Command("thread/resume", t, NoTurn, 0))
  /\ UNCHANGED <<known, managed, authority, active, pending, window, written, missed>>

Resumed ==
  /\ pc = "resuming" /\ answer.result = "ok"
  /\ authority' = authority \cup {op.thread}
  /\ Done
  /\ UNCHANGED <<known, managed, active, pending, window, connected, conn,
                 queue, providerVars, written, missed>>

-----------------------------------------------------------------------------
(* The event thread: apply_event on the next message.                      *)

(* What set_turn can tell of a retained event: the turn it completes.      *)
Mark(event) ==
  IF event.method = "turn/completed" THEN [thread |-> event.thread, turn |-> event.turn]
  ELSE [thread |-> NoThread, turn |-> NoTurn]

Retain(event) ==
  LET all == Append(window, Mark(event)) IN
  IF Len(all) > WindowLimit THEN Tail(all) ELSE all

(* The oldest event makes room, and it completes the turn that set_turn is *)
(* about to show.                                                          *)
DropsAwaited ==
  /\ Len(window) = WindowLimit
  /\ pc = "turning" /\ answer.result = "ok"
  /\ Head(window) = [thread |-> op.thread, turn |-> answer.turn]

(* The end of the output.                                                  *)
ApplyDisconnect ==
  /\ queue # <<>> /\ Head(queue).method = "eof"
  /\ connected' = FALSE
  /\ pending' = {}
  /\ authority' = {}
  /\ active' = [t \in Threads |-> NoTurn]
  /\ queue' = Tail(queue)
  /\ UNCHANGED <<known, managed, window, conn, handlerVars, providerVars, written, missed>>

(* A spawn item of a known conversation makes its children known.          *)
ApplySpawn(event) ==
  /\ known' = IF event.thread \in known THEN known \cup {event.ref} ELSE known
  /\ UNCHANGED <<pending, active>>

ApplyRequest(event) ==
  /\ pending' =
       IF Cardinality(pending) < RequestLimit
       THEN pending \cup {[conn |-> conn, native |-> event.ref,
                           thread |-> event.thread, turn |-> event.turn,
                           sent |-> FALSE]}
       ELSE pending
  /\ UNCHANGED <<known, active>>

ApplyResolved(event) ==
  /\ pending' = {p \in pending : p.native # event.ref}
  /\ UNCHANGED <<known, active>>

ApplyStarted(event) ==
  /\ IF event.thread \in known
     THEN /\ active' = [active EXCEPT ![event.thread] = event.turn]
          /\ pending' = {p \in pending :
                           p.thread # event.thread \/ p.turn = event.turn}
     ELSE UNCHANGED <<active, pending>>
  /\ UNCHANGED known

(* Wrong: a completion leaves the approvals of its turn on offer.          *)
ApplyCompletedKeepingRequests(event) ==
  /\ active' = [active EXCEPT ![event.thread] =
       IF event.thread \in known /\ @ = event.turn THEN NoTurn ELSE @]
  /\ UNCHANGED <<known, pending>>

ApplyCompleted(event) ==
  /\ IF event.thread \in known
     THEN /\ active' = [active EXCEPT ![event.thread] =
               IF @ = event.turn THEN NoTurn ELSE @]
          /\ pending' = {p \in pending :
                           p.thread # event.thread \/ p.turn # event.turn}
     ELSE UNCHANGED <<active, pending>>
  /\ UNCHANGED known

ApplyOther(event) == UNCHANGED <<known, active, pending>>

ApplyEvent ==
  /\ queue # <<>> /\ Head(queue).method # "eof"
  /\ LET event == Head(queue) IN
       /\ CASE event.method = "spawn" -> ApplySpawn(event)
            [] event.method = "request" -> ApplyRequest(event)
            [] event.method = "resolved" -> ApplyResolved(event)
            [] event.method = "turn/started" -> ApplyStarted(event)
            [] event.method = "turn/completed" -> ApplyCompleted(event)
            [] OTHER -> ApplyOther(event)
       /\ window' = Retain(event)
  /\ queue' = Tail(queue)
  /\ missed' = missed \cup (IF DropsAwaited THEN {answer.turn} ELSE {})
  /\ UNCHANGED <<managed, authority, connected, conn, handlerVars, providerVars,
                 written>>

-----------------------------------------------------------------------------
(* The provider process (external), as the host uses it.  It reads one     *)
(* command at a time, in order, and its events leave in order.             *)

Deliver(command, result, turn) ==
  answer' = IF command.awaited /\ pc \in {"starting", "turning", "confirming", "resuming"}
            THEN [result |-> result, turn |-> turn] ELSE answer

Read(command) ==
  /\ alive /\ commands # <<>> /\ command = Head(commands)
  /\ commands' = Tail(commands)
  /\ UNCHANGED <<snapshotVars, conn, pc, op, seen, alive, written, missed>>

AcceptThread(command) ==
  /\ command.kind \in {"thread/start", "thread/resume"}
  /\ command.kind = "thread/resume" => command.thread \in created
  /\ created' = created \cup {command.thread}
  /\ loaded' = loaded \cup {command.thread}
  /\ Deliver(command, "ok", NoTurn)
  /\ UNCHANGED <<queue, running, asked, turns, requests>>

AcceptTurn(command) ==
  /\ command.kind = "turn/start"
  /\ command.thread \in loaded /\ running[command.thread] = NoTurn
  /\ turns < MaxTurn
  /\ turns' = turns + 1
  /\ running' = [running EXCEPT ![command.thread] = turns + 1]
  /\ queue' = Append(queue, Event("turn/started", command.thread, turns + 1, 0))
  /\ Deliver(command, "ok", turns + 1)
  /\ UNCHANGED <<loaded, asked, created, requests>>

AcceptSteer(command) ==
  /\ command.kind \in {"turn/steer", "turn/interrupt"}
  /\ running[command.thread] = command.turn
  /\ Deliver(command, "ok", command.turn)
  /\ UNCHANGED <<queue, loaded, running, asked, created, turns, requests>>

AcceptReply(command) ==
  /\ command.kind = "reply"
  /\ asked' = {r \in asked : r.native # command.ref}
  /\ queue' = IF asked' # asked
              THEN Append(queue, Event("resolved", command.thread, NoTurn, command.ref))
              ELSE queue
  /\ UNCHANGED <<loaded, running, created, turns, requests, answer>>

RefuseCommand(command) ==
  /\ command.kind # "reply"
  /\ Deliver(command, "error", NoTurn)
  /\ UNCHANGED <<queue, loaded, running, asked, created, turns, requests>>

Serve ==
  \E command \in ToSet(commands) :
    /\ Read(command)
    /\ \/ AcceptThread(command) \/ AcceptTurn(command) \/ AcceptSteer(command)
       \/ AcceptReply(command) \/ RefuseCommand(command)

Emit(event) ==
  /\ alive
  /\ queue' = Append(queue, event)
  /\ UNCHANGED <<snapshotVars, conn, handlerVars, alive, commands, loaded,
                 created, written, missed>>

FinishTurn(t) ==
  /\ running[t] # NoTurn
  /\ Emit(Event("turn/completed", t, running[t], 0))
  /\ running' = [running EXCEPT ![t] = NoTurn]
  /\ asked' = {r \in asked : r.thread # t}
  /\ UNCHANGED <<turns, requests>>

Ask(t) ==
  /\ Len(queue) < QueueLimit
  /\ running[t] # NoTurn /\ requests < MaxRequest
  /\ requests' = requests + 1
  /\ asked' = asked \cup {[native |-> requests + 1, thread |-> t]}
  /\ Emit(Event("request", t, running[t], requests + 1))
  /\ UNCHANGED <<running, turns>>

(* The provider spawns a child conversation, which runs its own turn.      *)
Spawn(t, child) ==
  /\ Len(queue) < QueueLimit
  /\ t \in Mains /\ running[t] # NoTurn
  /\ Emit(Event("spawn", t, running[t], child))
  /\ UNCHANGED <<running, asked, turns, requests>>

ChildTurn(child) ==
  /\ Len(queue) < QueueLimit
  /\ running[child] = NoTurn /\ turns < MaxTurn
  /\ \E t \in Mains : running[t] # NoTurn
  /\ turns' = turns + 1
  /\ running' = [running EXCEPT ![child] = turns + 1]
  /\ Emit(Event("turn/started", child, turns + 1, 0))
  /\ UNCHANGED <<asked, requests>>

Chatter(t) ==
  /\ Len(queue) < QueueLimit
  /\ running[t] # NoTurn
  /\ Emit(Event("delta", t, running[t], 0))
  /\ UNCHANGED <<running, asked, turns, requests>>

(* It dies: waiters get an error, the channel its last message, and what   *)
(* only lived in the process is gone.                                      *)
Die ==
  /\ alive
  /\ alive' = FALSE
  /\ commands' = <<>>
  /\ queue' = Append(queue, Event("eof", NoThread, NoTurn, 0))
  /\ answer' = IF answer = NoAnswer /\ pc \in {"starting", "turning", "confirming", "resuming"}
               THEN [result |-> "error", turn |-> NoTurn] ELSE answer
  /\ loaded' = {} /\ asked' = {} /\ requests' = 0
  /\ running' = [t \in Threads |-> NoTurn]
  /\ UNCHANGED <<snapshotVars, conn, pc, op, seen, created, turns, written, missed>>

-----------------------------------------------------------------------------
Begin ==
  \/ \E t \in Mains : BeginStart(t)
  \/ \E t \in Threads : BeginReconnect(t)
  \/ \E t \in Threads, turn \in Turns \cup {NoTurn}, kind \in {"send", "interrupt"} :
       BeginControlled(kind, t, turn)
  \/ \E request \in pending : BeginReply(request)

Proceed ==
  \/ RegisterThread \/ StartTurn \/ WriteSend \/ TurnChanged
  \/ WriteInterrupt \/ SetTurn \/ InterruptConfirmed \/ MarkSent \/ WriteReply \/ Resumed \/ GiveUp

EventThread == ApplyDisconnect \/ ApplyEvent

Provider ==
  \/ Serve \/ Die
  \/ \E t \in Threads : FinishTurn(t) \/ Ask(t) \/ Chatter(t)
  \/ \E child \in Children : ChildTurn(child)
  \/ \E t \in Mains, child \in Children : Spawn(t, child)

Next == Begin \/ Proceed \/ EventThread \/ Provider

Spec == Init /\ [][Next]_vars

-----------------------------------------------------------------------------
(* Properties.                                                             *)

Events == [method: {"spawn", "request", "resolved", "turn/started",
                    "turn/completed", "delta", "eof"},
           thread: Threads \cup {NoThread}, turn: Turns \cup {NoTurn},
           ref: Natives \cup {0} \cup Children]

Commands == [kind: {"thread/start", "thread/resume", "turn/start", "turn/steer",
                    "turn/interrupt", "reply"},
             thread: Threads, turn: Turns \cup {NoTurn},
             ref: Natives \cup {0}, awaited: BOOLEAN]

(* Every variable has its type; the snapshot keeps at most 64 requests and *)
(* 256 events (supervisor.rs apply_event, stream.rs append_event).         *)
TypeOK ==
  /\ managed \subseteq known /\ known \subseteq Threads
  /\ authority \subseteq Threads
  /\ active \in [Threads -> Turns \cup {NoTurn}]
  /\ pending \subseteq Pending /\ Cardinality(pending) <= RequestLimit
  /\ window \in Seq([thread: Threads \cup {NoThread}, turn: Turns \cup {NoTurn}]) /\ Len(window) <= WindowLimit
  /\ connected \in BOOLEAN
  /\ conn \in 0..MaxConnection
  /\ queue \in Seq(Events) /\ commands \in Seq(Commands)
  /\ pc \in {"idle", "starting", "registered", "turning", "checked",
             "confirming", "replying", "marked", "resuming"}
  /\ op = NoOp <=> pc = "idle"
  /\ seen \in Turns \cup {NoTurn}
  /\ answer \in [result: {"none", "ok", "error"}, turn: Turns \cup {NoTurn}]
  /\ alive \in BOOLEAN
  /\ loaded \subseteq Threads /\ created \subseteq Threads
  /\ running \in [Threads -> Turns \cup {NoTurn}]
  /\ asked \subseteq [native: Natives, thread: Threads]
  /\ turns \in 0..MaxTurn /\ requests \in 0..MaxRequest
  /\ written \in Seq([conn: Connections, native: Natives, on: Connections])
  /\ missed \subseteq Turns \cup {NoTurn}

(* Approvals on offer belong to the connection the host talks to           *)
(* (supervisor.rs apply_event on None, provider).                          *)
PendingCurrent ==
  pending # {} => connected /\ \A p \in pending : p.conn = conn

(* One approval is answered at most once, whatever interleaves with the    *)
(* reply_sent mark (supervisor.rs execute, Reply).                         *)
ReplyOnce ==
  \A i, j \in DOMAIN written :
    written[i].conn = written[j].conn /\ written[i].native = written[j].native
      => i = j

(* Spawned children are shown and never controlled: neither authority nor  *)
(* a command ever names a conversation the host does not own.              *)
NoControlOverChildren ==
  /\ authority \subseteq managed
  /\ \A i \in DOMAIN commands :
       commands[i].thread \in managed \/ commands[i].kind = "thread/start"
  /\ managed \cap Children = {}

(* Nothing is under way: no operation, no unread command, no unseen event. *)
Quiet == pc = "idle" /\ commands = <<>> /\ queue = <<>> /\ connected /\ alive

(* In quiescence the snapshot shows the turn each live conversation really *)
(* runs, in whichever order acknowledgement, start and completion arrived  *)
(* (supervisor.rs set_turn against apply_event).  The one exception: later *)
(* events pushed the completion of this very turn out of the window while  *)
(* the handler, already acknowledged, had not yet called set_turn; then    *)
(* the finished turn is shown until the next one starts.                   *)
TurnViewAgrees ==
  Quiet => \A t \in loaded :
    \/ active[t] = running[t]
    \/ running[t] = NoTurn /\ active[t] \in missed

(* In quiescence no approval is offered that its provider no longer waits  *)
(* for, in a conversation the host owns (supervisor.rs apply_event,        *)
(* serverRequest/resolved, turn/started, turn/completed).                  *)
OffersAreOpen ==
  Quiet => \A p \in pending :
    p.thread \in managed => [native |-> p.native, thread |-> p.thread] \in asked

(* tests/control.rs:717 "complete_and_disconnected_turns_do_not_stay_      *)
(* controllable_as_working": once disconnected, no conversation can be     *)
(* sent to or shows a turn.                                                *)
DisconnectedMeansUncontrolled ==
  pc = "idle" /\ ~connected =>
    authority = {} /\ \A t \in Threads : active[t] = NoTurn

(* model.rs:107 "never reuse across connections": a reply goes to the      *)
(* connection that made the request.                                       *)
RepliesStayOnConnection ==
  \A i \in DOMAIN written : written[i].on = written[i].conn

(* model.rs:115 "A written reply remains visible": reply_sent marks a      *)
(* request whose reply was written.                                        *)
SentMeansWritten ==
  pc = "idle" => \A p \in pending : p.sent =>
    \E i \in DOMAIN written : written[i].conn = p.conn /\ written[i].native = p.native

=============================================================================
